----------------------------- MODULE WorkerPool -----------------------------
(***************************************************************************)
(* Which thread executes which ticket: the auto-run workers                *)
(* (orchestrator/auto_worker.py) going round AutoOrchestrator.run_once     *)
(* (auto_orchestrator.py), with the ticket leases of TicketRepository      *)
(* (db/sqlite.py), the registry of executions (execution_registry.py),     *)
(* the recovery of orphans (crash_recovery.py) and the worktrees           *)
(* (execution_safety.py).  Audits and what a run decides about its ticket  *)
(* are in TicketLifecycle.                                                 *)
(*                                                                         *)
(* A thread is a tick of a worker, in a thread pool of its own: cancelling *)
(* its asyncio task does not stop it.  One step of a thread is the code up *)
(* to the next point where another thread can get in between: a claim is   *)
(* one BEGIN IMMEDIATE transaction, a release reads and writes the row.    *)
(***************************************************************************)
EXTENDS Naturals

CONSTANTS
  MaxTicket,     \* tickets 1 .. MaxTicket, in created_at order
  Files,         \* target_files of each ticket
  DependsOn,     \* dependencies of each ticket, all of them older
  Threads,       \* threads that may run
  Workers,       \* worker ids
  WorkerOf,      \* the worker id of a thread; NoWorker: a POST execute
  NoWorker,      \* lease_worker_id is unset
  LeaseTtl,      \* ticks a lease lasts (lease_ttl_sec = 300)
  Mishaps,       \* which of MishapKinds may happen
  MaxMishaps     \* bound: how many of them

MishapKinds == {"crash", "stop", "dirty", "error", "requeue", "execute"}

Tickets == 1 .. MaxTicket

ASSUME PoolAssumption ==
  /\ MaxTicket \in Nat
  /\ DependsOn \in [Tickets -> SUBSET Tickets]
  /\ \A t \in Tickets : \A d \in DependsOn[t] : d < t
  /\ NoWorker \notin Workers
  /\ WorkerOf \in [Threads -> Workers \cup {NoWorker}]
  /\ LeaseTtl \in Nat \ {0}
  /\ Mishaps \subseteq MishapKinds
  /\ MaxMishaps \in Nat

VARIABLES
  tickets,     \* the tickets table: status and the lease in its metadata
  threads,     \* the threads
  registered,  \* execution_registry: the tickets with an entry
  mishaps      \* mishaps so far

vars == <<tickets, threads, registered, mishaps>>

-----------------------------------------------------------------------------
\* "parked": with a human or an auditor (backlog, diff_pending, review,
\* awaiting_acceptance, blocked).  "merged": done, and its branch merged.
Row == [status: {"ready", "in_progress", "testing", "parked", "done", "merged"},
        holder: Workers \cup {NoWorker}, ttl: Nat]

NewRow == [status |-> "ready", holder |-> NoWorker, ttl |-> 0]

\* idle: between two calls of run_once; recovered, claimed: inside it;
\* model, tests: inside run_ticket; ending: in its finally clause.  leaving is
\* set once the worker was told to stop, tree while the worktree is there.
Thread == [pc: {"off", "idle", "recovered", "claimed", "model", "tests", "ending"},
           leaving: BOOLEAN, ticket: Tickets \cup {0}, tree: BOOLEAN, snap: Row]

Off == [pc |-> "off", leaving |-> FALSE, ticket |-> 0, tree |-> FALSE, snap |-> NewRow]

Running(w) == threads[w].pc \in {"model", "tests"}

Mishap(kind) ==
  /\ kind \in Mishaps
  /\ mishaps < MaxMishaps
  /\ mishaps' = mishaps + 1

Goto(w, pc) == threads' = [threads EXCEPT ![w].pc = pc]

\* Back at the top of the worker's loop; a request's thread is done.
Home(w) == threads' = [threads EXCEPT ![w] =
             IF WorkerOf[w] = NoWorker THEN Off
             ELSE [Off EXCEPT !.pc = "idle", !.leaving = threads[w].leaving]]

Init ==
  /\ tickets = [t \in Tickets |-> NewRow]
  /\ threads = [w \in Threads |-> Off]
  /\ registered = {}
  /\ mishaps = 0

-----------------------------------------------------------------------------
(* Workers and requests come and go.                                       *)

\* AutoWorker.start.  A thread of an earlier start that has not come home does
\* not keep its worker id from being used again.
Start(w) ==
  /\ threads[w].pc = "off" /\ WorkerOf[w] # NoWorker
  /\ \A v \in Threads : WorkerOf[v] = WorkerOf[w] =>
       threads[v].pc = "off" \/ threads[v].leaving
  /\ Goto(w, "idle")
  /\ UNCHANGED <<tickets, registered, mishaps>>

\* AutoWorker.stop sets the event, waits for interval_sec + 1 and cancels the
\* tasks.
Stop ==
  /\ Mishap("stop")
  /\ threads' = [w \in Threads |->
       [threads[w] EXCEPT !.leaving = WorkerOf[w] # NoWorker /\ threads[w].pc # "off"]]
  /\ UNCHANGED <<tickets, registered>>

\* The tick of a stopped worker returns; until then it may go on with the
\* cycles of run_until_idle.
Leave(w) ==
  /\ threads[w].pc = "idle" /\ threads[w].leaving
  /\ threads' = [threads EXCEPT ![w] = Off]
  /\ UNCHANGED <<tickets, registered, mishaps>>

\* POST execute: run_ticket without a lease, whatever other thread has the ticket.
Execute(w, t) ==
  /\ Mishap("execute")
  /\ threads[w].pc = "off" /\ WorkerOf[w] = NoWorker
  /\ threads' = [threads EXCEPT ![w].pc = "claimed", ![w].ticket = t]
  /\ UNCHANGED <<tickets, registered>>

\* The process dies: rows survive, leases included.
Crash ==
  /\ Mishap("crash")
  /\ threads' = [w \in Threads |-> Off]
  /\ registered' = {}
  /\ UNCHANGED tickets

-----------------------------------------------------------------------------
(* run_once.                                                               *)

\* Slips the properties must notice are variants of the definition below them.

\* Slip: an orphan in testing is left there.
RecoverTreesOnly(w) ==
  /\ threads[w].pc = "idle"
  /\ threads' = [v \in Threads |->
       IF v = w THEN [threads[v] EXCEPT !.pc = "recovered"]
       ELSE IF Running(v) THEN [threads[v] EXCEPT !.tree = FALSE] ELSE threads[v]]
  /\ UNCHANGED <<tickets, registered, mishaps>>

\* recover_orphaned_execution: a ticket in testing without an entry in the
\* registry goes back to in_progress; the worktrees of every ticket in progress
\* or testing are removed, entry or not.
Recover(w) ==
  /\ threads[w].pc = "idle"
  /\ tickets' = [t \in Tickets |->
       IF tickets[t].status = "testing" /\ t \notin registered
         THEN [tickets[t] EXCEPT !.status = "in_progress"] ELSE tickets[t]]
  /\ threads' = [v \in Threads |->
       IF v = w THEN [threads[v] EXCEPT !.pc = "recovered"]
       ELSE IF Running(v) /\ tickets[threads[v].ticket].status \in {"in_progress", "testing"}
         THEN [threads[v] EXCEPT !.tree = FALSE] ELSE threads[v]]
  /\ UNCHANGED <<registered, mishaps>>

\* _lease_active: only the expiry is looked at.
LeaseActive(t) == tickets[t].ttl > 0

\* Slip: a dependency that is done counts, its branch merged or not.
ClaimableUnmerged(w, t) ==
  /\ tickets[t].status = "ready"
  /\ LeaseActive(t) => tickets[t].holder = WorkerOf[w]
  /\ \A d \in DependsOn[t] : tickets[d].status \in {"done", "merged"}
  /\ \A u \in Tickets \ {t} : LeaseActive(u) => Files[u] \cap Files[t] = {}

\* Slip: only tickets in progress conflict.
ClaimableUnlessRunning(w, t) ==
  /\ tickets[t].status = "ready"
  /\ LeaseActive(t) => tickets[t].holder = WorkerOf[w]
  /\ \A d \in DependsOn[t] : tickets[d].status = "merged"
  /\ \A u \in Tickets \ {t} :
       tickets[u].status = "in_progress" => Files[u] \cap Files[t] = {}

\* The tickets claim_next_ready_ticket does not pass over.
Claimable(w, t) ==
  /\ tickets[t].status = "ready"
  /\ LeaseActive(t) => tickets[t].holder = WorkerOf[w]
  /\ \A d \in DependsOn[t] : tickets[d].status = "merged"
  /\ \A u \in Tickets \ {t} : LeaseActive(u) => Files[u] \cap Files[t] = {}

\* ORDER BY created_at ASC, id ASC: the ticket a list of them begins with.
Oldest(S) == {t \in S : \A u \in S : t <= u}

Take(w, t) ==
  threads' = [threads EXCEPT ![w].pc = "claimed", ![w].ticket = t]

\* claim_next_ready_ticket; without a claim the first ticket in progress will
\* do, and no lease is taken on it.
Claim(w) ==
  /\ threads[w].pc = "recovered"
  /\ LET claimable == {t \in Tickets : Claimable(w, t)}
         inProgress == {t \in Tickets : tickets[t].status = "in_progress"} IN
     \/ \E t \in Oldest(claimable) :
          /\ tickets' = [tickets EXCEPT ![t].holder = WorkerOf[w], ![t].ttl = LeaseTtl]
          /\ Take(w, t)
     \/ /\ claimable = {}
        /\ \/ \E t \in Oldest(inProgress) : Take(w, t)
           \/ inProgress = {} /\ Home(w)
        /\ UNCHANGED tickets
  /\ UNCHANGED <<registered, mishaps>>

\* workspace_dirty: back to the loop, and the lease just taken is kept.
FindDirty(w) ==
  /\ threads[w].pc = "claimed" /\ WorkerOf[w] # NoWorker
  /\ Mishap("dirty")
  /\ Home(w)
  /\ UNCHANGED <<tickets, registered>>

-----------------------------------------------------------------------------
(* run_ticket.                                                             *)

\* The finally clauses of run_ticket and of its worktree.
End(w) ==
  /\ threads' = [threads EXCEPT ![w].pc = "ending", ![w].tree = FALSE,
                                ![w].snap = NewRow]
  /\ registered' = registered \ {threads[w].ticket}

\* register, _prepare_ticket, worktree_for_ticket.  A ticket put back into the
\* backlog is parked: _prepare_ticket would run it all the same.
Begin(w) ==
  LET t == threads[w].ticket IN
  /\ threads[w].pc = "claimed"
  /\ IF tickets[t].status \in {"ready", "in_progress"}
       THEN /\ tickets' = [tickets EXCEPT ![t].status = "in_progress"]
            /\ registered' = registered \cup {t}
            /\ threads' = [threads EXCEPT ![w].pc = "model", ![w].tree = TRUE]
       ELSE End(w) /\ UNCHANGED tickets
  /\ UNCHANGED mishaps

\* The move to testing, on the row as it is now; the run remembers the row.  A
\* worktree that is gone makes the run raise before or after the move; the ticket
\* left in testing by the latter is TicketLifecycle's.
BeginTests(w) ==
  LET t == threads[w].ticket IN
  /\ threads[w].pc = "model" /\ threads[w].tree
  /\ tickets[t].status = "in_progress"
  /\ tickets' = [tickets EXCEPT ![t].status = "testing"]
  /\ threads' = [threads EXCEPT ![w].pc = "tests",
                   ![w].snap = [tickets[t] EXCEPT !.status = "testing"]]
  /\ UNCHANGED <<registered, mishaps>>

\* _save_result and what follows it write the row the run remembers, lease
\* included.
Save(w, status) ==
  tickets' = [tickets EXCEPT ![threads[w].ticket] =
                [threads[w].snap EXCEPT !.status = status]]

Retry(w) ==
  /\ threads[w].pc = "tests" /\ threads[w].tree
  /\ Save(w, "in_progress")
  /\ threads' = [threads EXCEPT ![w].pc = "model", ![w].snap = NewRow]
  /\ UNCHANGED <<registered, mishaps>>

\* diff_pending, or blocked.
Conclude(w) ==
  /\ threads[w].pc = "tests" /\ threads[w].tree
  /\ Save(w, "parked")
  /\ End(w)
  /\ UNCHANGED mishaps

\* The run raises: its worktree is gone, the ticket was taken from under it, or
\* the model is down.
Raise(w) ==
  /\ Running(w)
  /\ \/ ~threads[w].tree /\ UNCHANGED mishaps
     \/ /\ threads[w].pc = "model"
        /\ tickets[threads[w].ticket].status # "in_progress"
        /\ UNCHANGED mishaps
     \/ Mishap("error")
  /\ End(w)
  /\ UNCHANGED tickets

\* release_lease(ticket_id, worker_id) in the finally clause of run_once.
Release(w) ==
  LET t == threads[w].ticket IN
  /\ threads[w].pc = "ending"
  /\ IF WorkerOf[w] # NoWorker /\ tickets[t].holder = WorkerOf[w]
       THEN tickets' = [tickets EXCEPT ![t].holder = NoWorker, ![t].ttl = 0]
       ELSE UNCHANGED tickets
  /\ Home(w)
  /\ UNCHANGED <<registered, mishaps>>

-----------------------------------------------------------------------------
(* The Product Owner and the clock.                                        *)

SetStatus(t, source, target) ==
  /\ tickets[t].status = source
  /\ tickets' = [tickets EXCEPT ![t].status = target]
  /\ UNCHANGED <<threads, registered>>

Accept(t) == SetStatus(t, "parked", "done") /\ UNCHANGED mishaps

Merge(t) == SetStatus(t, "done", "merged") /\ UNCHANGED mishaps

\* retry, rerun, or a rejection approved again.
Requeue(t) == SetStatus(t, "parked", "ready") /\ Mishap("requeue")

\* Slip: the clock runs on past the expiry.
AgedPastExpiry(row) == [row EXCEPT !.ttl = @ - 1]

Aged(row) == [row EXCEPT !.ttl = IF @ = 0 THEN 0 ELSE @ - 1]

\* lease_expires_at is a point in time, in the table and in every copy.
Tick ==
  /\ \/ \E t \in Tickets : LeaseActive(t)
     \/ \E w \in Threads : threads[w].snap.ttl > 0
  /\ tickets' = [t \in Tickets |-> Aged(tickets[t])]
  /\ threads' = [w \in Threads |-> [threads[w] EXCEPT !.snap = Aged(@)]]
  /\ UNCHANGED <<registered, mishaps>>

-----------------------------------------------------------------------------
ThreadStep(w) ==
  \/ Recover(w) \/ Claim(w) \/ Begin(w) \/ BeginTests(w) \/ Retry(w)
  \/ Conclude(w) \/ Raise(w) \/ Release(w)

Next ==
  \/ \E w \in Threads :
       \/ Start(w) \/ Leave(w) \/ FindDirty(w) \/ ThreadStep(w)
       \/ \E t \in Tickets : Execute(w, t)
  \/ \E t \in Tickets : Accept(t) \/ Merge(t) \/ Requeue(t)
  \/ Stop \/ Crash \/ Tick

Spec == Init /\ [][Next]_vars

\* Auto-run is on, its threads run, and the Product Owner accepts and merges
\* what is finished.  A run that fails its tests again and again is ended by
\* its retry budget (TriesBounded of TicketLifecycle), the tick of a stopped
\* worker by max_cycles_per_tick.
Fairness ==
  /\ \A w \in Threads :
       /\ WF_vars(Start(w)) /\ WF_vars(ThreadStep(w))
       /\ SF_vars(Conclude(w)) /\ SF_vars(Leave(w))
  /\ \A t \in Tickets : WF_vars(Accept(t)) /\ WF_vars(Merge(t))
  /\ WF_vars(Tick)

FairSpec == Spec /\ Fairness

-----------------------------------------------------------------------------
(* Properties.                                                             *)

\* Every variable holds a value of its type.
TypeOK ==
  /\ tickets \in [Tickets -> Row]
  /\ threads \in [Threads -> Thread]
  /\ registered \subseteq Tickets
  /\ mishaps \in 0 .. MaxMishaps

\* No two executions have a target file in common
\* (test_overlapping_target_files_do_not_execute_concurrently_under_workers).
DisjointRuns ==
  \A v, w \in Threads :
    v # w /\ Running(v) /\ Running(w) =>
      Files[threads[v].ticket] \cap Files[threads[w].ticket] = {}

\* A worker's run never goes without the work it depends on, although a ticket
\* found in progress is run without asking for its dependencies.
DependenciesMet ==
  \A w \in Threads : Running(w) =>
    \A d \in DependsOn[threads[w].ticket] : tickets[d].status = "merged"

\* Live leases never overlap, whoever took, kept or leaked them.
LiveLeasesDisjoint ==
  \A t, u \in Tickets :
    t # u /\ LeaseActive(t) /\ LeaseActive(u) => Files[t] \cap Files[u] = {}

\* The worker gets through its tickets and they stay merged, in spite of
\* conflicts, dependencies, leaked leases, crashes, restarts that leave the old
\* thread running, and requests that run a ticket behind its back.
EveryTicketLands == <>[](\A t \in Tickets : tickets[t].status = "merged")
=============================================================================
