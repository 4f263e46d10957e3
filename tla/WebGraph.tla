------------------------------ MODULE WebGraph ------------------------------
(***************************************************************************)
(* What the board tells of parallel work: which worker has which ticket and *)
(* which ticket waits for whose files (App.tsx loadTicketGraph,             *)
(* throughputUtils.ts, the cards and WorkerPoolControl.tsx), from the graph      *)
(* the server derives of the leases of WorkerPool (api.py tickets_graph).   *)
(*                                                                          *)
(* A refresh asks for the tickets, then for the graph, and the graph reads  *)
(* its tickets and then its leases: three readings of rows that change in   *)
(* between.  Refreshes that overtake each other are in WebBoard; here there *)
(* is one at a time.                                                        *)
(***************************************************************************)
EXTENDS Naturals

CONSTANTS
    MaxTicket,   \* tickets 1..MaxTicket, in created_at order
    FilesOf,       \* target_files of each ticket
    Workers,     \* the workers of the pool
    NoWorker,    \* no lease
    Passed       \* bound: statuses a ticket comes to have

GraphTickets == 1..MaxTicket

ASSUME GraphAssumption ==
    /\ MaxTicket \in Nat
    /\ Workers # {} /\ NoWorker \notin Workers
    /\ Passed \subseteq {"ready", "running", "done", "merged"}

VARIABLES
    rows,     \* the tickets table
    needs,    \* depends_on of each ticket
    graphCards,    \* the tickets of the page
    refresh   \* how far the refresh is, and what it has been answered

graphVars == <<rows, needs, graphCards, refresh>>

RowStatuses == {"ready", "running", "done", "merged"}
Holders == Workers \cup {NoWorker}

\* "done": its branch is not merged yet.  When a lease expires it stays in the
\* metadata.
RowRecord == [status: RowStatuses, holder: Holders, live: BOOLEAN]
NewRow == [status |-> "ready", holder |-> NoWorker, live |-> FALSE]

Tables == [GraphTickets -> RowRecord]

\* A card without the rest of its ticket.  note: the ticket whose files it waits
\* for; 0: none.
GraphCards == [GraphTickets -> [worker: Holders, note: 0..MaxTicket]]

\* list: the answer to listTickets; graph, free: what the graph has read of the
\* tickets, their workers and which of them only files can keep waiting.
RefreshRecord ==
    [at: {"none", "list", "graph", "leases", "answered"}, list: GraphCards,
     graph: [GraphTickets -> Holders], free: SUBSET GraphTickets]
NoCards == [t \in GraphTickets |-> [worker |-> NoWorker, note |-> 0]]
NoRefresh ==
    [at |-> "none", list |-> NoCards,
     graph |-> [t \in GraphTickets |-> NoWorker], free |-> {}]

GraphTypeOK ==
    /\ rows \in Tables
    /\ needs \in [GraphTickets -> SUBSET GraphTickets]
    /\ graphCards \in GraphCards
    /\ refresh \in RefreshRecord

-----------------------------------------------------------------------------
(* Leases as the pool takes and leaves them; its threads are in WorkerPool. *)

Overlap(t, u) == t # u /\ FilesOf[t] \cap FilesOf[u] # {}

\* claim_next_ready_ticket passes over the others.
Claimable(w, t) ==
    /\ rows[t].status = "ready"
    /\ rows[t].live => rows[t].holder = w
    /\ \A d \in needs[t]: rows[d].status = "merged"
    /\ \A u \in GraphTickets: rows[u].live => ~Overlap(t, u)

Claim(w, t) ==
    /\ Claimable(w, t)
    /\ rows' = [rows EXCEPT ![t].holder = w, ![t].live = TRUE]
    /\ UNCHANGED <<needs, graphCards, refresh>>

Release(t) ==
    /\ rows' = [rows EXCEPT ![t].holder = NoWorker, ![t].live = FALSE]
    /\ UNCHANGED <<needs, graphCards, refresh>>

Expire(t) ==
    /\ rows' = [rows EXCEPT ![t].live = FALSE]
    /\ UNCHANGED <<needs, graphCards, refresh>>

\* Runs, reviews, the Product Owner and retries; a run takes its ticket with a
\* lease or without.
RowSteps ==
    {<<"ready", "running">>, <<"running", "done">>, <<"running", "ready">>,
     <<"done", "merged">>, <<"done", "ready">>}

Advance(t, status) ==
    /\ <<rows[t].status, status>> \in RowSteps
    /\ status \in Passed
    /\ rows' = [rows EXCEPT ![t].status = status]
    /\ UNCHANGED <<needs, graphCards, refresh>>

-----------------------------------------------------------------------------
(* The graph.                                                               *)

Leased == {t \in GraphTickets: rows[t].live}

\* Slip: a branch that is not merged counts.
UnblockedWhenDone ==
    {t \in GraphTickets: /\ rows[t].status = "ready"
                    /\ \A d \in needs[t]: rows[d].status \in {"done", "merged"}}

\* Ready tickets that wait for no dependency: _ticket_ready_state calls them
\* "ready" or "conflict", and the others neither.
Unblocked ==
    {t \in GraphTickets: /\ rows[t].status = "ready"
                    /\ \A d \in needs[t]: rows[d].status = "merged"}

InConflict(t, free, leased) == t \in free /\ \E u \in leased: Overlap(t, u)

\* formatConflictNote: the first leased ticket it overlaps with.
ConflictNote(t, free, leased) ==
    LET others == {u \in leased: Overlap(t, u)} IN
    IF InConflict(t, free, leased)
    THEN CHOOSE u \in others: \A v \in others: u <= v
    ELSE 0

\* toUiTicket: the worker of the metadata, its lease expired or not.
CardOfRow(t) == [worker |-> rows[t].holder, note |-> 0]

\* Slip: a note is kept when the graph has none.
MergedKeepingNotes(list, graph, free, leased) ==
    [t \in GraphTickets |->
        [worker |-> IF t \in leased /\ graph[t] # NoWorker THEN graph[t]
                    ELSE list[t].worker,
         note |-> IF InConflict(t, free, leased) THEN ConflictNote(t, free, leased)
                  ELSE graphCards[t].note]]

\* mergeGraphIntoTickets: the worker of the graph while the graph counts the
\* ticket as leased, of the list otherwise.
MergedGraph(list, graph, free, leased) ==
    [t \in GraphTickets |->
        [worker |-> IF t \in leased /\ graph[t] # NoWorker THEN graph[t]
                    ELSE list[t].worker,
         note |-> ConflictNote(t, free, leased)]]

-----------------------------------------------------------------------------
(* A refresh, step by step.                                                 *)

ReadingAt(at) == refresh.at = at /\ UNCHANGED <<rows, needs, graphCards>>

StartRefresh ==
    /\ ReadingAt("none")
    /\ refresh' = [NoRefresh EXCEPT !.at = "list"]

ListAnswered ==
    /\ ReadingAt("list")
    /\ refresh' = [refresh EXCEPT !.at = "graph", !.list = [t \in GraphTickets |-> CardOfRow(t)]]

ReadTickets ==
    /\ ReadingAt("graph")
    /\ refresh' = [refresh EXCEPT !.at = "leases", !.free = Unblocked,
                     !.graph = [t \in GraphTickets |-> rows[t].holder]]

ReadLeases ==
    /\ ReadingAt("leases")
    /\ refresh' = [NoRefresh EXCEPT !.at = "answered",
                     !.list = MergedGraph(refresh.list, refresh.graph, refresh.free, Leased)]

Shown ==
    /\ refresh.at = "answered"
    /\ graphCards' = refresh.list
    /\ refresh' = NoRefresh
    /\ UNCHANGED <<rows, needs>>

\* Without a list the page stays as it is.
ListFails ==
    /\ ReadingAt("list")
    /\ refresh' = NoRefresh

\* Without a graph the tickets are shown as they were listed.
GraphFails ==
    /\ refresh.at \in {"graph", "leases"}
    /\ graphCards' = refresh.list
    /\ refresh' = NoRefresh
    /\ UNCHANGED <<rows, needs>>

\* The answer of any other call: its ticket, without what the graph says of it.
TicketReplied(t) ==
    /\ graphCards' = [graphCards EXCEPT ![t] = CardOfRow(t)]
    /\ UNCHANGED <<rows, needs, refresh>>

-----------------------------------------------------------------------------
\* Dependencies point at older tickets.
GraphInit ==
    /\ rows = [t \in GraphTickets |-> NewRow]
    /\ needs \in {n \in [GraphTickets -> SUBSET GraphTickets]:
                    \A t \in GraphTickets: \A d \in n[t]: d < t}
    /\ graphCards = NoCards
    /\ refresh = NoRefresh

GraphNext ==
    \/ \E t \in GraphTickets:
          \/ \E w \in Workers: Claim(w, t)
          \/ Release(t) \/ Expire(t) \/ TicketReplied(t)
          \/ \E status \in RowStatuses: Advance(t, status)
    \/ StartRefresh \/ ListAnswered \/ ReadTickets \/ ReadLeases \/ Shown
    \/ ListFails \/ GraphFails

GraphSpec == GraphInit /\ [][GraphNext]_graphVars

-----------------------------------------------------------------------------
(* The graph calls a ticket ready when a worker that has nothing may claim  *)
(* it, and only then: the route and the claim judge the same rows alike,    *)
(* leases that were left behind included.                                   *)
GraphTellsClaims ==
    \A t \in GraphTickets:
        (t \in Unblocked /\ ~InConflict(t, Unblocked, Leased))
            = (\E w \in Workers: Claimable(w, t))

Waits(t) == InConflict(t, Unblocked, Leased)

\* enrichWorkerSlots: of the tickets that carry its name, the last one.
SlotOf(w) ==
    LET mine == {t \in GraphTickets: graphCards[t].worker = w} IN
    IF mine = {} THEN 0 ELSE CHOOSE t \in mine: \A u \in mine: u <= t

Holds(w) == {t \in GraphTickets: rows[t].holder = w}

(* What the board tells of parallel work comes true.  A ticket that keeps   *)
(* waiting for files comes to say so, again after every answer that drops   *)
(* the note, and once nobody has a lease no card says it waits.  The list   *)
(* of workers comes to show a worker with its one ticket, and idle once no  *)
(* ticket carries its name.                                                 *)
GraphFollows ==
    /\ \A t \in GraphTickets:
          /\ (<>[]Waits(t)) => ([]<>(graphCards[t].note # 0))
          /\ (<>[](Leased = {})) => (<>[](graphCards[t].note = 0))
    /\ \A w \in Workers:
          /\ (<>[](Holds(w) = {})) => (<>[](SlotOf(w) = 0))
          /\ \A t \in GraphTickets: (<>[](Holds(w) = {t})) => (<>[](SlotOf(w) = t))
=============================================================================
