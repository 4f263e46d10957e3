------------------------- MODULE RunnerControlPlane -------------------------
(***************************************************************************)
(* The hosted control plane's side of the split-plane runner protocol:     *)
(* RunnerRepository (orchestrator/db/sqlite.py) and the /runner endpoints  *)
(* of orchestrator/api.py that drive it.                                   *)
(*                                                                         *)
(* Every endpoint is a synchronous FastAPI handler, so each request runs   *)
(* in a thread of its own and two requests interleave between any two      *)
(* statements that are not in one SQLite transaction.  A request is a      *)
(* record of the variable handler: it is received and authenticated in     *)
(* one step, works in one or two further steps (complete and events read   *)
(* the lease in one statement and write in another), and then holds its    *)
(* reply until the response is delivered.                                  *)
(*                                                                         *)
(* Time is the number of ticks left on a lease: a lease with no tick left  *)
(* has expired.                                                            *)
(***************************************************************************)
EXTENDS Naturals, FiniteSets

CONSTANTS
  Runners,       \* runner identities (runner_tokens.id)
  Workspaces,    \* tenants
  WorkspaceOf,   \* the workspace each runner's token is scoped to
  MaxJobs,       \* bound: jobs ever enqueued
  Results,       \* result payloads a runner may report
  Threads,       \* bound: requests in flight at once
  LeaseTtl,      \* ticks a lease lasts (RunnerLeaseRequest.ttl_sec)
  HeartbeatTtl,  \* ticks a heartbeat leaves on a lease (lease_ttl_sec = 300)
  NoRunner,      \* lease_runner_id IS NULL
  NoResult       \* result_json = '{}'

ASSUME RunnerAssumption ==
  /\ NoRunner \notin Runners
  /\ NoResult \notin Results
  /\ WorkspaceOf \in [Runners -> Workspaces]
  /\ MaxJobs \in Nat
  /\ LeaseTtl \in Nat \ {0}      \* max(1, int(ttl_sec))
  /\ HeartbeatTtl \in Nat \ {0}  \* max(1, int(lease_ttl_sec))

VARIABLES
  jobs,      \* the runner_jobs table, in created_at order
  token,     \* the runner_tokens table: "none", "active" or "revoked"
  handler,   \* the request each thread is serving
  events,    \* for each job, the runners whose event batches were appended
  grantees   \* history: for each job, the runners ever given its lease

cpVars == <<jobs, token, handler, events, grantees>>

-----------------------------------------------------------------------------
(* The tables and the requests.                                            *)

Jobs == 1 .. MaxJobs

Statuses == {"absent", "queued", "leased", "terminal"}

Job == [status: Statuses, workspace: Workspaces, runner: Runners \cup {NoRunner},
        ttl: Nat, result: Results \cup {NoResult}]

Ops == {"heartbeat", "lease", "events", "complete", "release"}

\* "working" has authenticated; "checked" has passed require_active_lease.
Phases == {"idle", "working", "checked", "done"}

Replies == {"none", "ok", "unauthorized", "conflict", "not_found"}

Request == [phase: Phases, op: Ops, runner: Runners \cup {NoRunner},
            job: Jobs \cup {0}, result: Results \cup {NoResult}, reply: Replies]

Idle == [phase |-> "idle", op |-> "heartbeat", runner |-> NoRunner,
         job |-> 0, result |-> NoResult, reply |-> "none"]

\* A job nobody has enqueued yet; its workspace is settled by EnqueueJob.
AbsentJob(ws) == [status |-> "absent", workspace |-> ws, runner |-> NoRunner,
                  ttl |-> 0, result |-> NoResult]

Expired(j) == jobs[j].ttl = 0

\* Slips the properties must notice, each a variant of the definition below it.

\* Slip: the lease of whoever holds one will do.
ActiveLeaseOfAnyone(r, j) ==
  /\ j \in Jobs
  /\ jobs[j].workspace = WorkspaceOf[r]
  /\ jobs[j].status = "leased"
  /\ ~Expired(j)

\* Slip: a finished job still counts as leased to the runner that finished it.
ActiveLeaseForEver(r, j) ==
  /\ j \in Jobs
  /\ jobs[j].workspace = WorkspaceOf[r]
  /\ jobs[j].runner = r
  /\ ~Expired(j)

\* The condition of require_active_lease.
ActiveLease(r, j) ==
  /\ j \in Jobs
  /\ jobs[j].workspace = WorkspaceOf[r]
  /\ jobs[j].runner = r
  /\ jobs[j].status = "leased"
  /\ ~Expired(j)

\* Slip: the tenant is not looked at.
LeasableAnywhere(r, j) ==
  \/ jobs[j].status = "queued"
  \/ jobs[j].status = "leased" /\ Expired(j)

\* Slip: the expiry is not looked at.
LeasableUnexpired(r, j) ==
  /\ jobs[j].workspace = WorkspaceOf[r]
  /\ jobs[j].status \in {"queued", "leased"}

\* Slip: a finished job whose lease has run out is taken for an expired one.
LeasableFinished(r, j) ==
  /\ jobs[j].workspace = WorkspaceOf[r]
  /\ \/ jobs[j].status = "queued"
     \/ jobs[j].status \in {"leased", "terminal"} /\ Expired(j)

\* Slip: expired leases are not reclaimed.
LeasableQueued(r, j) ==
  /\ jobs[j].workspace = WorkspaceOf[r]
  /\ jobs[j].status = "queued"

\* The rows lease_next_job does not skip.
Leasable(r, j) ==
  /\ jobs[j].workspace = WorkspaceOf[r]
  /\ \/ jobs[j].status = "queued"
     \/ jobs[j].status = "leased" /\ Expired(j)

\* ORDER BY created_at ASC, id ASC: the row lease_next_job takes.
FirstLeasable(r, j) ==
  /\ Leasable(r, j)
  /\ \A k \in Jobs : k < j => ~Leasable(r, k)

-----------------------------------------------------------------------------
CPInit ==
  /\ jobs \in [Jobs -> {AbsentJob(ws) : ws \in Workspaces}]
  /\ token = [r \in Runners |-> "none"]
  /\ handler = [t \in Threads |-> Idle]
  /\ events = [j \in Jobs |-> {}]
  /\ grantees = [j \in Jobs |-> {}]

\* POST /runner/register, issue_token.
Register(r) ==
  /\ token[r] = "none"
  /\ token' = [token EXCEPT ![r] = "active"]
  /\ UNCHANGED <<jobs, handler, events, grantees>>

\* POST /runner/revoke: revoked_at = COALESCE(revoked_at, now).
Revoke(r) ==
  /\ token[r] # "none"
  /\ token' = [token EXCEPT ![r] = "revoked"]
  /\ UNCHANGED <<jobs, handler, events, grantees>>

\* POST /runner/jobs, enqueue_job.
EnqueueJob(j) ==
  /\ jobs[j].status = "absent"
  /\ \A k \in Jobs : k < j => jobs[k].status # "absent"
  /\ jobs' = [jobs EXCEPT ![j].status = "queued"]
  /\ UNCHANGED <<token, handler, events, grantees>>

\* The job and the result are part of a request only where its body has them.
WellFormed(op, j, res) ==
  /\ op \in {"heartbeat", "lease"} <=> j = 0
  /\ op = "complete" <=> res # NoResult

\* A runner's request arrives at a free thread and _require_runner looks the
\* token up: an unknown or revoked token is answered 401 there.
Receive(t, op, r, j, res) ==
  /\ handler[t].phase = "idle"
  /\ WellFormed(op, j, res)
  /\ LET authentic == token[r] = "active" IN
       handler' = [handler EXCEPT ![t] =
         [phase |-> IF authentic THEN "working" ELSE "done",
          op |-> op, runner |-> r, job |-> j, result |-> res,
          reply |-> IF authentic THEN "none" ELSE "unauthorized"]]
  /\ UNCHANGED <<jobs, token, events, grantees>>

Serving(t, op) == handler[t].phase = "working" /\ handler[t].op = op

Finish(t, reply) ==
  handler' = [handler EXCEPT ![t].phase = "done", ![t].reply = reply]

\* Slip: a heartbeat renews every lease of the workspace.
HeartbeatForAll(t) ==
  /\ Serving(t, "heartbeat")
  /\ jobs' = [j \in Jobs |->
       IF /\ jobs[j].workspace = WorkspaceOf[handler[t].runner]
          /\ jobs[j].status = "leased"
       THEN [jobs[j] EXCEPT !.ttl = HeartbeatTtl]
       ELSE jobs[j]]
  /\ Finish(t, "ok")
  /\ UNCHANGED <<token, events, grantees>>

\* repository.heartbeat: authenticates once more, then pushes the expiry of
\* every leased job of the runner to now + ttl.  A token revoked since the
\* first look-up still gets a 200, but extends nothing.
Heartbeat(t) ==
  LET r == handler[t].runner IN
  /\ Serving(t, "heartbeat")
  /\ jobs' = [j \in Jobs |->
       IF /\ token[r] = "active"
          /\ jobs[j].workspace = WorkspaceOf[r]
          /\ jobs[j].runner = r
          /\ jobs[j].status = "leased"
       THEN [jobs[j] EXCEPT !.ttl = HeartbeatTtl]
       ELSE jobs[j]]
  /\ Finish(t, "ok")
  /\ UNCHANGED <<token, events, grantees>>

\* lease_next_job (BEGIN IMMEDIATE): the oldest queued or expired job of the
\* workspace; the reply carries the job, or 0 when there is none.
LeaseNextJob(t) ==
  LET r == handler[t].runner IN
  /\ Serving(t, "lease")
  /\ \/ \E j \in Jobs :
          /\ FirstLeasable(r, j)
          /\ jobs' = [jobs EXCEPT ![j].status = "leased", ![j].runner = r,
                                  ![j].ttl = LeaseTtl]
          /\ grantees' = [grantees EXCEPT ![j] = @ \cup {r}]
          /\ handler' = [handler EXCEPT ![t].phase = "done", ![t].reply = "ok",
                                        ![t].job = j]
     \/ /\ \A j \in Jobs : ~Leasable(r, j)
        /\ handler' = [handler EXCEPT ![t].phase = "done", ![t].reply = "ok",
                                      ![t].job = 0]
        /\ UNCHANGED <<jobs, grantees>>
  /\ UNCHANGED <<token, events>>

\* require_active_lease, the first statement of complete and of events.
CheckLease(t) ==
  LET h == handler[t] IN
  /\ h.phase = "working"
  /\ h.op \in {"complete", "events"}
  /\ IF ActiveLease(h.runner, h.job)
       THEN handler' = [handler EXCEPT ![t].phase = "checked"]
       ELSE Finish(t, IF h.op = "events" THEN "conflict" ELSE "not_found")
  /\ UNCHANGED <<jobs, token, events, grantees>>

\* Slip: complete trusts the lease check and updates by job id alone.
CompleteUnowned(t) ==
  LET h == handler[t] IN
  /\ h.phase = "checked" /\ h.op = "complete"
  /\ jobs' = [jobs EXCEPT ![h.job].status = "terminal", ![h.job].result = h.result]
  /\ Finish(t, "ok")
  /\ UNCHANGED <<token, events, grantees>>

\* complete_job: UPDATE ... WHERE id, workspace_id and lease_runner_id match.
\* Neither the status nor the expiry is looked at again.
CompleteJob(t) ==
  LET h == handler[t]
      owned == /\ jobs[h.job].workspace = WorkspaceOf[h.runner]
               /\ jobs[h.job].runner = h.runner IN
  /\ h.phase = "checked" /\ h.op = "complete"
  /\ IF owned
       THEN /\ jobs' = [jobs EXCEPT ![h.job].status = "terminal",
                                    ![h.job].result = h.result]
            /\ Finish(t, "ok")
       ELSE Finish(t, "not_found") /\ UNCHANGED jobs
  /\ UNCHANGED <<token, events, grantees>>

\* The append_run_event loop of ingest_runner_events.
AppendEvents(t) ==
  LET h == handler[t] IN
  /\ h.phase = "checked" /\ h.op = "events"
  /\ events' = [events EXCEPT ![h.job] = @ \cup {h.runner}]
  /\ Finish(t, "ok")
  /\ UNCHANGED <<jobs, token, grantees>>

\* release_job: only a job still leased to the caller goes back to the queue.
ReleaseJob(t) ==
  LET h == handler[t] IN
  /\ Serving(t, "release")
  /\ IF /\ h.job \in Jobs
        /\ jobs[h.job].workspace = WorkspaceOf[h.runner]
        /\ jobs[h.job].runner = h.runner
        /\ jobs[h.job].status = "leased"
       THEN /\ jobs' = [jobs EXCEPT ![h.job].status = "queued",
                                    ![h.job].runner = NoRunner, ![h.job].ttl = 0]
            /\ Finish(t, "ok")
       ELSE Finish(t, "not_found") /\ UNCHANGED jobs
  /\ UNCHANGED <<token, events, grantees>>

\* The response leaves the server; whether anybody still waits for it is the
\* client's business.
Respond(t) ==
  /\ handler[t].phase = "done"
  /\ handler' = [handler EXCEPT ![t] = Idle]
  /\ UNCHANGED <<jobs, token, events, grantees>>

\* Slip: the clock runs on past the expiry.
TickPastExpiry ==
  /\ \E j \in Jobs : jobs[j].status = "leased"
  /\ jobs' = [j \in Jobs |->
       IF jobs[j].status = "leased" THEN [jobs[j] EXCEPT !.ttl = @ - 1] ELSE jobs[j]]
  /\ UNCHANGED <<token, handler, events, grantees>>

\* The clock: every running lease loses a tick.  lease_expires_at is not read
\* any more once a job is terminal.
Tick ==
  /\ \E j \in Jobs : jobs[j].status = "leased" /\ ~Expired(j)
  /\ jobs' = [j \in Jobs |->
       IF jobs[j].status = "leased" /\ ~Expired(j)
       THEN [jobs[j] EXCEPT !.ttl = @ - 1] ELSE jobs[j]]
  /\ UNCHANGED <<token, handler, events, grantees>>

Work(t) ==
  \/ Heartbeat(t)
  \/ LeaseNextJob(t)
  \/ CheckLease(t)
  \/ CompleteJob(t)
  \/ AppendEvents(t)
  \/ ReleaseJob(t)

\* Any runner may send any request, for any job, at any time.
CPNext ==
  \/ \E r \in Runners : Register(r) \/ Revoke(r)
  \/ \E j \in Jobs : EnqueueJob(j)
  \/ \E t \in Threads, op \in Ops, r \in Runners, j \in Jobs \cup {0},
          res \in Results \cup {NoResult} : Receive(t, op, r, j, res)
  \/ \E t \in Threads : Work(t) \/ Respond(t)
  \/ Tick

CPSpec == CPInit /\ [][CPNext]_cpVars

-----------------------------------------------------------------------------
(* Properties.                                                             *)

\* Every variable holds a value of its type.
CPTypeOK ==
  /\ jobs \in [Jobs -> Job]
  /\ token \in [Runners -> {"none", "active", "revoked"}]
  /\ handler \in [Threads -> Request]
  /\ events \in [Jobs -> SUBSET Runners]
  /\ grantees \in [Jobs -> SUBSET Runners]

\* The columns of a runner_jobs row agree at every moment, whatever requests
\* are in flight: a job has an owner exactly when it is leased or terminal, the
\* owner is a runner of the job's workspace that was given the lease, and only
\* a terminal job carries a result.
JobRowCoherent ==
  \A j \in Jobs :
    /\ jobs[j].runner # NoRunner <=> jobs[j].status \in {"leased", "terminal"}
    /\ jobs[j].runner # NoRunner =>
         /\ WorkspaceOf[jobs[j].runner] = jobs[j].workspace
         /\ jobs[j].runner \in grantees[j]
    /\ jobs[j].result # NoResult => jobs[j].status = "terminal"
    /\ jobs[j].status \in {"absent", "queued"} => jobs[j].ttl = 0

\* An event batch is appended some time after the lease was checked, and the
\* job may be released, reclaimed or finished in between; still no runner
\* that never held the job gets a line into its log.
EventsOnlyFromGrantees == \A j \in Jobs : events[j] \subseteq grantees[j]

\* `queued -> leased -> terminal`: a terminal job stays terminal and keeps its
\* owner, even though release, lease and a second complete may be in flight
\* when it gets there.
TerminalIsFinal ==
  [][\A j \in Jobs : jobs[j].status = "terminal" =>
       jobs'[j].status = "terminal" /\ jobs'[j].runner = jobs[j].runner]_cpVars

\* A running lease is never given to another runner: a job changes hands only
\* after its lease expired or after it went back to the queue (who may send it
\* there is the business of the release).
LeaseHeldUntilExpiry ==
  [][\A j \in Jobs :
       (jobs[j].status = "leased" /\ ~Expired(j)) =>
         \/ jobs'[j].runner = jobs[j].runner
         \/ jobs'[j].status = "queued"]_cpVars

\* A result is written, or overwritten, only for a request of the job's
\* owner that passed its lease check: the check and the write are two
\* statements, and the job may have changed hands in between.
ResultOnlyFromOwner ==
  [][\A j \in Jobs : jobs'[j].result # jobs[j].result =>
       \E t \in Threads :
         /\ handler[t].phase = "checked" /\ handler[t].op = "complete"
         /\ handler[t].job = j /\ handler[t].result = jobs'[j].result
         /\ handler[t].runner = jobs[j].runner]_cpVars

\* Once a runner is revoked and the requests it had in flight are answered,
\* the jobs it still owns leave its hands: nothing renews their leases, so
\* they finish or become reclaimable.
RevokedLeaseEnds ==
  \A r \in Runners, j \in Jobs :
    (token[r] = "revoked" /\ jobs[j].runner = r /\ jobs[j].status = "leased")
      ~> (jobs[j].runner # r \/ jobs[j].status = "terminal" \/ Expired(j))

-----------------------------------------------------------------------------
(* What the protocol promises about a job, without requests and threads.   *)

JobView == [j \in Jobs |-> [status |-> jobs[j].status, runner |-> jobs[j].runner,
                            live |-> jobs[j].status = "leased" /\ ~Expired(j)]]

Promise == INSTANCE RunnerJobProtocol WITH job <- JobView

\* The control plane implements the protocol of docs/runner_protocol.md.
ImplementsProtocol == Promise!Spec
=============================================================================
