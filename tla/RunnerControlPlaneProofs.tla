---------------------- MODULE RunnerControlPlaneProofs ----------------------
(***************************************************************************)
(* Proofs about RunnerControlPlane, for any number of runners, jobs and    *)
(* threads: the runner_jobs table stays coherent and implements the job    *)
(* protocol.                                                               *)
(***************************************************************************)
EXTENDS RunnerControlPlane, TLAPS

\* What a request in flight may rely on.  Between require_active_lease and
\* the write that follows it, the job may change hands; what cannot change is
\* that the requester was given the job at some time.
RequestInv ==
  \A t \in Threads :
    /\ handler[t].phase \in {"working", "checked"} =>
         /\ handler[t].runner \in Runners
         /\ handler[t].op = "complete" => handler[t].result # NoResult
    /\ handler[t].phase = "checked" =>
         /\ handler[t].job \in Jobs
         /\ handler[t].runner \in grantees[handler[t].job]

\* The inductive invariant.
CPInv == CPTypeOK /\ JobRowCoherent /\ EventsOnlyFromGrantees /\ RequestInv

LEMMA InitInv == CPInit => CPInv
<1> SUFFICES ASSUME CPInit PROVE CPInv
  OBVIOUS
<1> USE RunnerAssumption DEF CPInit
<1>1. \A j \in Jobs : \E ws \in Workspaces : jobs[j] = AbsentJob(ws)
  OBVIOUS
<1>2. CPTypeOK
  <2>1. jobs \in [Jobs -> Job]
    BY DEF AbsentJob, Job, Statuses
  <2>2. handler \in [Threads -> Request]
    BY DEF Idle, Request, Phases, Ops, Replies
  <2>3. QED BY <2>1, <2>2 DEF CPTypeOK
<1>3. JobRowCoherent
  BY <1>1 DEF JobRowCoherent, AbsentJob
<1>4. EventsOnlyFromGrantees /\ RequestInv
  BY DEF EventsOnlyFromGrantees, RequestInv, Idle
<1>5. QED BY <1>2, <1>3, <1>4 DEF CPInv

\* One lemma per operation.
LEMMA RegisterInv ==
  ASSUME CPInv, NEW r \in Runners, Register(r) \/ Revoke(r)
  PROVE  CPInv'
<1>1. CPTypeOK'
  BY DEF CPInv, CPTypeOK, Register, Revoke
<1>2. QED
  BY <1>1 DEF CPInv, Register, Revoke, JobRowCoherent, EventsOnlyFromGrantees, RequestInv

LEMMA EnqueueInv ==
  ASSUME CPInv, NEW j \in Jobs, EnqueueJob(j)
  PROVE  CPInv'
<1> USE RunnerAssumption DEF CPInv
<1>1. CPTypeOK'
  BY SMTT(30) DEF CPTypeOK, EnqueueJob, Job, Statuses
<1>2. JobRowCoherent'
  BY DEF JobRowCoherent, EnqueueJob, CPTypeOK, Job, Statuses
<1>3. QED
  BY <1>1, <1>2 DEF EnqueueJob, EventsOnlyFromGrantees, RequestInv

LEMMA ReceiveInv ==
  ASSUME CPInv, NEW t \in Threads, NEW op \in Ops, NEW r \in Runners,
         NEW j \in Jobs \cup {0}, NEW res \in Results \cup {NoResult},
         Receive(t, op, r, j, res)
  PROVE  CPInv'
<1> USE RunnerAssumption DEF CPInv
<1>1. CPTypeOK'
  BY DEF CPTypeOK, Receive, Request, Phases, Replies
<1>2. RequestInv'
  BY DEF RequestInv, Receive, WellFormed, CPTypeOK
<1>3. QED
  BY <1>1, <1>2 DEF Receive, JobRowCoherent, EventsOnlyFromGrantees

\* A thread that finishes holds no claim any more, and the others keep theirs.
LEMMA FinishInv ==
  ASSUME CPTypeOK, RequestInv, NEW t \in Threads, NEW reply \in Replies,
         Finish(t, reply), \A j \in Jobs : grantees[j] \subseteq grantees'[j]
  PROVE  RequestInv' /\ handler' \in [Threads -> Request]
<1>1. handler' \in [Threads -> Request]
  <2> DEFINE h == [handler[t] EXCEPT !.phase = "done", !.reply = reply]
  <2>1. handler[t] \in Request
    BY DEF CPTypeOK
  <2>2. h \in Request
    BY <2>1 DEF Request, Phases
  <2>3. handler' = [handler EXCEPT ![t] = h]
    BY <2>1 DEF Finish, CPTypeOK, Request
  <2>4. QED BY <2>2, <2>3 DEF CPTypeOK
<1>2. \A s \in Threads : s # t => handler'[s] = handler[s]
  BY DEF Finish, CPTypeOK
<1>3. handler'[t].phase = "done"
  BY DEF Finish, CPTypeOK, Request
<1>4. RequestInv'
  BY <1>2, <1>3 DEF RequestInv
<1>5. QED BY <1>1, <1>4

LEMMA HeartbeatInv ==
  ASSUME CPInv, NEW t \in Threads, Heartbeat(t)
  PROVE  CPInv'
<1> USE RunnerAssumption DEF CPInv
<1>1. /\ RequestInv' /\ handler' \in [Threads -> Request]
  BY FinishInv DEF Heartbeat, Replies
<1>2. \A j \in Jobs : \/ jobs'[j] = jobs[j]
                      \/ /\ jobs[j].status = "leased"
                         /\ jobs'[j] = [jobs[j] EXCEPT !.ttl = HeartbeatTtl]
  BY DEF Heartbeat
<1>3. jobs' \in [Jobs -> Job]
  BY <1>2 DEF Heartbeat, CPTypeOK, Job
<1>4. JobRowCoherent'
  BY <1>2 DEF JobRowCoherent, CPTypeOK, Job, Heartbeat
<1>5. QED
  BY <1>1, <1>3, <1>4 DEF CPTypeOK, Heartbeat, EventsOnlyFromGrantees

LEMMA LeaseInv ==
  ASSUME CPInv, NEW t \in Threads, LeaseNextJob(t)
  PROVE  CPInv'
<1> USE RunnerAssumption DEF CPInv
<1> DEFINE r == handler[t].runner
<1>1. r \in Runners
  BY DEF LeaseNextJob, Serving, RequestInv
<1>2. CASE \E j \in Jobs :
          /\ FirstLeasable(r, j)
          /\ jobs' = [jobs EXCEPT ![j].status = "leased", ![j].runner = r,
                                  ![j].ttl = LeaseTtl]
          /\ grantees' = [grantees EXCEPT ![j] = @ \cup {r}]
          /\ handler' = [handler EXCEPT ![t].phase = "done", ![t].reply = "ok",
                                        ![t].job = j]
  <2>1. PICK j \in Jobs :
          /\ FirstLeasable(r, j)
          /\ jobs' = [jobs EXCEPT ![j].status = "leased", ![j].runner = r,
                                  ![j].ttl = LeaseTtl]
          /\ grantees' = [grantees EXCEPT ![j] = @ \cup {r}]
          /\ handler' = [handler EXCEPT ![t].phase = "done", ![t].reply = "ok",
                                        ![t].job = j]
    BY <1>2
  <2>2. UNCHANGED <<token, events>>
    BY DEF LeaseNextJob
  <2>3. CPTypeOK'
    <3>1. jobs' \in [Jobs -> Job]
      <4> DEFINE job == [jobs[j] EXCEPT !.status = "leased", !.runner = r, !.ttl = LeaseTtl]
      <4>1. jobs[j] \in Job
        BY DEF CPTypeOK
      <4>2. job \in Job
        BY <1>1, <4>1 DEF Job, Statuses
      <4>3. jobs' = [jobs EXCEPT ![j] = job]
        BY <2>1, <4>1 DEF CPTypeOK, Job
      <4>4. QED BY <4>2, <4>3 DEF CPTypeOK
    <3>2. handler' \in [Threads -> Request]
      <4> DEFINE h == [handler[t] EXCEPT !.phase = "done", !.reply = "ok", !.job = j]
      <4>1. handler[t] \in Request
        BY DEF CPTypeOK
      <4>2. h \in Request
        BY <4>1 DEF Request, Phases, Replies
      <4>3. handler' = [handler EXCEPT ![t] = h]
        BY <2>1, <4>1 DEF CPTypeOK, Request
      <4>4. QED BY <4>2, <4>3 DEF CPTypeOK
    <3>3. grantees' \in [Jobs -> SUBSET Runners]
      BY <1>1, <2>1 DEF CPTypeOK
    <3>4. QED BY <2>2, <3>1, <3>2, <3>3 DEF CPTypeOK
  <2>4. JobRowCoherent'
    BY <1>1, <2>1 DEF JobRowCoherent, FirstLeasable, Leasable, CPTypeOK, Job, Statuses
  <2>5. EventsOnlyFromGrantees'
    BY <2>1, <2>2 DEF EventsOnlyFromGrantees, CPTypeOK
  <2>6. RequestInv'
    <3>1. handler'[t].phase = "done"
      BY <2>1 DEF CPTypeOK, Request
    <3>2. \A s \in Threads : s # t => handler'[s] = handler[s]
      BY <2>1 DEF CPTypeOK
    <3>3. \A k \in Jobs : grantees[k] \subseteq grantees'[k]
      BY <2>1 DEF CPTypeOK
    <3>4. QED BY <3>1, <3>2, <3>3 DEF RequestInv
  <2>7. QED BY <2>3, <2>4, <2>5, <2>6
<1>3. CASE /\ handler' = [handler EXCEPT ![t].phase = "done", ![t].reply = "ok",
                                         ![t].job = 0]
           /\ UNCHANGED <<jobs, grantees>>
  <2>1. UNCHANGED <<token, events>>
    BY DEF LeaseNextJob
  <2>2. CPTypeOK'
    <3> DEFINE h == [handler[t] EXCEPT !.phase = "done", !.reply = "ok", !.job = 0]
    <3>1. handler[t] \in Request
      BY DEF CPTypeOK
    <3>2. h \in Request
      BY <3>1 DEF Request, Phases, Replies
    <3>3. handler' = [handler EXCEPT ![t] = h]
      BY <1>3, <3>1 DEF CPTypeOK, Request
    <3>4. QED BY <1>3, <2>1, <3>2, <3>3 DEF CPTypeOK
  <2>3. RequestInv'
    BY <1>3 DEF RequestInv, CPTypeOK, Request
  <2>4. QED
    BY <1>3, <2>1, <2>2, <2>3 DEF JobRowCoherent, EventsOnlyFromGrantees
<1>4. QED
  BY <1>2, <1>3 DEF LeaseNextJob

LEMMA CheckInv ==
  ASSUME CPInv, NEW t \in Threads, CheckLease(t)
  PROVE  CPInv'
<1> USE RunnerAssumption DEF CPInv
<1> DEFINE h == handler[t]
<1>1. UNCHANGED <<jobs, token, events, grantees>>
  BY DEF CheckLease
<1>2. CASE ActiveLease(h.runner, h.job)
  <2>1. handler' = [handler EXCEPT ![t].phase = "checked"]
    BY <1>2 DEF CheckLease
  <2>2. h.job \in Jobs /\ h.runner \in grantees[h.job] /\ h.runner \in Runners
    BY <1>2 DEF ActiveLease, JobRowCoherent, RequestInv, CheckLease
  <2>3. handler' \in [Threads -> Request]
    BY <2>1 DEF CPTypeOK, Request, Phases
  <2>4. RequestInv'
    BY <1>1, <2>1, <2>2 DEF RequestInv, CPTypeOK, Request, CheckLease
  <2>5. QED
    BY <1>1, <2>3, <2>4 DEF CPTypeOK, JobRowCoherent, EventsOnlyFromGrantees
<1>3. CASE ~ActiveLease(h.runner, h.job)
  <2>1. \E reply \in Replies : Finish(t, reply)
    BY <1>3 DEF CheckLease, Replies
  <2>2. RequestInv' /\ handler' \in [Threads -> Request]
    BY <1>1, <2>1, FinishInv
  <2>3. QED
    BY <1>1, <2>2 DEF CPTypeOK, JobRowCoherent, EventsOnlyFromGrantees
<1>4. QED BY <1>2, <1>3

LEMMA CompleteInv ==
  ASSUME CPInv, NEW t \in Threads, CompleteJob(t)
  PROVE  CPInv'
<1> USE RunnerAssumption DEF CPInv
<1> DEFINE h == handler[t]
<1>1. UNCHANGED <<token, events, grantees>>
  BY DEF CompleteJob
<1>2. /\ h.job \in Jobs /\ h.runner \in Runners
      /\ h.result \in Results \cup {NoResult}
  BY DEF CompleteJob, RequestInv, CPTypeOK, Request
<1>3. \E reply \in Replies : Finish(t, reply)
  BY DEF CompleteJob, Replies
<1>4. RequestInv' /\ handler' \in [Threads -> Request]
  BY <1>1, <1>3, FinishInv
<1>5. \/ UNCHANGED jobs
      \/ /\ jobs[h.job].runner = h.runner
         /\ jobs' = [jobs EXCEPT ![h.job].status = "terminal",
                                 ![h.job].result = h.result]
  BY DEF CompleteJob
<1>6. jobs' \in [Jobs -> Job]
  BY <1>2, <1>5 DEF CPTypeOK, Job, Statuses
<1>7. JobRowCoherent'
  BY <1>1, <1>2, <1>5 DEF JobRowCoherent, CPTypeOK, Job, Statuses
<1>8. QED
  BY <1>1, <1>4, <1>6, <1>7 DEF CPTypeOK, EventsOnlyFromGrantees

LEMMA AppendInv ==
  ASSUME CPInv, NEW t \in Threads, AppendEvents(t)
  PROVE  CPInv'
<1> USE RunnerAssumption DEF CPInv
<1>1. UNCHANGED <<jobs, token, grantees>>
  BY DEF AppendEvents
<1>2. RequestInv' /\ handler' \in [Threads -> Request]
  BY <1>1, FinishInv DEF AppendEvents, Replies
<1>3. /\ handler[t].job \in Jobs /\ handler[t].runner \in Runners
      /\ handler[t].runner \in grantees[handler[t].job]
  BY DEF AppendEvents, RequestInv
<1>4. events' \in [Jobs -> SUBSET Runners] /\ EventsOnlyFromGrantees'
  BY <1>1, <1>3 DEF AppendEvents, CPTypeOK, EventsOnlyFromGrantees
<1>5. QED
  BY <1>1, <1>2, <1>4 DEF CPTypeOK, JobRowCoherent

LEMMA ReleaseInv ==
  ASSUME CPInv, NEW t \in Threads, ReleaseJob(t)
  PROVE  CPInv'
<1> USE RunnerAssumption DEF CPInv
<1> DEFINE h == handler[t]
<1>1. UNCHANGED <<token, events, grantees>>
  BY DEF ReleaseJob
<1>2. \E reply \in Replies : Finish(t, reply)
  BY DEF ReleaseJob, Replies
<1>3. RequestInv' /\ handler' \in [Threads -> Request]
  BY <1>1, <1>2, FinishInv
<1>4. \/ UNCHANGED jobs
      \/ /\ h.job \in Jobs /\ jobs[h.job].status = "leased"
         /\ jobs' = [jobs EXCEPT ![h.job].status = "queued",
                                 ![h.job].runner = NoRunner, ![h.job].ttl = 0]
  BY DEF ReleaseJob
<1>5. jobs' \in [Jobs -> Job]
  <2>1. ASSUME h.job \in Jobs,
               jobs' = [jobs EXCEPT ![h.job].status = "queued",
                                    ![h.job].runner = NoRunner, ![h.job].ttl = 0]
        PROVE  jobs' \in [Jobs -> Job]
    <3> DEFINE job == [jobs[h.job] EXCEPT !.status = "queued", !.runner = NoRunner, !.ttl = 0]
    <3>1. jobs[h.job] \in Job
      BY <2>1 DEF CPTypeOK
    <3>2. job \in Job
      BY <3>1 DEF Job, Statuses
    <3>3. jobs' = [jobs EXCEPT ![h.job] = job]
      BY <2>1, <3>1 DEF CPTypeOK, Job
    <3>4. QED BY <2>1, <3>2, <3>3 DEF CPTypeOK
  <2>2. QED BY <1>4, <2>1 DEF CPTypeOK
<1>6. JobRowCoherent'
  BY <1>1, <1>4 DEF JobRowCoherent, CPTypeOK, Job, Statuses
<1>7. QED
  BY <1>1, <1>3, <1>5, <1>6 DEF CPTypeOK, EventsOnlyFromGrantees

LEMMA RespondInv ==
  ASSUME CPInv, NEW t \in Threads, Respond(t)
  PROVE  CPInv'
<1> USE RunnerAssumption DEF CPInv
<1>1. handler' \in [Threads -> Request]
  BY DEF Respond, CPTypeOK, Idle, Request, Phases, Ops, Replies
<1>2. RequestInv'
  BY DEF Respond, RequestInv, CPTypeOK, Idle
<1>3. QED
  BY <1>1, <1>2 DEF Respond, CPTypeOK, JobRowCoherent, EventsOnlyFromGrantees

LEMMA TickInv ==
  ASSUME CPInv, Tick
  PROVE  CPInv'
<1> USE RunnerAssumption DEF CPInv
<1>1. \A j \in Jobs : \/ jobs'[j] = jobs[j]
                      \/ /\ jobs[j].status = "leased" /\ jobs[j].ttl # 0
                         /\ jobs'[j] = [jobs[j] EXCEPT !.ttl = @ - 1]
  BY DEF Tick, Expired
<1>2. jobs' \in [Jobs -> Job]
  <2>1. ASSUME NEW j \in Jobs PROVE jobs'[j] \in Job
    <3>1. jobs[j] \in Job /\ jobs[j].ttl \in Nat
      BY DEF CPTypeOK, Job
    <3>2. CASE jobs'[j] = jobs[j]
      BY <3>1, <3>2
    <3>3. CASE jobs[j].ttl # 0 /\ jobs'[j] = [jobs[j] EXCEPT !.ttl = @ - 1]
      <4>1. jobs[j].ttl - 1 \in Nat
        BY <3>1, <3>3
      <4>2. QED BY <3>1, <3>3, <4>1 DEF Job
    <3>4. QED BY <1>1, <3>2, <3>3
  <2>2. QED BY <2>1 DEF Tick
<1>3. JobRowCoherent'
  BY <1>1 DEF JobRowCoherent, CPTypeOK, Job, Tick
<1>4. QED
  BY <1>2, <1>3 DEF Tick, CPTypeOK, EventsOnlyFromGrantees, RequestInv

LEMMA NextInv == CPInv /\ [CPNext]_cpVars => CPInv'
<1> SUFFICES ASSUME CPInv, [CPNext]_cpVars PROVE CPInv'
  OBVIOUS
<1>1. CASE UNCHANGED cpVars
  BY <1>1 DEF cpVars, CPInv, CPTypeOK, JobRowCoherent, EventsOnlyFromGrantees, RequestInv
<1>2. CASE \E t \in Threads : Work(t)
  BY <1>2, HeartbeatInv, LeaseInv, CheckInv, CompleteInv, AppendInv, ReleaseInv DEF Work
<1>3. QED
  BY <1>1, <1>2, RegisterInv, EnqueueInv, ReceiveInv, RespondInv, TickInv DEF CPNext

\* The runner_jobs table keeps its types and its coherence in every
\* reachable state, and no log line comes from a stranger.
THEOREM Invariance == CPSpec => []CPInv
BY InitInv, NextInv, PTL DEF CPSpec

\* Type correctness of the control plane.
THEOREM TypeCorrect == CPSpec => []CPTypeOK
BY Invariance, PTL DEF CPInv

\* Owner, status, lease and result of a job agree in every reachable state.
THEOREM RowsCoherent == CPSpec => []JobRowCoherent
BY Invariance, PTL DEF CPInv

\* Events are appended only for runners that were given the job.
THEOREM EventsFromGrantees == CPSpec => []EventsOnlyFromGrantees
BY Invariance, PTL DEF CPInv
-----------------------------------------------------------------------------
(* What a step does to the table of jobs, whoever takes it.                *)

Renewed(r) ==
  jobs' = [j \in Jobs |->
       IF /\ jobs[j].runner = r
          /\ jobs[j].status = "leased"
       THEN [jobs[j] EXCEPT !.ttl = HeartbeatTtl]
       ELSE jobs[j]]

Granted(j, r) ==
  /\ Leasable(r, j)
  /\ jobs' = [jobs EXCEPT ![j].status = "leased", ![j].runner = r, ![j].ttl = LeaseTtl]

Ended(t) ==
  /\ handler[t].phase = "checked" /\ handler[t].op = "complete"
  /\ jobs[handler[t].job].runner = handler[t].runner
  /\ jobs' = [jobs EXCEPT ![handler[t].job].status = "terminal",
                          ![handler[t].job].result = handler[t].result]

Returned(j) ==
  /\ jobs[j].status = "leased"
  /\ jobs' = [jobs EXCEPT ![j].status = "queued", ![j].runner = NoRunner, ![j].ttl = 0]

\* Every step leaves the jobs alone or does one of six things to them.
LEMMA JobEffect ==
  ASSUME CPInv, [CPNext]_cpVars
  PROVE  \/ UNCHANGED jobs
         \/ \E j \in Jobs : EnqueueJob(j)
         \/ \E r \in Runners : Renewed(r)
         \/ \E j \in Jobs, r \in Runners : Granted(j, r)
         \/ \E t \in Threads : Ended(t)
         \/ \E j \in Jobs : Returned(j)
         \/ Tick
<1>1. CASE UNCHANGED cpVars
  BY <1>1 DEF cpVars
<1>2. CASE \E r \in Runners : Register(r) \/ Revoke(r)
  BY <1>2 DEF Register, Revoke
<1>3. CASE \E t \in Threads, op \in Ops, r \in Runners, j \in Jobs \cup {0},
              res \in Results \cup {NoResult} : Receive(t, op, r, j, res)
  BY <1>3 DEF Receive
<1>4. ASSUME NEW t \in Threads, Work(t) \/ Respond(t)
      PROVE  \/ UNCHANGED jobs
             \/ \E r \in Runners : Renewed(r)
             \/ \E j \in Jobs, r \in Runners : Granted(j, r)
             \/ Ended(t)
             \/ \E j \in Jobs : Returned(j)
  <2>1. CASE Heartbeat(t)
    <3> DEFINE r == handler[t].runner
    <3>1. r \in Runners
      BY <2>1 DEF CPInv, RequestInv, Heartbeat, Serving
    <3>2. CASE token[r] = "active"
      <4>1. \A j \in Jobs : jobs[j].runner = r => jobs[j].workspace = WorkspaceOf[r]
        BY <3>1, RunnerAssumption DEF CPInv, JobRowCoherent
      <4>2. Renewed(r)
        BY <2>1, <3>2, <4>1 DEF Heartbeat, Renewed
      <4>3. QED BY <3>1, <4>2
    <3>3. CASE token[r] # "active"
      <4>1. jobs' = jobs
        BY <2>1, <3>3 DEF Heartbeat, CPInv, CPTypeOK
      <4>2. QED BY <4>1
    <3>4. QED BY <3>2, <3>3
  <2>2. CASE LeaseNextJob(t)
    <3>1. handler[t].runner \in Runners
      BY <2>2 DEF CPInv, RequestInv, LeaseNextJob, Serving
    <3>2. QED
      BY <2>2, <3>1 DEF LeaseNextJob, Granted, FirstLeasable
  <2>3. CASE CompleteJob(t)
    BY <2>3 DEF CompleteJob, Ended
  <2>4. CASE ReleaseJob(t)
    BY <2>4 DEF ReleaseJob, Returned
  <2>5. CASE CheckLease(t) \/ AppendEvents(t) \/ Respond(t)
    BY <2>5 DEF CheckLease, AppendEvents, Respond
  <2>6. QED BY <1>4, <2>1, <2>2, <2>3, <2>4, <2>5 DEF Work
<1>5. QED
  BY <1>1, <1>2, <1>3, <1>4 DEF CPNext

\* What is known of the job a completing request writes to.
LEMMA EndedJob ==
  ASSUME CPInv, NEW t \in Threads, Ended(t)
  PROVE  /\ handler[t].job \in Jobs
         /\ jobs[handler[t].job].status \in {"leased", "terminal"}
         /\ jobs[handler[t].job].runner \in Runners
BY RunnerAssumption DEF CPInv, Ended, RequestInv, JobRowCoherent

\* A terminal job stays terminal and keeps its owner.
THEOREM TerminalStays == CPSpec => TerminalIsFinal
<1>1. ASSUME CPInv, [CPNext]_cpVars, NEW j \in Jobs, jobs[j].status = "terminal"
      PROVE  jobs'[j].status = "terminal" /\ jobs'[j].runner = jobs[j].runner
  <2> USE DEF CPInv, CPTypeOK, Job
  <2>1. CASE UNCHANGED jobs
    BY <1>1, <2>1
  <2>2. CASE \E k \in Jobs : EnqueueJob(k)
    BY <1>1, <2>2 DEF EnqueueJob
  <2>3. CASE \E r \in Runners : Renewed(r)
    BY <1>1, <2>3 DEF Renewed
  <2>4. CASE \E k \in Jobs, r \in Runners : Granted(k, r)
    BY <1>1, <2>4 DEF Granted, Leasable
  <2>5. CASE \E t \in Threads : Ended(t)
    BY <1>1, <2>5, EndedJob DEF Ended
  <2>6. CASE \E k \in Jobs : Returned(k)
    BY <1>1, <2>6 DEF Returned
  <2>7. CASE Tick
    BY <1>1, <2>7 DEF Tick
  <2>8. QED BY <1>1, <2>1, <2>2, <2>3, <2>4, <2>5, <2>6, <2>7, JobEffect
<1>2. CPInv /\ [CPNext]_cpVars =>
        [\A j \in Jobs : jobs[j].status = "terminal" =>
           jobs'[j].status = "terminal" /\ jobs'[j].runner = jobs[j].runner]_cpVars
  BY <1>1
<1>3. QED BY <1>2, Invariance, PTL DEF CPSpec, TerminalIsFinal

\* A running lease is not taken from its owner.
THEOREM LeaseHeld == CPSpec => LeaseHeldUntilExpiry
<1>1. ASSUME CPInv, [CPNext]_cpVars, NEW j \in Jobs,
             jobs[j].status = "leased", ~Expired(j)
      PROVE  jobs'[j].runner = jobs[j].runner \/ jobs'[j].status = "queued"
  <2> USE DEF CPInv, CPTypeOK, Job
  <2>1. CASE UNCHANGED jobs
    BY <1>1, <2>1
  <2>2. CASE \E k \in Jobs : EnqueueJob(k)
    BY <1>1, <2>2 DEF EnqueueJob
  <2>3. CASE \E r \in Runners : Renewed(r)
    BY <1>1, <2>3 DEF Renewed
  <2>4. CASE \E k \in Jobs, r \in Runners : Granted(k, r)
    BY <1>1, <2>4 DEF Granted, Leasable
  <2>5. CASE \E t \in Threads : Ended(t)
    BY <1>1, <2>5, EndedJob DEF Ended
  <2>6. CASE \E k \in Jobs : Returned(k)
    BY <1>1, <2>6 DEF Returned
  <2>7. CASE Tick
    BY <1>1, <2>7 DEF Tick
  <2>8. QED BY <1>1, <2>1, <2>2, <2>3, <2>4, <2>5, <2>6, <2>7, JobEffect
<1>2. CPInv /\ [CPNext]_cpVars =>
        [\A j \in Jobs : (jobs[j].status = "leased" /\ ~Expired(j)) =>
           \/ jobs'[j].runner = jobs[j].runner
           \/ jobs'[j].status = "queued"]_cpVars
  BY <1>1
<1>3. QED BY <1>2, Invariance, PTL DEF CPSpec, LeaseHeldUntilExpiry

\* Whoever writes a result is the job's owner and was checked.
LEMMA ResultWriter ==
  ASSUME CPInv, [CPNext]_cpVars, NEW j \in Jobs, jobs'[j].result # jobs[j].result
  PROVE  \E t \in Threads :
           /\ handler[t].phase = "checked" /\ handler[t].op = "complete"
           /\ handler[t].job = j /\ handler[t].result = jobs'[j].result
           /\ handler[t].runner = jobs[j].runner
<1> USE DEF CPInv, CPTypeOK, Job
<1>1. CASE UNCHANGED jobs
  BY <1>1
<1>2. CASE \E k \in Jobs : EnqueueJob(k)
  BY <1>2 DEF EnqueueJob
<1>3. CASE \E r \in Runners : Renewed(r)
  BY <1>3 DEF Renewed
<1>4. CASE \E k \in Jobs, r \in Runners : Granted(k, r)
  BY <1>4 DEF Granted
<1>5. CASE \E t \in Threads : Ended(t)
  <2>1. PICK t \in Threads : Ended(t)
    BY <1>5
  <2>2. handler[t].job = j
    BY <2>1, EndedJob DEF Ended
  <2>3. jobs \in [Jobs -> Job]
    OBVIOUS
  <2>4. jobs'[j] = [jobs[j] EXCEPT !.status = "terminal", !.result = handler[t].result]
    BY <2>1, <2>2, <2>3 DEF Ended
  <2>5. jobs'[j].result = handler[t].result
    BY <2>3, <2>4
  <2>6. QED BY <2>1, <2>2, <2>5 DEF Ended
<1>6. CASE \E k \in Jobs : Returned(k)
  BY <1>6 DEF Returned
<1>7. CASE Tick
  BY <1>7 DEF Tick
<1>8. QED BY <1>1, <1>2, <1>3, <1>4, <1>5, <1>6, <1>7, JobEffect

\* A result is written only for a request of the owner that was checked.
THEOREM ResultFromOwner == CPSpec => ResultOnlyFromOwner
<1>1. CPInv /\ [CPNext]_cpVars =>
        [\A j \in Jobs : jobs'[j].result # jobs[j].result =>
           \E t \in Threads :
             /\ handler[t].phase = "checked" /\ handler[t].op = "complete"
             /\ handler[t].job = j /\ handler[t].result = jobs'[j].result
             /\ handler[t].runner = jobs[j].runner]_cpVars
  BY ResultWriter
<1>2. QED BY <1>1, Invariance, PTL DEF CPSpec, ResultOnlyFromOwner

\* A step that changes one job changes one row of the view.
LEMMA ViewRow ==
  ASSUME NEW k \in Jobs, NEW row,
         \A j \in Jobs : j # k => jobs'[j] = jobs[j],
         row = [status |-> jobs'[k].status, runner |-> jobs'[k].runner,
                live |-> jobs'[k].status = "leased" /\ ~(jobs'[k].ttl = 0)]
  PROVE  JobView' = [JobView EXCEPT ![k] = row]
BY DEF JobView, Expired

\* A row of the protocol, from the columns of a job.
LEMMA LiveRow ==
  ASSUME NEW status, NEW runner, NEW P, P = TRUE
  PROVE  [status |-> status, runner |-> runner, live |-> P]
           = Promise!Row(status, runner, TRUE)
BY DEF Promise!Row

LEMMA DeadRow ==
  ASSUME NEW status, NEW runner, NEW P, P = FALSE
  PROVE  [status |-> status, runner |-> runner, live |-> P]
           = Promise!Row(status, runner, FALSE)
BY DEF Promise!Row

\* The control plane implements the job protocol: every step is, seen through
\* JobView, a step of the protocol or a stutter.
THEOREM Refinement == CPSpec => ImplementsProtocol
<1> USE RunnerAssumption
<1>1. CPInit => Promise!Init
  <2> SUFFICES ASSUME CPInit PROVE Promise!Init
    OBVIOUS
  <2>1. \A j \in Jobs : jobs[j].status = "absent" /\ jobs[j].runner = NoRunner
    BY DEF CPInit, AbsentJob
  <2>2. QED BY <2>1 DEF Promise!Init, Promise!Row, JobView
<1>2. CPInv /\ [CPNext]_cpVars => [Promise!Next]_JobView
  <2> SUFFICES ASSUME CPInv, [CPNext]_cpVars PROVE [Promise!Next]_JobView
    OBVIOUS
  <2>0. /\ \A j \in Jobs : /\ JobView[j].status = jobs[j].status
                           /\ JobView[j].runner = jobs[j].runner
                           /\ JobView[j].live = (jobs[j].status = "leased" /\ ~(jobs[j].ttl = 0))
        /\ DOMAIN JobView = Jobs
    BY DEF JobView, Expired
  <2> USE DEF CPInv, CPTypeOK, Job
  <2>1. CASE UNCHANGED jobs
    BY <2>1 DEF JobView, Expired
  <2>2. ASSUME NEW k \in Jobs, EnqueueJob(k) PROVE Promise!Enqueue(k)
    <3>1. /\ jobs[k].runner = NoRunner
          /\ jobs'[k].status = "queued" /\ jobs'[k].runner = NoRunner
          /\ \A j \in Jobs : j # k => jobs'[j] = jobs[j]
      BY <2>2 DEF EnqueueJob, JobRowCoherent
    <3>2. JobView' = [JobView EXCEPT ![k] = Promise!Row("queued", NoRunner, FALSE)]
      <4> DEFINE row == [status |-> jobs'[k].status, runner |-> jobs'[k].runner,
                         live |-> jobs'[k].status = "leased" /\ ~(jobs'[k].ttl = 0)]
      <4>1. JobView' = [JobView EXCEPT ![k] = row]
        BY <3>1, ViewRow
      <4>2. (jobs'[k].status = "leased" /\ ~(jobs'[k].ttl = 0)) = FALSE
        BY <3>1
      <4>3. row = Promise!Row("queued", NoRunner, FALSE)
        BY <3>1, DeadRow, <4>2
      <4>4. QED BY <4>1, <4>3
    <3>3. QED BY <2>0, <2>2, <3>2 DEF EnqueueJob, Promise!Enqueue
  <2>3. ASSUME NEW r \in Runners, Renewed(r) PROVE Promise!Renew(r)
    <3>1. ASSUME NEW j \in Jobs
          PROVE  JobView'[j] = IF JobView[j].status = "leased" /\ JobView[j].runner = r
                                 THEN Promise!Row("leased", r, TRUE) ELSE JobView[j]
      <4>1. CASE jobs[j].status = "leased" /\ jobs[j].runner = r
        <5>1. /\ jobs'[j].status = "leased" /\ jobs'[j].runner = r
              /\ jobs'[j].ttl # 0
          BY <2>3, <4>1 DEF Renewed
        <5>2. JobView'[j] = Promise!Row("leased", r, TRUE)
          BY <5>1 DEF JobView, Expired, Promise!Row
        <5>3. QED BY <2>0, <4>1, <5>2
      <4>2. CASE ~(jobs[j].status = "leased" /\ jobs[j].runner = r)
        <5>1. jobs'[j] = jobs[j]
          BY <2>3, <4>2 DEF Renewed
        <5>2. JobView'[j] = JobView[j]
          BY <5>1 DEF JobView, Expired
        <5>3. QED BY <2>0, <4>2, <5>2
      <4>3. QED BY <4>1, <4>2
    <3>2. JobView' = [j \in Jobs |-> JobView'[j]]
      BY DEF JobView
    <3>3. QED BY <3>1, <3>2 DEF Promise!Renew
  <2>4. ASSUME NEW k \in Jobs, NEW r \in Runners, Granted(k, r) PROVE Promise!Grant(k, r)
    <3>1. /\ jobs'[k].status = "leased" /\ jobs'[k].runner = r /\ jobs'[k].ttl # 0
          /\ \A j \in Jobs : j # k => jobs'[j] = jobs[j]
      BY <2>4 DEF Granted
    <3>2. JobView' = [JobView EXCEPT ![k] = Promise!Row("leased", r, TRUE)]
      BY ZenonT(40), <3>1, ViewRow, LiveRow
    <3>3. \/ JobView[k].status = "queued"
          \/ JobView[k].status = "leased" /\ ~JobView[k].live
      BY <2>0, <2>4 DEF Granted, Leasable, Expired
    <3>4. QED BY <3>2, <3>3 DEF Promise!Grant
  <2>5. ASSUME NEW t \in Threads, Ended(t)
        PROVE  Promise!Finish(handler[t].job) \/ UNCHANGED JobView
    <3> DEFINE k == handler[t].job
    <3>1. k \in Jobs /\ jobs[k].status \in {"leased", "terminal"}
      BY <2>5, EndedJob
    <3>2. /\ jobs'[k].status = "terminal" /\ jobs'[k].runner = jobs[k].runner
          /\ \A j \in Jobs : j # k => jobs'[j] = jobs[j]
      BY <2>5, <3>1 DEF Ended
    <3>3. JobView' = [JobView EXCEPT ![k] = Promise!Row("terminal", jobs[k].runner, FALSE)]
      <4> DEFINE row == [status |-> jobs'[k].status, runner |-> jobs'[k].runner,
                         live |-> jobs'[k].status = "leased" /\ ~(jobs'[k].ttl = 0)]
      <4>1. JobView' = [JobView EXCEPT ![k] = row]
        BY <3>1, <3>2, ViewRow
      <4>2. (jobs'[k].status = "leased" /\ ~(jobs'[k].ttl = 0)) = FALSE
        BY <3>1, <3>2
      <4>3. row = Promise!Row("terminal", jobs[k].runner, FALSE)
        BY <3>1, <3>2, DeadRow, <4>2
      <4>4. QED BY <4>1, <4>3
    <3>4. CASE jobs[k].status = "leased"
      BY <2>0, <3>1, <3>3, <3>4 DEF Promise!Finish
    <3>5. CASE jobs[k].status = "terminal"
      <4>1. JobView[k] = Promise!Row("terminal", jobs[k].runner, FALSE)
        <5>1. (jobs[k].status = "leased" /\ ~(jobs[k].ttl = 0)) = FALSE
          BY <3>5
        <5>2. JobView[k] = [status |-> "terminal", runner |-> jobs[k].runner,
                            live |-> jobs[k].status = "leased" /\ ~(jobs[k].ttl = 0)]
          BY <3>1, <3>5 DEF JobView, Expired
        <5>3. QED BY <5>1, <5>2, DeadRow
      <4>2. [JobView EXCEPT ![k] = JobView[k]] = JobView
        BY DEF JobView
      <4>3. UNCHANGED JobView
        BY <3>3, <4>1, <4>2
      <4>4. QED BY <4>3
    <3>6. QED BY <3>1, <3>4, <3>5
  <2>6. ASSUME NEW k \in Jobs, Returned(k) PROVE Promise!Release(k)
    <3>1. /\ jobs'[k].status = "queued" /\ jobs'[k].runner = NoRunner
          /\ \A j \in Jobs : j # k => jobs'[j] = jobs[j]
      BY <2>6 DEF Returned
    <3>2. JobView' = [JobView EXCEPT ![k] = Promise!Row("queued", NoRunner, FALSE)]
      <4> DEFINE row == [status |-> jobs'[k].status, runner |-> jobs'[k].runner,
                         live |-> jobs'[k].status = "leased" /\ ~(jobs'[k].ttl = 0)]
      <4>1. JobView' = [JobView EXCEPT ![k] = row]
        BY <3>1, ViewRow
      <4>2. (jobs'[k].status = "leased" /\ ~(jobs'[k].ttl = 0)) = FALSE
        BY <3>1
      <4>3. row = Promise!Row("queued", NoRunner, FALSE)
        BY <3>1, DeadRow, <4>2
      <4>4. QED BY <4>1, <4>3
    <3>3. QED BY <2>0, <2>6, <3>2 DEF Returned, Promise!Release
  <2>7. ASSUME Tick PROVE \E S \in SUBSET Jobs : Promise!Expire(S)
    <3> DEFINE S == {j \in Jobs : jobs[j].status = "leased" /\ jobs[j].ttl \in {0, 1}}
    <3>1. ASSUME NEW j \in Jobs
          PROVE  JobView'[j] = IF j \in S /\ JobView[j].status = "leased"
                                 THEN Promise!Row("leased", JobView[j].runner, FALSE)
                                 ELSE JobView[j]
      <4>0. jobs[j].ttl \in Nat
        OBVIOUS
      <4>1. CASE j \in S
        <5>1. /\ jobs'[j].status = "leased" /\ jobs'[j].runner = jobs[j].runner
              /\ jobs'[j].ttl = 0
          BY <2>7, <4>1 DEF Tick, Expired
        <5>2. JobView'[j] = Promise!Row("leased", jobs[j].runner, FALSE)
          BY <5>1, DeadRow DEF JobView, Expired
        <5>3. QED BY <2>0, <4>1, <5>2
      <4>2. CASE j \notin S /\ jobs[j].status = "leased"
        <5>1. /\ jobs'[j].status = "leased" /\ jobs'[j].runner = jobs[j].runner
              /\ jobs'[j].ttl # 0 /\ jobs[j].ttl # 0
          BY <2>7, <4>0, <4>2 DEF Tick, Expired
        <5>2. JobView'[j] = Promise!Row("leased", jobs[j].runner, TRUE)
          BY <5>1, LiveRow DEF JobView, Expired
        <5>3. JobView[j] = Promise!Row("leased", jobs[j].runner, TRUE)
          BY <4>2, <5>1, LiveRow DEF JobView, Expired
        <5>4. QED BY <4>2, <5>2, <5>3
      <4>3. CASE jobs[j].status # "leased"
        <5>1. jobs'[j] = jobs[j]
          BY <2>7, <4>3 DEF Tick
        <5>2. JobView'[j] = JobView[j]
          BY <5>1 DEF JobView, Expired
        <5>3. QED BY <4>3, <5>2
      <4>4. QED BY <4>1, <4>2, <4>3
    <3>2. JobView' = [j \in Jobs |-> JobView'[j]]
      BY DEF JobView
    <3>3. Promise!Expire(S)
      BY <3>1, <3>2 DEF Promise!Expire
    <3>4. S \in SUBSET Jobs
      OBVIOUS
    <3> HIDE DEF S
    <3>5. QED BY <3>3, <3>4
  <2>8. QED
    BY <2>1, <2>2, <2>3, <2>4, <2>5, <2>6, <2>7, JobEffect, EndedJob DEF Promise!Next
<1>3. QED
  BY <1>1, <1>2, Invariance, PTL DEF CPSpec, ImplementsProtocol, Promise!Spec
=============================================================================
