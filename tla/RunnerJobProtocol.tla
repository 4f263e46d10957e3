-------------------------- MODULE RunnerJobProtocol --------------------------
(***************************************************************************)
(* The job state machine of the runner protocol, as a promise to whoever   *)
(* enqueues a job: queued -> leased -> terminal, where only an expired     *)
(* lease changes hands, a release puts the job back, and only the current  *)
(* owner ends it.  RunnerControlPlane implements it.                       *)
(***************************************************************************)
CONSTANTS Jobs, Runners, NoRunner

VARIABLE job   \* for each job [status, runner, live]

Row(status, runner, live) ==
  [status |-> status, runner |-> runner, live |-> live]

Init == job = [j \in Jobs |-> Row("absent", NoRunner, FALSE)]

Enqueue(j) ==
  /\ job[j].status = "absent"
  /\ job' = [job EXCEPT ![j] = Row("queued", NoRunner, FALSE)]

\* A queued job, or one whose lease is over, is given to a runner.
Grant(j, r) ==
  /\ \/ job[j].status = "queued"
     \/ job[j].status = "leased" /\ ~job[j].live
  /\ job' = [job EXCEPT ![j] = Row("leased", r, TRUE)]

\* A heartbeat keeps, or revives, every lease of one runner.
Renew(r) ==
  job' = [j \in Jobs |-> IF job[j].status = "leased" /\ job[j].runner = r
                           THEN Row("leased", r, TRUE) ELSE job[j]]

\* Time ends the leases of a set of jobs.
Expire(S) ==
  job' = [j \in Jobs |-> IF j \in S /\ job[j].status = "leased"
                           THEN Row("leased", job[j].runner, FALSE) ELSE job[j]]

Release(j) ==
  /\ job[j].status = "leased"
  /\ job' = [job EXCEPT ![j] = Row("queued", NoRunner, FALSE)]

\* The owner, and nobody else, ends the job; the owner stays on record.
Finish(j) ==
  /\ job[j].status = "leased"
  /\ job' = [job EXCEPT ![j] = Row("terminal", job[j].runner, FALSE)]

Next ==
  \/ \E j \in Jobs : Enqueue(j) \/ Release(j) \/ Finish(j)
  \/ \E j \in Jobs, r \in Runners : Grant(j, r)
  \/ \E r \in Runners : Renew(r)
  \/ \E S \in SUBSET Jobs : Expire(S)

Spec == Init /\ [][Next]_job
=============================================================================
