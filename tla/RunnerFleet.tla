----------------------------- MODULE RunnerFleet -----------------------------
(***************************************************************************)
(* Customer-side runners (orchestrator/runner_client/daemon.py and         *)
(* transport.py) working against the control plane over a network that     *)
(* loses requests and responses.                                           *)
(*                                                                         *)
(* A daemon is the thread of RunnerDaemon.run_forever: register once, then *)
(* heartbeat, lease, execute, heartbeat, send events, complete, for ever.  *)
(* A transport call is a request handed to a server thread; the daemon     *)
(* waits for the reply, gives up on it, and tries again, MaxTries times.   *)
(***************************************************************************)
EXTENDS RunnerControlPlane

CONSTANTS
  MaxTries,    \* RunnerTransport.max_retries
  MaxFaults,   \* bound: faults and operator interventions in a behaviour
  Faults,      \* which of FaultKinds may happen
  Timely,      \* whether every execution is shorter than a lease
  Success,     \* the result of an execution that returned
  Failure,     \* the result reported after an exception
  NoThread     \* no request outstanding

FaultKinds == {"lost_request", "lost_response", "timeout", "kill", "interrupt",
               "restart", "revoke"}

ASSUME FleetAssumption ==
  /\ MaxTries \in Nat \ {0}
  /\ MaxFaults \in Nat
  /\ Faults \subseteq FaultKinds
  /\ Timely \in BOOLEAN
  /\ {Success, Failure} \subseteq Results
  /\ NoThread \notin Threads

VARIABLES
  daemon,  \* the state of each runner's daemon process
  faults,  \* faults so far
  late     \* history: an execution outlived its lease, or a request its caller

vars == <<cpVars, daemon, faults, late>>

-----------------------------------------------------------------------------
\* Where the daemon's thread is: outside, in one of its transport calls, or
\* in executor.execute.  "error_events" and "error_complete" are the calls of
\* the except clause of run_once, "release" the one of release_current_lease.
Calls == {"heartbeat", "lease", "renew", "events", "complete",
          "error_events", "error_complete", "release"}

PCs == Calls \cup {"off", "execute", "retired"}

\* job is _current_job_id; clear is set once the state file is to be cleared.
Daemon == [pc: PCs, thread: Threads \cup {NoThread}, tries: 0 .. MaxTries - 1,
           job: Jobs \cup {0}, clear: BOOLEAN]

OffDaemon == [pc |-> "off", thread |-> NoThread, tries |-> 0, job |-> 0,
              clear |-> FALSE]

OpOf == [heartbeat |-> "heartbeat", lease |-> "lease", renew |-> "heartbeat",
         events |-> "events", complete |-> "complete", error_events |-> "events",
         error_complete |-> "complete", release |-> "release"]

JobOf(r) == IF OpOf[daemon[r].pc] \in {"heartbeat", "lease"} THEN 0 ELSE daemon[r].job

ResultOf(r) == CASE daemon[r].pc = "complete" -> Success
                 [] daemon[r].pc = "error_complete" -> Failure
                 [] OTHER -> NoResult

Working(r) == daemon[r].pc \in {"execute", "renew", "events", "complete",
                                "error_events", "error_complete"}

Goto(r, pc) ==
  daemon' = [daemon EXCEPT ![r].pc = pc, ![r].thread = NoThread, ![r].tries = 0]

GotoWith(r, pc, j) ==
  daemon' = [daemon EXCEPT ![r].pc = pc, ![r].thread = NoThread, ![r].tries = 0,
                           ![r].job = j]

Exit(r) == daemon' = [daemon EXCEPT ![r] =
             [OffDaemon EXCEPT !.pc = IF daemon[r].clear THEN "retired" ELSE "off"]]

\* The finally clause of run_forever: a job still on record is released first.
Leave(r, unauthorized) ==
  IF daemon[r].job = 0
    THEN daemon' = [daemon EXCEPT ![r] =
           [OffDaemon EXCEPT !.pc = IF unauthorized THEN "retired" ELSE "off"]]
    ELSE daemon' = [daemon EXCEPT ![r].pc = "release", ![r].thread = NoThread,
           ![r].tries = 0, ![r].clear = unauthorized]

\* An exception out of a transport call: inside the try of run_once it starts
\* the error report; elsewhere it ends the daemon, except that
\* release_current_lease swallows it.
Raise(r, unauthorized) ==
  \/ daemon[r].pc \in {"renew", "events", "complete"} /\ Goto(r, "error_events")
  \/ daemon[r].pc \in {"heartbeat", "lease", "error_events", "error_complete"}
     /\ Leave(r, unauthorized)
  \/ daemon[r].pc = "release" /\ Exit(r)

\* Slip: one attempt too many.
FailedAttemptOnceMore(r) ==
  IF daemon[r].tries < MaxTries
    THEN daemon' = [daemon EXCEPT ![r].tries = @ + 1, ![r].thread = NoThread]
    ELSE Raise(r, FALSE)

\* Slip: giving up is taken for a 401, and the registration is thrown away.
FailedAttemptRetires(r) ==
  IF daemon[r].tries + 1 < MaxTries
    THEN daemon' = [daemon EXCEPT ![r].tries = @ + 1, ![r].thread = NoThread]
    ELSE Raise(r, TRUE)

\* One attempt failed with something other than 401: _request tries again.
FailedAttempt(r) ==
  IF daemon[r].tries + 1 < MaxTries
    THEN daemon' = [daemon EXCEPT ![r].tries = @ + 1, ![r].thread = NoThread]
    ELSE Raise(r, FALSE)

\* The call returned.
Succeed(r, h) ==
  \/ daemon[r].pc = "heartbeat" /\ Goto(r, "lease")
  \/ daemon[r].pc = "lease" /\ h.job # 0 /\ GotoWith(r, "execute", h.job)
  \/ daemon[r].pc = "lease" /\ h.job = 0 /\ Goto(r, "heartbeat")
  \/ daemon[r].pc = "renew" /\ (Goto(r, "events") \/ Goto(r, "complete"))
  \/ daemon[r].pc = "events" /\ Goto(r, "complete")
  \/ daemon[r].pc = "error_events" /\ Goto(r, "error_complete")
  \/ daemon[r].pc \in {"complete", "error_complete"} /\ GotoWith(r, "heartbeat", 0)
  \/ daemon[r].pc = "release" /\ Exit(r)

-----------------------------------------------------------------------------
FleetInit ==
  /\ CPInit
  /\ daemon = [r \in Runners |-> OffDaemon]
  /\ faults = 0
  /\ late = FALSE

Fault(kind) ==
  /\ kind \in Faults
  /\ faults < MaxFaults
  /\ faults' = faults + 1

\* The process starts: _ensure_registered registers a runner unless the state
\* file still holds one.
Start(r) ==
  /\ daemon[r].pc = "off"
  /\ \/ token[r] = "none" /\ Register(r) /\ UNCHANGED <<faults, late>>
     \/ /\ token[r] # "none"
        /\ Fault("restart")
        /\ late' = (late \/ \E t \in Threads : handler[t].runner = r)
        /\ UNCHANGED cpVars
  /\ Goto(r, "heartbeat")

\* A call is sent and a server thread takes it.
Send(r) ==
  /\ daemon[r].pc \in Calls /\ daemon[r].thread = NoThread
  /\ \E t \in Threads :
       /\ Receive(t, OpOf[daemon[r].pc], r, JobOf(r), ResultOf(r))
       /\ daemon' = [daemon EXCEPT ![r].thread = t]
  /\ UNCHANGED <<faults, late>>

\* The reply arrives.
GetReply(r) ==
  LET t == daemon[r].thread IN
  /\ t # NoThread
  /\ Respond(t)
  /\ \/ handler[t].reply = "ok" /\ Succeed(r, handler[t])
     \/ handler[t].reply = "unauthorized" /\ Raise(r, TRUE)
     \/ handler[t].reply \in {"conflict", "not_found"} /\ FailedAttempt(r)
  /\ UNCHANGED <<faults, late>>

\* A reply nobody waits for any more is dropped.
DropReply(t) ==
  /\ \A r \in Runners : daemon[r].thread # t
  /\ Respond(t)
  /\ UNCHANGED <<daemon, faults, late>>

\* executor.execute returns, or raises.
Execute(r) ==
  /\ daemon[r].pc = "execute"
  /\ Goto(r, "renew") \/ Goto(r, "error_events")
  /\ UNCHANGED <<cpVars, faults, late>>

\* The request never reaches the server.
LoseRequest(r) ==
  /\ daemon[r].pc \in Calls /\ daemon[r].thread = NoThread
  /\ Fault("lost_request")
  /\ FailedAttempt(r)
  /\ UNCHANGED <<cpVars, late>>

\* The server did its work and the response is lost.
LoseResponse(r) ==
  LET t == daemon[r].thread IN
  /\ t # NoThread
  /\ Fault("lost_response")
  /\ Respond(t)
  /\ FailedAttempt(r)
  /\ UNCHANGED late

\* The client's timeout fires while the server is still at work.
Timeout(r) ==
  /\ daemon[r].thread # NoThread
  /\ Fault("timeout")
  /\ FailedAttempt(r)
  /\ late' = TRUE
  /\ UNCHANGED cpVars

\* KeyboardInterrupt: no except clause, but the finally of run_forever runs.
Interrupt(r) ==
  /\ daemon[r].pc \notin {"off", "retired", "release"}
  /\ Fault("interrupt")
  /\ Leave(r, FALSE)
  /\ UNCHANGED <<cpVars, late>>

\* The process is killed, or SIGTERM takes its default action.
Kill(r) ==
  /\ daemon[r].pc \notin {"off", "retired"}
  /\ Fault("kill")
  /\ daemon' = [daemon EXCEPT ![r] = OffDaemon]
  /\ UNCHANGED <<cpVars, late>>

RevokeRunner(r) ==
  /\ Fault("revoke")
  /\ token[r] = "active"
  /\ Revoke(r)
  /\ UNCHANGED <<daemon, late>>

\* A lease somebody works under, or that a waiting daemon is about to learn of.
InUse(j) ==
  \E r \in Runners :
    /\ jobs[j].runner = r
    /\ \/ Working(r) /\ daemon[r].job = j
       \/ /\ daemon[r].pc = "lease"
          /\ daemon[r].thread # NoThread
          /\ handler[daemon[r].thread].phase = "done"
          /\ handler[daemon[r].thread].job = j

\* Under Timely the clock waits for whoever works on the last tick of a lease.
ClockTick ==
  LET lastTick == {j \in Jobs : jobs[j].status = "leased" /\ jobs[j].ttl = 1} IN
  /\ Timely => \A j \in lastTick : ~InUse(j)
  /\ Tick
  /\ late' = (late \/ \E j \in lastTick : InUse(j))
  /\ UNCHANGED <<daemon, faults>>

Server(t) == Work(t) /\ UNCHANGED <<daemon, faults, late>>

Enqueue == (\E j \in Jobs : EnqueueJob(j)) /\ UNCHANGED <<daemon, faults, late>>

DaemonStep(r) == Send(r) \/ GetReply(r) \/ Execute(r)

FaultStep(r) ==
  \/ LoseRequest(r) \/ LoseResponse(r) \/ Timeout(r)
  \/ Interrupt(r) \/ Kill(r) \/ RevokeRunner(r)

FleetNext ==
  \/ \E r \in Runners : Start(r) \/ DaemonStep(r) \/ FaultStep(r)
  \/ \E t \in Threads : Server(t) \/ DropReply(t)
  \/ Enqueue
  \/ ClockTick

FleetSpec == FleetInit /\ [][FleetNext]_vars

\* The server's threads run, the clock advances, and a daemon's thread runs
\* until its process ends.  Faults, restarts and the jobs' arrival are nobody's duty.
FleetFairness ==
  /\ \A r \in Runners : WF_vars(DaemonStep(r))
  /\ \A r \in Runners : WF_vars(token[r] = "none" /\ Start(r))
  /\ \A t \in Threads : WF_vars(Server(t)) /\ WF_vars(DropReply(t))
  /\ WF_vars(ClockTick)

FleetFairSpec == FleetSpec /\ FleetFairness

-----------------------------------------------------------------------------
(* Properties.                                                             *)

\* The daemons' variables hold values of their types.
FleetTypeOK ==
  /\ CPTypeOK
  /\ daemon \in [Runners -> Daemon]
  /\ faults \in 0 .. MaxFaults
  /\ late \in BOOLEAN

\* Two daemons work on the same job only after an execution outlived its lease
\* or a request outlived the call or the process that sent it; retries, lost
\* messages, kills, interrupts, restarts and revocations alone never do it.
AtMostOneWorker ==
  \A r, s \in Runners :
    Working(r) /\ Working(s) /\ daemon[r].job = daemon[s].job => r = s \/ late

\* The result of a finished job does not change, although a complete whose
\* response was lost is sent again, and after that the except clause of
\* run_once reports the same job as failed.  Only a request that outlived its
\* call, already past its lease check, overwrites a result.
ResultIsFinal ==
  [][\A j \in Jobs : jobs[j].status = "terminal" =>
       jobs'[j].result = jobs[j].result \/ late]_vars

\* Whatever is lost, late or killed, a daemon works only on a job it was given
\* the lease of, and clears its state file only when its token was revoked.
WorkIsGranted ==
  \A r \in Runners :
    /\ Working(r) => daemon[r].job # 0 /\ r \in grantees[daemon[r].job]
    /\ daemon[r].clear \/ daemon[r].pc = "retired" => token[r] = "revoked"

\* Under fairness every job that is enqueued reaches terminal, even if the
\* daemon that leased it is killed, as long as some daemon keeps running.
EveryJobEnds ==
  \A j \in Jobs : (jobs[j].status = "queued") ~> (jobs[j].status = "terminal")
=============================================================================
