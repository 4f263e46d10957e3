-------------------------- MODULE RunnerFleetProofs --------------------------
(***************************************************************************)
(* Proofs about RunnerFleet, for any number of daemons, threads, tries and *)
(* faults: the fleet drives the control plane as it may be driven, works   *)
(* only on what it was granted, and no two daemons work on one job unless  *)
(* an execution outlived its lease or a request its caller.                *)
(***************************************************************************)
EXTENDS RunnerFleet, RunnerControlPlaneProofs

\* A job that is nobody else's to take: the runner finished it, or its lease
\* still runs.
Holds(r, j) ==
  /\ jobs[j].runner = r
  /\ jobs[j].status = "terminal" \/ (jobs[j].status = "leased" /\ ~Expired(j))

\* Where a daemon's thread is says what it has on record, and what the server
\* has of it.
Away(r) == daemon[r].pc \in {"off", "retired"}

OnRecord(r) ==
  /\ daemon[r].pc \in {"heartbeat", "lease", "off", "retired"} <=> daemon[r].job = 0
  /\ daemon[r].job # 0 => r \in grantees[daemon[r].job]
  /\ daemon[r].clear => daemon[r].pc = "release"
  /\ daemon[r].clear \/ daemon[r].pc = "retired" => token[r] = "revoked"
  /\ daemon[r].pc # "off" => token[r] # "none"

\* The thread a daemon waits for serves the call the daemon is in.
Awaits(r) ==
  daemon[r].thread # NoThread =>
    /\ daemon[r].pc \in Calls
    /\ handler[daemon[r].thread].phase # "idle"
    /\ handler[daemon[r].thread].runner = r
    /\ handler[daemon[r].thread].op = OpOf[daemon[r].pc]

\* A lease that was answered holds until the daemon hears of it.
AnswerHolds(r, t) ==
  (daemon[r].pc = "lease" /\ daemon[r].thread = t /\ handler[t].phase = "done"
     /\ handler[t].reply = "ok" /\ handler[t].job # 0)
    => Holds(r, handler[t].job)

\* While nothing was late: a daemon that has not left has no request in the
\* server but the one it waits for, and what it works on, or is about to, is its own.
InTime(r) ==
  /\ ~Away(r) /\ daemon[r].pc # "release" =>
       \A t \in Threads : handler[t].runner = r => t = daemon[r].thread
  /\ Working(r) => Holds(r, daemon[r].job)
  /\ \A t \in Threads : AnswerHolds(r, t)

\* The requests in the server: the token of the sender was issued, and revoked
\* where it was refused; a lease was granted where the reply has a job.
Sent(t) ==
  /\ IF handler[t].phase = "idle" THEN handler[t] = Idle
     ELSE handler[t].runner \in Runners /\ token[handler[t].runner] # "none"
  /\ handler[t].reply = "unauthorized" => token[handler[t].runner] = "revoked"
  /\ (handler[t].phase = "done" /\ handler[t].op = "lease" /\ handler[t].job # 0)
       => handler[t].reply = "ok" /\ handler[t].runner \in grantees[handler[t].job]

\* While nothing was late: a runner has one request in the server, besides
\* the release it makes as it leaves; so that nothing ends a job between the
\* check and the write of its owner's complete.
OneRequest ==
  \A t, u \in Threads :
    (/\ handler[t].runner = handler[u].runner /\ handler[t].phase # "idle"
     /\ handler[t].op # "release" /\ handler[u].op # "release") => t = u

CheckedIsOpen ==
  \A t \in Threads :
    (/\ handler[t].phase = "checked" /\ handler[t].op = "complete"
     /\ jobs[handler[t].job].runner = handler[t].runner)
      => jobs[handler[t].job].status # "terminal"

\* The inductive invariant.
FleetInv ==
  /\ CPInv /\ FleetTypeOK
  /\ \A r \in Runners : OnRecord(r) /\ Awaits(r)
  /\ \A t \in Threads : Sent(t)
  /\ ~late => /\ \A r \in Runners : InTime(r)
              /\ OneRequest /\ CheckedIsOpen

-----------------------------------------------------------------------------
(* A fleet's step is one the control plane allows.                         *)

LEMMA SendArgs ==
  ASSUME NEW r \in Runners, daemon[r] \in Daemon, daemon[r].pc \in Calls
  PROVE  /\ OpOf[daemon[r].pc] \in Ops /\ JobOf(r) \in Jobs \cup {0}
         /\ ResultOf(r) \in Results \cup {NoResult}
<1>1. OpOf[daemon[r].pc] \in Ops
  BY DEF Calls, OpOf, Ops
<1>2. JobOf(r) \in Jobs \cup {0}
  BY DEF JobOf, Daemon
<1>3. ResultOf(r) \in Results \cup {NoResult}
  BY FleetAssumption DEF ResultOf
<1>4. QED BY <1>1, <1>2, <1>3

LEMMA FleetDrives ==
  ASSUME daemon \in [Runners -> Daemon], [FleetNext]_vars
  PROVE  [CPNext]_cpVars
<1>1. CASE UNCHANGED vars
  BY <1>1 DEF vars
<1>2. ASSUME NEW r \in Runners, Start(r) \/ DaemonStep(r) \/ FaultStep(r)
      PROVE  [CPNext]_cpVars
  <2>1. daemon[r] \in Daemon
    OBVIOUS
  <2>2. CASE Start(r)
    BY <2>2 DEF Start, CPNext
  <2>3. CASE Send(r)
    BY <2>1, <2>3, SendArgs DEF Send, CPNext
  <2>4. CASE GetReply(r) \/ LoseResponse(r)
    BY <2>1, <2>4 DEF GetReply, LoseResponse, CPNext, Daemon
  <2>5. CASE Execute(r) \/ LoseRequest(r) \/ Timeout(r) \/ Interrupt(r) \/ Kill(r)
    BY <2>5 DEF Execute, LoseRequest, Timeout, Interrupt, Kill
  <2>6. CASE RevokeRunner(r)
    BY <2>6 DEF RevokeRunner, CPNext
  <2>7. QED BY <1>2, <2>2, <2>3, <2>4, <2>5, <2>6 DEF DaemonStep, FaultStep
<1>3. CASE \E t \in Threads : Server(t) \/ DropReply(t)
  BY <1>3 DEF Server, DropReply, CPNext
<1>4. CASE Enqueue \/ ClockTick
  BY <1>4 DEF Enqueue, ClockTick, CPNext
<1>5. QED BY <1>1, <1>2, <1>3, <1>4 DEF FleetNext

-----------------------------------------------------------------------------
(* What becomes of a daemon, told without the calls.                       *)

\* Nothing but the daemon of r moves; it waits for no thread any more.
Moves(r) ==
  /\ daemon' \in [Runners -> Daemon]
  /\ \A s \in Runners : s # r => daemon'[s] = daemon[s]
  /\ daemon'[r].thread = NoThread

\* The process ends; where revoked holds, for good.
Ends(r, revoked) ==
  /\ Away(r)' /\ daemon'[r].job = 0 /\ ~daemon'[r].clear
  /\ daemon'[r].pc = "retired" => revoked \/ daemon[r].clear

\* It is about to release the job it has on record.
GivesUp(r, revoked) ==
  /\ daemon'[r].pc = "release" /\ daemon[r].pc # "release"
  /\ daemon'[r].job = daemon[r].job /\ daemon[r].job # 0
  /\ daemon'[r].clear => revoked

\* It goes on with what it has on record, or makes its call again.
GoesOn(r) ==
  /\ ~Away(r)'
  /\ daemon'[r].pc = "release" <=> daemon[r].pc = "release"
  /\ Working(r)' <=> Working(r)
  /\ daemon'[r].job = daemon[r].job /\ daemon'[r].clear = daemon[r].clear

\* It takes job j, or has none any more.
Takes(r, j) ==
  /\ daemon[r].pc # "release"
  /\ IF j = 0 THEN daemon'[r].pc = "heartbeat" ELSE daemon'[r].pc = "execute"
  /\ daemon'[r].job = j /\ daemon'[r].clear = daemon[r].clear

LEMMA NoTries == 0 \in 0 .. MaxTries - 1
BY FleetAssumption

LEMMA GotoMoves ==
  ASSUME daemon \in [Runners -> Daemon], NEW r \in Runners, NEW pc \in PCs, Goto(r, pc)
  PROVE  /\ Moves(r) /\ daemon'[r].pc = pc
         /\ daemon'[r].job = daemon[r].job /\ daemon'[r].clear = daemon[r].clear
<1> DEFINE e == [daemon[r] EXCEPT !.pc = pc, !.thread = NoThread, !.tries = 0]
<1>1. daemon[r] \in Daemon
  OBVIOUS
<1>2. daemon' = [daemon EXCEPT ![r] = e]
  BY <1>1 DEF Goto, Daemon
<1>3. e \in Daemon
  BY <1>1, NoTries DEF Daemon
<1>4. e.pc = pc /\ e.thread = NoThread /\ e.job = daemon[r].job /\ e.clear = daemon[r].clear
  BY <1>1 DEF Daemon
<1> HIDE DEF e
<1>5. QED BY <1>2, <1>3, <1>4 DEF Moves

\* A daemon that goes from one call to the next.
LEMMA GoesOnWith ==
  ASSUME daemon \in [Runners -> Daemon], NEW r \in Runners,
         NEW pc \in PCs \ {"off", "retired", "release"},
         ~Away(r), daemon[r].pc # "release", Goto(r, pc),
         pc \in {"heartbeat", "lease"} <=> ~Working(r)
  PROVE  Moves(r) /\ GoesOn(r)
<1>1. /\ Moves(r) /\ daemon'[r].pc = pc
      /\ daemon'[r].job = daemon[r].job /\ daemon'[r].clear = daemon[r].clear
  BY GotoMoves
<1>2. Working(r)' <=> pc \notin {"heartbeat", "lease"}
  BY <1>1 DEF Working, PCs, Calls
<1>3. QED BY <1>1, <1>2 DEF GoesOn, Away

LEMMA GotoWithMoves ==
  ASSUME daemon \in [Runners -> Daemon], NEW r \in Runners, NEW pc \in PCs,
         NEW j \in Jobs \cup {0}, GotoWith(r, pc, j)
  PROVE  /\ Moves(r) /\ daemon'[r].pc = pc
         /\ daemon'[r].job = j /\ daemon'[r].clear = daemon[r].clear
<1> DEFINE e == [daemon[r] EXCEPT !.pc = pc, !.thread = NoThread, !.tries = 0, !.job = j]
<1>1. daemon[r] \in Daemon
  OBVIOUS
<1>2. daemon' = [daemon EXCEPT ![r] = e]
  BY <1>1 DEF GotoWith, Daemon
<1>3. e \in Daemon
  BY <1>1, NoTries DEF Daemon
<1>4. e.pc = pc /\ e.thread = NoThread /\ e.job = j /\ e.clear = daemon[r].clear
  BY <1>1 DEF Daemon
<1> HIDE DEF e
<1>5. QED BY <1>2, <1>3, <1>4 DEF Moves

LEMMA OffMoves ==
  ASSUME daemon \in [Runners -> Daemon], NEW r \in Runners, NEW pc \in {"off", "retired"},
         daemon' = [daemon EXCEPT ![r] = [OffDaemon EXCEPT !.pc = pc]]
  PROVE  /\ Moves(r) /\ daemon'[r].pc = pc /\ daemon'[r].job = 0 /\ ~daemon'[r].clear
<1> DEFINE e == [OffDaemon EXCEPT !.pc = pc]
<1>1. OffDaemon \in Daemon
  BY NoTries DEF OffDaemon, Daemon, PCs
<1>2. e.pc = pc /\ e.thread = NoThread /\ e.job = 0 /\ ~e.clear
  BY DEF OffDaemon
<1>3. e \in Daemon
  BY <1>1 DEF Daemon, PCs
<1>4. daemon' = [daemon EXCEPT ![r] = e]
  OBVIOUS
<1> HIDE DEF e
<1>5. QED BY <1>2, <1>3, <1>4 DEF Moves

LEMMA LeaveMoves ==
  ASSUME daemon \in [Runners -> Daemon], NEW r \in Runners, NEW revoked \in BOOLEAN,
         daemon[r].pc # "release", Leave(r, revoked)
  PROVE  Moves(r) /\ (Ends(r, revoked) \/ GivesUp(r, revoked))
<1>1. daemon[r] \in Daemon
  OBVIOUS
<1>2. CASE daemon[r].job = 0
  <2>1. PICK pc \in {"off", "retired"} :
          /\ pc = "retired" => revoked
          /\ daemon' = [daemon EXCEPT ![r] = [OffDaemon EXCEPT !.pc = pc]]
    BY <1>2 DEF Leave
  <2>2. QED BY <2>1, OffMoves DEF Ends, Away
<1>3. CASE daemon[r].job # 0
  <2> DEFINE e == [daemon[r] EXCEPT !.pc = "release", !.thread = NoThread, !.tries = 0,
                                    !.clear = revoked]
  <2>1. daemon' = [daemon EXCEPT ![r] = e]
    BY <1>1, <1>3 DEF Leave, Daemon
  <2>2. e \in Daemon
    BY <1>1, NoTries DEF Daemon, PCs, Calls
  <2>3. e.pc = "release" /\ e.thread = NoThread /\ e.job = daemon[r].job /\ e.clear = revoked
    BY <1>1 DEF Daemon
  <2> HIDE DEF e
  <2>4. QED BY <1>3, <2>1, <2>2, <2>3 DEF Moves, GivesUp
<1>4. QED BY <1>2, <1>3

LEMMA ExitMoves ==
  ASSUME daemon \in [Runners -> Daemon], NEW r \in Runners, Exit(r)
  PROVE  Moves(r) /\ Ends(r, FALSE)
<1>1. PICK pc \in {"off", "retired"} :
        /\ pc = "retired" => daemon[r].clear
        /\ daemon' = [daemon EXCEPT ![r] = [OffDaemon EXCEPT !.pc = pc]]
  BY DEF Exit
<1>2. QED BY <1>1, OffMoves DEF Ends, Away

LEMMA RaiseMoves ==
  ASSUME daemon \in [Runners -> Daemon], NEW r \in Runners, NEW revoked \in BOOLEAN,
         Raise(r, revoked)
  PROVE  Moves(r) /\ (Ends(r, revoked) \/ GivesUp(r, revoked) \/ GoesOn(r))
<1>1. CASE daemon[r].pc \in {"renew", "events", "complete"} /\ Goto(r, "error_events")
  BY <1>1, GoesOnWith DEF PCs, Calls, Away, Working
<1>2. CASE /\ daemon[r].pc \in {"heartbeat", "lease", "error_events", "error_complete"}
           /\ Leave(r, revoked)
  BY <1>2, LeaveMoves
<1>3. CASE daemon[r].pc = "release" /\ Exit(r)
  BY <1>3, ExitMoves DEF Ends
<1>4. QED BY <1>1, <1>2, <1>3 DEF Raise

LEMMA FailedMoves ==
  ASSUME daemon \in [Runners -> Daemon], NEW r \in Runners, daemon[r].pc \in Calls,
         FailedAttempt(r)
  PROVE  Moves(r) /\ (Ends(r, FALSE) \/ GivesUp(r, FALSE) \/ GoesOn(r))
<1>1. CASE daemon[r].tries + 1 < MaxTries
  <2> DEFINE e == [daemon[r] EXCEPT !.tries = @ + 1, !.thread = NoThread]
  <2>1. daemon[r] \in Daemon
    OBVIOUS
  <2>2. daemon' = [daemon EXCEPT ![r] = e]
    BY <1>1, <2>1 DEF FailedAttempt, Daemon
  <2>3. daemon[r].tries + 1 \in 0 .. MaxTries - 1
    BY <1>1, <2>1, FleetAssumption DEF Daemon
  <2>4. e \in Daemon
    BY <2>1, <2>3 DEF Daemon
  <2>5. /\ e.pc = daemon[r].pc /\ e.thread = NoThread
        /\ e.job = daemon[r].job /\ e.clear = daemon[r].clear
    BY <2>1 DEF Daemon
  <2> HIDE DEF e
  <2>6. QED BY <2>2, <2>4, <2>5 DEF Moves, GoesOn, Away, Working, Calls
<1>2. CASE ~(daemon[r].tries + 1 < MaxTries)
  BY <1>2, RaiseMoves DEF FailedAttempt
<1>3. QED BY <1>1, <1>2

LEMMA SucceedMoves ==
  ASSUME daemon \in [Runners -> Daemon], NEW r \in Runners, NEW h \in Request, Succeed(r, h)
  PROVE  /\ Moves(r)
         /\ \/ Ends(r, FALSE) \/ GoesOn(r) \/ Takes(r, 0)
            \/ daemon[r].pc = "lease" /\ h.job # 0 /\ Takes(r, h.job)
<1> USE DEF PCs, Calls
<1>1. h.job \in Jobs \cup {0}
  BY DEF Request
<1>2. CASE daemon[r].pc = "heartbeat" /\ Goto(r, "lease")
  BY <1>2, GoesOnWith DEF Away, Working
<1>3. CASE daemon[r].pc = "lease" /\ h.job # 0 /\ GotoWith(r, "execute", h.job)
  BY <1>1, <1>3, GotoWithMoves DEF Takes
<1>4. CASE daemon[r].pc = "lease" /\ h.job = 0 /\ Goto(r, "heartbeat")
  BY <1>4, GoesOnWith DEF Away, Working
<1>5. CASE daemon[r].pc = "renew" /\ (Goto(r, "events") \/ Goto(r, "complete"))
  BY <1>5, GoesOnWith DEF Away, Working
<1>6. CASE daemon[r].pc = "events" /\ Goto(r, "complete")
  BY <1>6, GoesOnWith DEF Away, Working
<1>7. CASE daemon[r].pc = "error_events" /\ Goto(r, "error_complete")
  BY <1>7, GoesOnWith DEF Away, Working
<1>8. CASE daemon[r].pc \in {"complete", "error_complete"} /\ GotoWith(r, "heartbeat", 0)
  BY <1>8, GotoWithMoves DEF Takes
<1>9. CASE daemon[r].pc = "release" /\ Exit(r)
  BY <1>9, ExitMoves
<1>10. QED BY <1>2, <1>3, <1>4, <1>5, <1>6, <1>7, <1>8, <1>9 DEF Succeed

-----------------------------------------------------------------------------
(* The invariant starts, and its types last.                               *)

LEMMA FleetStart == FleetInit => FleetInv
<1> SUFFICES ASSUME FleetInit PROVE FleetInv
  OBVIOUS
<1> USE RunnerAssumption, FleetAssumption
<1>1. CPInv
  BY InitInv DEF FleetInit
<1>2. OffDaemon \in Daemon
  BY NoTries DEF OffDaemon, Daemon, PCs
<1>3. faults \in 0 .. MaxFaults
  BY DEF FleetInit
<1>4. late \in BOOLEAN
  BY DEF FleetInit
<1>5. daemon \in [Runners -> Daemon]
  BY <1>2 DEF FleetInit
<1>6. FleetTypeOK
  BY <1>1, <1>3, <1>5, <1>4 DEF FleetTypeOK, CPInv
<1>7. \A r \in Runners : daemon[r] = OffDaemon
  BY DEF FleetInit
<1>8. \A t \in Threads : handler[t] = Idle
  BY DEF FleetInit, CPInit
<1>9. \A r \in Runners : OnRecord(r) /\ Awaits(r) /\ InTime(r)
  BY <1>7, <1>8 DEF OffDaemon, OnRecord, Awaits, InTime, Away, Working, AnswerHolds
<1>10. (\A t \in Threads : Sent(t)) /\ OneRequest /\ CheckedIsOpen
  BY <1>8 DEF Idle, Sent, OneRequest, CheckedIsOpen
<1>11. QED BY <1>1, <1>6, <1>9, <1>10 DEF FleetInv

LEMMA CallMoves ==
  ASSUME FleetInv, NEW r \in Runners,
         GetReply(r) \/ LoseResponse(r) \/ LoseRequest(r) \/ Timeout(r)
  PROVE  /\ Moves(r) /\ daemon[r].pc \in Calls
         /\ \E revoked \in BOOLEAN :
              /\ revoked => token[r] = "revoked"
              /\ \/ Ends(r, revoked) \/ GivesUp(r, revoked) \/ GoesOn(r) \/ Takes(r, 0)
                 \/ \E j \in Jobs : Takes(r, j) /\ r \in grantees[j] /\ (~late => Holds(r, j))
<1>1. /\ daemon \in [Runners -> Daemon] /\ daemon[r].thread \in Threads \cup {NoThread}
      /\ handler \in [Threads -> Request]
  BY DEF FleetInv, FleetTypeOK, Daemon, CPTypeOK
<1>2. daemon[r].pc \in Calls
  BY DEF GetReply, LoseResponse, LoseRequest, Timeout, FleetInv, Awaits
<1>3. ASSUME FailedAttempt(r)
      PROVE  Moves(r) /\ (Ends(r, FALSE) \/ GivesUp(r, FALSE) \/ GoesOn(r))
  BY <1>1, <1>2, <1>3, FailedMoves
<1>4. CASE GetReply(r)
  <2> DEFINE t == daemon[r].thread
  <2>1. /\ t \in Threads /\ handler[t] \in Request /\ handler[t].phase = "done"
        /\ handler[t].runner = r /\ handler[t].op = OpOf[daemon[r].pc]
    BY <1>1, <1>4 DEF GetReply, Respond, FleetInv, Awaits
  <2>2. CASE handler[t].reply = "ok" /\ Succeed(r, handler[t])
    <3>1. /\ Moves(r)
          /\ \/ Ends(r, FALSE) \/ GoesOn(r) \/ Takes(r, 0)
             \/ daemon[r].pc = "lease" /\ handler[t].job # 0 /\ Takes(r, handler[t].job)
      BY <1>1, <2>1, <2>2, SucceedMoves
    <3>2. CASE daemon[r].pc = "lease" /\ handler[t].job # 0 /\ Takes(r, handler[t].job)
      <4>1. handler[t].op = "lease" /\ handler[t].job \in Jobs
        BY <2>1, <3>2 DEF OpOf, Request
      <4>2. r \in grantees[handler[t].job]
        BY <2>1, <3>2, <4>1 DEF FleetInv, Sent
      <4>3. ~late => Holds(r, handler[t].job)
        BY <2>1, <2>2, <3>2 DEF FleetInv, InTime, AnswerHolds
      <4>4. QED BY <1>2, <3>1, <3>2, <4>1, <4>2, <4>3
    <3>3. QED BY <1>2, <3>1, <3>2
  <2>3. CASE handler[t].reply = "unauthorized" /\ Raise(r, TRUE)
    <3>1. token[r] = "revoked"
      BY <2>1, <2>3 DEF FleetInv, Sent
    <3>2. Moves(r) /\ (Ends(r, TRUE) \/ GivesUp(r, TRUE) \/ GoesOn(r))
      BY <1>1, <2>3, RaiseMoves
    <3>3. QED BY <1>2, <3>1, <3>2
  <2>4. CASE FailedAttempt(r)
    BY <1>2, <1>3, <2>4
  <2>5. QED BY <1>4, <2>2, <2>3, <2>4 DEF GetReply
<1>5. CASE LoseResponse(r) \/ LoseRequest(r) \/ Timeout(r)
  BY <1>2, <1>3, <1>5 DEF LoseResponse, LoseRequest, Timeout
<1>6. QED BY <1>4, <1>5

LEMMA FleetTypes == FleetInv /\ [FleetNext]_vars => CPInv' /\ FleetTypeOK'
<1> SUFFICES ASSUME FleetInv, [FleetNext]_vars PROVE CPInv' /\ FleetTypeOK'
  OBVIOUS
<1> USE FleetAssumption
<1>1. daemon \in [Runners -> Daemon]
  BY DEF FleetInv, FleetTypeOK
<1>2. CPInv'
  BY <1>1, FleetDrives, NextInv DEF FleetInv
<1>3. daemon' \in [Runners -> Daemon]
  <2>1. CASE UNCHANGED vars
    BY <1>1, <2>1 DEF vars
  <2>2. ASSUME NEW r \in Runners, Start(r) \/ DaemonStep(r) \/ FaultStep(r)
        PROVE  daemon' \in [Runners -> Daemon]
    <3>1. CASE Start(r)
      BY <1>1, <3>1, GotoMoves DEF Start, PCs, Calls, Moves
    <3>2. CASE Send(r)
      BY <1>1, <3>2 DEF Send, Daemon
    <3>3. CASE GetReply(r) \/ LoseResponse(r) \/ LoseRequest(r) \/ Timeout(r)
      BY <3>3, CallMoves DEF Moves
    <3>4. CASE Execute(r)
      BY <1>1, <3>4, GotoMoves DEF Execute, PCs, Calls, Moves
    <3>5. CASE Interrupt(r)
      BY <1>1, <3>5, LeaveMoves DEF Interrupt, Moves
    <3>6. CASE Kill(r)
      <4>1. OffDaemon \in Daemon
        BY NoTries DEF OffDaemon, Daemon, PCs
      <4>2. QED BY <1>1, <3>6, <4>1 DEF Kill
    <3>7. CASE RevokeRunner(r)
      BY <1>1, <3>7 DEF RevokeRunner
    <3>8. QED BY <2>2, <3>1, <3>2, <3>3, <3>4, <3>5, <3>6, <3>7 DEF DaemonStep, FaultStep
  <2>3. CASE \E t \in Threads : Server(t) \/ DropReply(t)
    BY <1>1, <2>3 DEF Server, DropReply
  <2>4. CASE Enqueue \/ ClockTick
    BY <1>1, <2>4 DEF Enqueue, ClockTick
  <2>5. QED BY <2>1, <2>2, <2>3, <2>4 DEF FleetNext
<1>4. faults' \in 0 .. MaxFaults
  <2>1. ASSUME NEW r \in Runners, Start(r) \/ DaemonStep(r)
        PROVE  faults' = faults \/ Fault("restart")
    BY <2>1 DEF Start, DaemonStep, Send, GetReply, Execute
  <2>2. ASSUME NEW r \in Runners, FaultStep(r) PROVE \E kind \in FaultKinds : Fault(kind)
    BY <2>2 DEF FaultStep, LoseRequest, LoseResponse, Timeout, Interrupt, Kill, RevokeRunner,
                FaultKinds
  <2>3. (\E t \in Threads : Server(t) \/ DropReply(t)) \/ Enqueue \/ ClockTick \/ UNCHANGED vars
          => faults' = faults
    BY DEF Server, DropReply, Enqueue, ClockTick, vars
  <2>4. faults' = faults \/ \E kind : Fault(kind)
    BY <2>1, <2>2, <2>3 DEF FleetNext
  <2>5. QED BY <2>4 DEF FleetInv, FleetTypeOK, Fault
<1>5. late' \in BOOLEAN
  BY DEF vars, FleetNext, Start, DaemonStep, FaultStep, Send, GetReply, Execute, LoseRequest,
         LoseResponse, Timeout, Interrupt, Kill, RevokeRunner, Fault, Server, DropReply,
         Enqueue, ClockTick, FleetInv, FleetTypeOK
<1>6. QED BY <1>2, <1>3, <1>4, <1>5 DEF FleetTypeOK, CPInv

-----------------------------------------------------------------------------
(* One daemon moves, and the request it waited for may be answered.        *)

\* Tokens are issued once, and a revoked one stays revoked.
TokensAge ==
  \A s \in Runners :
    /\ token[s] # "none" => token'[s] # "none"
    /\ token[s] = "revoked" => token'[s] = "revoked"

\* Requests of r may be answered, and nothing else changes in the server.
Answered(r) ==
  /\ UNCHANGED <<jobs, grantees>>
  /\ \A t \in Threads :
       \/ handler'[t] = handler[t]
       \/ handler[t].runner = r /\ handler'[t] = Idle

\* What a daemon that moves may have become.
Becomes(r) ==
  \E revoked \in BOOLEAN :
    /\ revoked => token'[r] = "revoked"
    /\ \/ Ends(r, revoked) \/ GivesUp(r, revoked) \/ GoesOn(r) \/ Takes(r, 0)
       \/ \E j \in Jobs : Takes(r, j) /\ r \in grantees[j] /\ (~late => Holds(r, j))

\* It has no request in the server, unless it is leaving.
Quiet(r) ==
  late' \/ Away(r)' \/ daemon'[r].pc = "release" \/ \A t \in Threads : handler'[t].runner # r

LEMMA MoveRecord ==
  ASSUME FleetInv, FleetTypeOK', NEW r \in Runners, Moves(r), TokensAge, Answered(r), Becomes(r),
         daemon'[r].pc # "off" => token'[r] # "none"
  PROVE  \A s \in Runners : OnRecord(s)' /\ Awaits(s)'
<1>1. ASSUME NEW s \in Runners, s # r PROVE OnRecord(s)' /\ Awaits(s)'
  <2>1. daemon'[s] = daemon[s] /\ OnRecord(s) /\ Awaits(s)
    BY <1>1 DEF Moves, FleetInv
  <2>2. OnRecord(s)'
    BY <2>1 DEF OnRecord, TokensAge, Answered
  <2>3. CASE daemon[s].thread # NoThread
    <3>1. daemon[s].thread \in Threads /\ handler[daemon[s].thread].runner = s
      BY <2>1, <2>3 DEF FleetInv, FleetTypeOK, Daemon, Awaits
    <3>2. handler'[daemon[s].thread] = handler[daemon[s].thread]
      BY <1>1, <3>1 DEF Answered
    <3>3. QED BY <2>1, <2>2, <3>2 DEF Awaits
  <2>4. QED BY <2>1, <2>2, <2>3 DEF Awaits
<1>2. OnRecord(r)'
  <2>1. OnRecord(r) /\ daemon[r].pc \in PCs /\ daemon'[r].pc \in PCs
    BY DEF FleetInv, FleetTypeOK, Daemon
  <2>2. PICK revoked \in BOOLEAN :
          /\ revoked => token'[r] = "revoked"
          /\ \/ Ends(r, revoked) \/ GivesUp(r, revoked) \/ GoesOn(r) \/ Takes(r, 0)
             \/ \E j \in Jobs : Takes(r, j) /\ r \in grantees[j] /\ (~late => Holds(r, j))
    BY DEF Becomes
  <2>3. grantees' = grantees /\ (token[r] = "revoked" => token'[r] = "revoked")
    BY DEF Answered, TokensAge
  <2>4. CASE Ends(r, revoked)
    BY <2>1, <2>2, <2>3, <2>4 DEF Ends, Away, OnRecord
  <2>5. CASE GivesUp(r, revoked)
    BY <2>1, <2>2, <2>3, <2>5 DEF GivesUp, OnRecord
  <2>6. CASE GoesOn(r)
    <3>1. daemon'[r].pc \in {"heartbeat", "lease", "off", "retired"} <=> daemon'[r].job = 0
      <4>1. daemon[r].pc \in {"heartbeat", "lease", "off", "retired"}
              <=> ~Working(r) /\ daemon[r].pc # "release"
        BY <2>1 DEF Working, PCs, Calls
      <4>2. daemon'[r].pc \in {"heartbeat", "lease", "off", "retired"}
              <=> ~Working(r)' /\ daemon'[r].pc # "release"
        BY <2>1 DEF Working, PCs, Calls
      <4>3. QED BY <2>1, <2>6, <4>1, <4>2 DEF GoesOn, OnRecord
    <3>2. daemon'[r].clear \/ daemon'[r].pc = "retired" => token'[r] = "revoked"
      BY <2>1, <2>3, <2>6 DEF GoesOn, Away, OnRecord
    <3>3. daemon'[r].clear => daemon'[r].pc = "release"
      BY <2>1, <2>6 DEF GoesOn, OnRecord
    <3>4. QED BY <2>1, <2>3, <2>6, <3>1, <3>2, <3>3 DEF GoesOn, OnRecord
  <2>7. CASE Takes(r, 0)
    BY <2>1, <2>3, <2>7 DEF Takes, OnRecord
  <2>8. ASSUME NEW j \in Jobs, Takes(r, j), r \in grantees[j] PROVE OnRecord(r)'
    BY <2>1, <2>3, <2>8, RunnerAssumption DEF Takes, OnRecord, Jobs
  <2>9. QED BY <2>2, <2>4, <2>5, <2>6, <2>7, <2>8
<1>3. Awaits(r)'
  BY DEF Moves, Awaits
<1>4. QED BY <1>1, <1>2, <1>3

LEMMA MoveSent ==
  ASSUME FleetInv, NEW r \in Runners, TokensAge, Answered(r)
  PROVE  \A t \in Threads : Sent(t)'
<1> SUFFICES ASSUME NEW t \in Threads PROVE Sent(t)'
  OBVIOUS
<1>1. Sent(t) /\ handler[t] \in Request
  BY DEF FleetInv, FleetTypeOK, CPTypeOK
<1>2. CASE handler'[t] = Idle
  BY <1>2 DEF Idle, Sent
<1>3. CASE handler'[t] = handler[t] /\ handler[t].phase = "idle"
  BY <1>1, <1>3 DEF Idle, Sent
<1>4. CASE handler'[t] = handler[t] /\ handler[t].phase # "idle"
  BY <1>1, <1>4 DEF Sent, TokensAge, Answered
<1>5. QED BY <1>2, <1>3, <1>4 DEF Answered

LEMMA MoveInTime ==
  ASSUME FleetInv, ~late, NEW r \in Runners, Moves(r), Answered(r), Becomes(r), Quiet(r), ~late'
  PROVE  /\ \A s \in Runners : InTime(s)'
         /\ OneRequest' /\ CheckedIsOpen'
<1> USE RunnerAssumption
<1>1. \A s \in Runners, j \in Jobs : Holds(s, j) => Holds(s, j)'
  BY DEF Holds, Expired, Answered
<1>2. \A t \in Threads :
        handler'[t].phase # "idle" \/ handler'[t].runner \in Runners => handler'[t] = handler[t]
  BY DEF Answered, Idle
<1>3. ASSUME NEW s \in Runners, s # r PROVE InTime(s)'
  <2>1. daemon'[s] = daemon[s] /\ InTime(s) /\ OnRecord(s) /\ daemon[s].job \in Jobs \cup {0}
    BY <1>3 DEF Moves, FleetInv, FleetTypeOK, Daemon
  <2>2. ~Away(s)' /\ daemon'[s].pc # "release" =>
          \A t \in Threads : handler'[t].runner = s => t = daemon'[s].thread
    BY <1>2, <2>1 DEF InTime, Away
  <2>3. Working(s)' => Holds(s, daemon[s].job)'
    BY <1>1, <2>1 DEF InTime, OnRecord, Working
  <2>4. \A t \in Threads : AnswerHolds(s, t)'
    <3> SUFFICES ASSUME NEW t \in Threads, daemon'[s].pc = "lease", daemon'[s].thread = t,
                        handler'[t].phase = "done", handler'[t].reply = "ok", handler'[t].job # 0
                 PROVE  Holds(s, handler[t].job)' /\ handler'[t].job = handler[t].job
      BY DEF AnswerHolds, Holds, Expired
    <3>1. handler'[t] = handler[t] /\ handler[t].job \in Jobs
      BY <1>2 DEF FleetInv, FleetTypeOK, CPTypeOK, Request
    <3>2. Holds(s, handler[t].job)
      BY <2>1, <3>1 DEF InTime, AnswerHolds
    <3>3. QED BY <1>1, <3>1, <3>2
  <2>5. QED BY <2>1, <2>2, <2>3, <2>4 DEF InTime, Holds, Expired
<1>4. InTime(r)'
  <2>1. ~Away(r)' /\ daemon'[r].pc # "release" =>
          \A t \in Threads : handler'[t].runner = r => t = daemon'[r].thread
    BY DEF Quiet
  <2>2. \A t \in Threads : AnswerHolds(r, t)'
    BY FleetAssumption DEF AnswerHolds, Moves
  <2>3. OnRecord(r) /\ InTime(r) /\ daemon[r].job \in Jobs \cup {0}
    BY DEF FleetInv, FleetTypeOK, Daemon
  <2>4. CASE GoesOn(r)
    <3>1. Working(r)' => daemon'[r].job \in Jobs /\ Holds(r, daemon'[r].job)
      BY <2>3, <2>4 DEF GoesOn, Working, OnRecord, InTime
    <3>2. QED BY <1>1, <2>1, <2>2, <3>1 DEF InTime, Holds, Expired
  <2>5. CASE ~Working(r)'
    BY <2>1, <2>2, <2>5 DEF InTime
  <2>6. ASSUME NEW j \in Jobs, Takes(r, j), Holds(r, j) PROVE InTime(r)'
    <3>1. daemon'[r].job = j /\ Holds(r, j)'
      BY <1>1, <2>6 DEF Takes
    <3>2. QED BY <2>1, <2>2, <3>1 DEF InTime, Holds, Expired
  <2>7. (\E revoked \in BOOLEAN : Ends(r, revoked) \/ GivesUp(r, revoked)) \/ Takes(r, 0) => ~Working(r)'
    BY DEF Ends, Away, GivesUp, Takes, Working
  <2>8. QED BY <2>4, <2>5, <2>6, <2>7 DEF Becomes
<1>5. OneRequest'
  BY <1>2 DEF OneRequest, FleetInv, Sent, Idle
<1>6. CheckedIsOpen'
  BY <1>2 DEF CheckedIsOpen, FleetInv, Answered
<1>7. QED BY <1>3, <1>4, <1>5, <1>6

LEMMA MoveInv ==
  ASSUME FleetInv, CPInv', FleetTypeOK', NEW r \in Runners, Moves(r), TokensAge, Answered(r),
         Becomes(r), Quiet(r), daemon'[r].pc # "off" => token'[r] # "none", late => late'
  PROVE  FleetInv'
<1>1. (\A s \in Runners : OnRecord(s)' /\ Awaits(s)') /\ \A t \in Threads : Sent(t)'
  BY MoveRecord, MoveSent
<1>2. ~late' => /\ \A s \in Runners : InTime(s)'
                /\ OneRequest' /\ CheckedIsOpen'
  BY MoveInTime
<1>3. QED BY <1>1, <1>2 DEF FleetInv

-----------------------------------------------------------------------------
(* The steps of a daemon.                                                  *)

\* A daemon whose call is over has no request in the server.
LEMMA QuietAfterCall ==
  ASSUME FleetInv, ~late, NEW r \in Runners, ~Away(r), daemon[r].pc # "release",
         IF daemon[r].thread = NoThread THEN UNCHANGED handler ELSE Respond(daemon[r].thread)
  PROVE  \A t \in Threads : handler'[t].runner # r
<1>1. \A t \in Threads : handler[t].runner = r => t = daemon[r].thread
  BY DEF FleetInv, InTime
<1>2. CASE daemon[r].thread = NoThread
  BY <1>1, <1>2, FleetAssumption
<1>3. CASE daemon[r].thread # NoThread
  <2>1. handler' = [handler EXCEPT ![daemon[r].thread] = Idle] /\ Idle.runner \notin Runners
    BY <1>3, RunnerAssumption DEF Respond, Idle
  <2>2. QED BY <1>1, <2>1 DEF FleetInv, FleetTypeOK, CPTypeOK
<1>4. QED BY <1>2, <1>3

LEMMA CallInv ==
  ASSUME FleetInv, CPInv', FleetTypeOK', NEW r \in Runners,
         GetReply(r) \/ LoseResponse(r) \/ LoseRequest(r) \/ Timeout(r)
  PROVE  FleetInv'
<1>1. Moves(r) /\ daemon[r].pc \in Calls
  BY CallMoves
<1>2. UNCHANGED <<jobs, token, grantees>>
  BY DEF GetReply, LoseResponse, LoseRequest, Timeout, Respond, cpVars
<1>3. TokensAge
  BY <1>2 DEF TokensAge
<1>4. Becomes(r)
  BY <1>2, CallMoves DEF Becomes
<1>5. ~Timeout(r) =>
        /\ late' = late
        /\ IF daemon[r].thread = NoThread THEN UNCHANGED handler ELSE Respond(daemon[r].thread)
  BY DEF GetReply, LoseResponse, LoseRequest, cpVars
<1>6. Answered(r)
  <2>1. CASE daemon[r].thread = NoThread \/ Timeout(r)
    BY <1>2, <1>5, <2>1 DEF Answered, Timeout, cpVars
  <2>2. CASE daemon[r].thread # NoThread /\ ~Timeout(r)
    <3>1. daemon[r].thread \in Threads /\ handler[daemon[r].thread].runner = r
      BY <2>2 DEF FleetInv, FleetTypeOK, Daemon, Awaits
    <3>2. handler' = [handler EXCEPT ![daemon[r].thread] = Idle]
      BY <1>5, <2>2 DEF Respond
    <3>3. QED BY <1>2, <3>1, <3>2 DEF Answered, FleetInv, FleetTypeOK, CPTypeOK
  <2>3. QED BY <2>1, <2>2
<1>7. Quiet(r)
  <2>1. CASE Timeout(r)
    BY <2>1 DEF Timeout, Quiet
  <2>2. CASE daemon[r].pc = "release"
    BY <1>4, <2>2 DEF Becomes, Ends, GivesUp, GoesOn, Takes, Quiet
  <2>3. CASE ~Timeout(r) /\ daemon[r].pc # "release"
    <3>1. ~Away(r)
      BY <1>1 DEF Away, Calls
    <3>2. QED BY <1>5, <2>3, <3>1, QuietAfterCall DEF Quiet
  <2>4. QED BY <2>1, <2>2, <2>3
<1>8. late => late'
  BY <1>5 DEF Timeout
<1>9. daemon'[r].pc # "off" => token'[r] # "none"
  BY <1>1, <1>2 DEF FleetInv, OnRecord, Calls
<1>10. QED BY <1>1, <1>3, <1>4, <1>6, <1>7, <1>8, <1>9, MoveInv

LEMMA OtherMovesInv ==
  ASSUME FleetInv, CPInv', FleetTypeOK', NEW r \in Runners,
         Start(r) \/ Execute(r) \/ Interrupt(r) \/ Kill(r)
  PROVE  FleetInv'
<1>1. daemon \in [Runners -> Daemon] /\ OnRecord(r)
  BY DEF FleetInv, FleetTypeOK
<1>2. CASE Start(r)
  <2>1. Goto(r, "heartbeat") /\ daemon[r].pc = "off" /\ UNCHANGED <<jobs, handler, grantees>>
    BY <1>2 DEF Start, Register, cpVars
  <2>2. /\ Moves(r) /\ daemon'[r].pc = "heartbeat"
        /\ daemon'[r].job = daemon[r].job /\ daemon'[r].clear = daemon[r].clear
    BY <1>1, <2>1, GotoMoves DEF PCs, Calls
  <2>3. TokensAge /\ token'[r] # "none"
    <3>1. CASE Register(r)
      BY <3>1 DEF Register, TokensAge, FleetInv, FleetTypeOK, CPTypeOK
    <3>2. CASE token[r] # "none" /\ UNCHANGED cpVars
      BY <3>2 DEF TokensAge, cpVars
    <3>3. QED BY <1>2, <3>1, <3>2 DEF Start
  <2>4. Answered(r)
    BY <2>1 DEF Answered
  <2>5. Becomes(r)
    BY <1>1, <2>1, <2>2 DEF Becomes, Takes, OnRecord
  <2>6. Quiet(r) /\ (late => late')
    <3>1. CASE token[r] = "none" /\ UNCHANGED late
      BY <2>1, <3>1, RunnerAssumption DEF Quiet, FleetInv, Sent, Idle
    <3>2. CASE late' = (late \/ \E t \in Threads : handler[t].runner = r)
      BY <2>1, <3>2 DEF Quiet
    <3>3. QED BY <1>2, <3>1, <3>2 DEF Start
  <2>7. QED BY <2>2, <2>3, <2>4, <2>5, <2>6, MoveInv
<1>3. CASE Execute(r) \/ Interrupt(r) \/ Kill(r)
  <2>1. UNCHANGED <<jobs, handler, token, grantees, late>>
    BY <1>3 DEF Execute, Interrupt, Kill, cpVars
  <2>2. TokensAge /\ Answered(r) /\ (late => late')
    BY <2>1 DEF TokensAge, Answered
  <2>3. Moves(r) /\ Becomes(r) /\ Quiet(r)
    <3>1. CASE Execute(r)
      <4>1. Moves(r) /\ GoesOn(r)
        BY <1>1, <3>1, GoesOnWith DEF Execute, PCs, Calls, Away, Working
      <4>2. Quiet(r)
        <5>1. daemon[r].thread = NoThread
          BY <3>1 DEF Execute, FleetInv, Awaits, Calls
        <5>2. QED BY <2>1, <3>1, <5>1, QuietAfterCall DEF Execute, Away, Quiet
      <4>3. QED BY <4>1, <4>2 DEF Becomes
    <3>2. CASE Interrupt(r)
      <4>1. Moves(r) /\ (Ends(r, FALSE) \/ GivesUp(r, FALSE))
        BY <1>1, <3>2, LeaveMoves DEF Interrupt
      <4>2. QED BY <4>1 DEF Becomes, Quiet, Ends, GivesUp
    <3>3. CASE Kill(r)
      <4>1. OffDaemon \in Daemon /\ OffDaemon.pc = "off" /\ OffDaemon.thread = NoThread
            /\ OffDaemon.job = 0 /\ ~OffDaemon.clear
        BY NoTries DEF OffDaemon, Daemon, PCs
      <4>2. Moves(r) /\ Ends(r, FALSE)
        BY <1>1, <3>3, <4>1 DEF Kill, Moves, Ends, Away
      <4>3. QED BY <4>2 DEF Becomes, Quiet, Ends
    <3>4. QED BY <1>3, <3>1, <3>2, <3>3
  <2>4. daemon'[r].pc # "off" => token'[r] # "none"
    BY <1>1, <1>3, <2>1 DEF Execute, Interrupt, Kill, OnRecord
  <2>5. QED BY <2>2, <2>3, <2>4, MoveInv
<1>4. QED BY <1>2, <1>3

\* A request of r reaches thread t.
LEMMA SendInv ==
  ASSUME FleetInv, CPInv', FleetTypeOK', NEW r \in Runners, Send(r)
  PROVE  FleetInv'
<1> USE RunnerAssumption, FleetAssumption
<1> DEFINE op == OpOf[daemon[r].pc]
<1>1. PICK t \in Threads : /\ Receive(t, op, r, JobOf(r), ResultOf(r))
                           /\ daemon' = [daemon EXCEPT ![r].thread = t]
  BY DEF Send
<1>2. /\ daemon[r].pc \in Calls /\ daemon[r].thread = NoThread /\ late' = late
      /\ UNCHANGED <<jobs, token, grantees>>
  BY <1>1 DEF Send, Receive
<1>3. /\ daemon \in [Runners -> Daemon] /\ OnRecord(r) /\ op \in Ops
      /\ handler[t].phase = "idle" /\ handler \in [Threads -> Request]
  BY <1>1, <1>2, SendArgs DEF Receive, FleetInv, FleetTypeOK, CPTypeOK
<1>4. /\ daemon'[r].thread = t /\ daemon'[r].pc = daemon[r].pc
      /\ daemon'[r].job = daemon[r].job /\ daemon'[r].clear = daemon[r].clear
  BY <1>1, <1>3 DEF Daemon
<1>5. \A s \in Runners : s # r => daemon'[s] = daemon[s]
  BY <1>1, <1>3
<1>6. /\ \A u \in Threads : u # t => handler'[u] = handler[u]
      /\ handler'[t].phase \in {"working", "done"} /\ handler'[t].runner = r
      /\ handler'[t].op = op /\ handler'[t].reply \in {"none", "unauthorized"}
      /\ handler'[t].reply = "unauthorized" => token[r] # "active"
      /\ op = "lease" => handler'[t].job = 0
  BY <1>1, <1>3 DEF Receive, WellFormed
<1>7. token[r] # "none" /\ token[r] \in {"none", "active", "revoked"}
  BY <1>2, <1>3 DEF OnRecord, Calls, FleetInv, FleetTypeOK, CPTypeOK
<1>8. ASSUME NEW s \in Runners PROVE OnRecord(s)' /\ Awaits(s)'
  <2>1. OnRecord(s) /\ Awaits(s) /\ daemon[s].thread \in Threads \cup {NoThread}
    BY DEF FleetInv, FleetTypeOK, Daemon
  <2>2. OnRecord(s)'
    BY <1>2, <1>4, <1>5, <2>1 DEF OnRecord
  <2>3. CASE s = r
    BY <1>2, <1>4, <1>6, <2>2, <2>3 DEF Awaits
  <2>4. CASE s # r
    BY <1>3, <1>5, <1>6, <2>1, <2>2, <2>4 DEF Awaits
  <2>5. QED BY <2>3, <2>4
<1>9. ASSUME NEW u \in Threads PROVE Sent(u)'
  <2>1. CASE u = t
    BY <1>2, <1>6, <1>7, <2>1 DEF Sent
  <2>2. CASE u # t
    BY <1>2, <1>6, <2>2 DEF Sent, FleetInv
  <2>3. QED BY <2>1, <2>2
<1>10. ASSUME ~late PROVE (\A s \in Runners : InTime(s)') /\ OneRequest' /\ CheckedIsOpen'
  <2>1. \A s \in Runners : InTime(s) /\ daemon[s].job \in Jobs \cup {0}
    BY <1>10 DEF FleetInv, FleetTypeOK, Daemon
  <2>2. ASSUME NEW s \in Runners PROVE InTime(s)'
    <3>1. /\ Away(s)' <=> Away(s) /\ daemon'[s].pc = daemon[s].pc
          /\ daemon'[s].job = daemon[s].job /\ (Working(s)' <=> Working(s))
      BY <1>4, <1>5 DEF Away, Working
    <3>2. Working(s)' => Holds(s, daemon[s].job)'
      BY <1>2, <2>1, <3>1 DEF InTime, Holds, Expired
    <3>3. \A u \in Threads : AnswerHolds(s, u)'
      <4>1. CASE s = r
        BY <1>2, <1>4, <1>6, <4>1 DEF AnswerHolds, OpOf
      <4>2. CASE s # r
        BY <1>2, <1>5, <1>6, <2>1, <4>2 DEF InTime, AnswerHolds, Holds, Expired
      <4>3. QED BY <4>1, <4>2
    <3>4. ~Away(s)' /\ daemon'[s].pc # "release" =>
            \A u \in Threads : handler'[u].runner = s => u = daemon'[s].thread
      <4>1. CASE s = r
        BY <1>2, <1>4, <1>6, <2>1, <3>1, <4>1 DEF InTime
      <4>2. CASE s # r
        BY <1>5, <1>6, <2>1, <3>1, <4>2 DEF InTime
      <4>3. QED BY <4>1, <4>2
    <3>5. QED BY <3>1, <3>2, <3>3, <3>4 DEF InTime, Holds, Expired
  <2>3. OneRequest'
    <3>1. CASE daemon[r].pc = "release"
      BY <1>6, <1>10, <3>1 DEF OneRequest, FleetInv, OpOf
    <3>2. CASE daemon[r].pc # "release"
      <4>1. \A u \in Threads : handler[u].runner # r
        BY <1>2, <2>1, <3>2 DEF InTime, Away, Calls
      <4>2. QED BY <1>6, <1>10, <4>1 DEF OneRequest, FleetInv
    <3>3. QED BY <3>1, <3>2
  <2>4. CheckedIsOpen'
    BY <1>2, <1>6, <1>10 DEF CheckedIsOpen, FleetInv
  <2>5. QED BY <2>2, <2>3, <2>4
<1>11. QED BY <1>2, <1>8, <1>9, <1>10 DEF FleetInv

-----------------------------------------------------------------------------
(* The steps of the server.                                                *)

\* What a request may have become.
LEMMA WorkOnRequest ==
  ASSUME CPInv, NEW t \in Threads, Work(t)
  PROVE  /\ \A u \in Threads : u # t => handler'[u] = handler[u]
         /\ handler[t].phase \in {"working", "checked"}
         /\ handler'[t].phase \in {"checked", "done"}
         /\ handler'[t].runner = handler[t].runner /\ handler'[t].op = handler[t].op
         /\ handler'[t].reply \in {handler[t].reply, "ok", "conflict", "not_found"}
         /\ handler[t].op # "lease" => handler'[t].job = handler[t].job
         /\ handler'[t].phase = "checked" =>
              handler[t].op # "lease" /\ ActiveLease(handler[t].runner, handler[t].job) /\ jobs' = jobs
         /\ \A j \in Jobs : grantees[j] \subseteq grantees'[j]
         /\ token' = token
<1>1. handler \in [Threads -> Request] /\ grantees \in [Jobs -> SUBSET Runners]
  BY DEF CPInv, CPTypeOK
<1>2. ASSUME NEW reply \in {"ok", "conflict", "not_found"}, Finish(t, reply)
      PROVE  /\ \A u \in Threads : u # t => handler'[u] = handler[u]
             /\ handler'[t].phase = "done" /\ handler'[t].reply = reply
             /\ handler'[t].runner = handler[t].runner /\ handler'[t].op = handler[t].op
             /\ handler'[t].job = handler[t].job
  BY <1>1, <1>2 DEF Finish, Request
<1>3. CASE Heartbeat(t) \/ CompleteJob(t) \/ AppendEvents(t) \/ ReleaseJob(t)
  <2>1. PICK reply \in {"ok", "conflict", "not_found"} : Finish(t, reply)
    BY <1>3 DEF Heartbeat, CompleteJob, AppendEvents, ReleaseJob
  <2>2. handler[t].phase \in {"working", "checked"} /\ UNCHANGED <<token, grantees>>
    BY <1>3 DEF Heartbeat, CompleteJob, AppendEvents, ReleaseJob, Serving
  <2>3. QED BY <1>1, <1>2, <2>1, <2>2
<1>4. CASE LeaseNextJob(t)
  <2>1. PICK j \in Jobs \cup {0} :
          handler' = [handler EXCEPT ![t].phase = "done", ![t].reply = "ok", ![t].job = j]
    BY <1>4 DEF LeaseNextJob
  <2>2. /\ \A u \in Threads : u # t => handler'[u] = handler[u]
        /\ handler'[t].phase = "done" /\ handler'[t].reply = "ok"
        /\ handler'[t].runner = handler[t].runner /\ handler'[t].op = handler[t].op
    BY <1>1, <2>1 DEF Request
  <2>3. handler[t].phase = "working" /\ handler[t].op = "lease" /\ token' = token
    BY <1>4 DEF LeaseNextJob, Serving
  <2>4. \A k \in Jobs : grantees[k] \subseteq grantees'[k]
    <3>1. \/ UNCHANGED grantees
          \/ \E k \in Jobs : grantees' = [grantees EXCEPT ![k] = @ \cup {handler[t].runner}]
      BY <1>4, Zenon DEF LeaseNextJob
    <3>2. QED BY <1>1, <3>1
  <2>5. QED BY <2>2, <2>3, <2>4
<1>5. CASE CheckLease(t)
  <2>1. UNCHANGED <<jobs, token, grantees>> /\ handler[t].phase = "working" /\ handler[t].op # "lease"
    BY <1>5 DEF CheckLease
  <2>2. CASE ActiveLease(handler[t].runner, handler[t].job)
    <3>1. handler' = [handler EXCEPT ![t].phase = "checked"]
      BY <1>5, <2>2 DEF CheckLease
    <3>2. QED BY <1>1, <2>1, <2>2, <3>1 DEF Request
  <2>3. CASE ~ActiveLease(handler[t].runner, handler[t].job)
    <3>1. PICK reply \in {"ok", "conflict", "not_found"} : Finish(t, reply)
      BY <1>5, <2>3 DEF CheckLease
    <3>2. QED BY <1>1, <1>2, <2>1, <3>1
  <2>4. QED BY <2>2, <2>3
<1>6. QED BY <1>3, <1>4, <1>5 DEF Work

\* A lease that is answered with a job is the runner's.
LEMMA WorkOnLease ==
  ASSUME CPInv, NEW t \in Threads, Work(t), handler[t].op = "lease", handler'[t].job # 0
  PROVE  /\ handler'[t].reply = "ok" /\ handler'[t].job \in Jobs
         /\ handler[t].runner \in grantees'[handler'[t].job]
         /\ jobs'[handler'[t].job].runner = handler[t].runner
         /\ jobs'[handler'[t].job].status = "leased" /\ jobs'[handler'[t].job].ttl # 0
<1>1. LeaseNextJob(t)
  BY DEF Work, Heartbeat, Serving, CheckLease, CompleteJob, AppendEvents, ReleaseJob
<1>2. handler \in [Threads -> Request] /\ grantees \in [Jobs -> SUBSET Runners]
      /\ jobs \in [Jobs -> Job]
  BY DEF CPInv, CPTypeOK
<1> DEFINE r == handler[t].runner
<1>3. CASE \E j \in Jobs :
          /\ FirstLeasable(r, j)
          /\ jobs' = [jobs EXCEPT ![j].status = "leased", ![j].runner = r,
                                  ![j].ttl = LeaseTtl]
          /\ grantees' = [grantees EXCEPT ![j] = @ \cup {r}]
          /\ handler' = [handler EXCEPT ![t].phase = "done", ![t].reply = "ok",
                                        ![t].job = j]
  <2>1. PICK j \in Jobs :
          /\ jobs' = [jobs EXCEPT ![j].status = "leased", ![j].runner = r,
                                  ![j].ttl = LeaseTtl]
          /\ grantees' = [grantees EXCEPT ![j] = @ \cup {r}]
          /\ handler' = [handler EXCEPT ![t].phase = "done", ![t].reply = "ok",
                                        ![t].job = j]
    BY <1>3
  <2>2. handler'[t].reply = "ok" /\ handler'[t].job = j
    BY <1>2, <2>1 DEF Request
  <2>3. r \in grantees'[j]
    BY <1>2, <2>1
  <2>4. jobs'[j].runner = r /\ jobs'[j].status = "leased" /\ jobs'[j].ttl = LeaseTtl
    BY <1>2, <2>1 DEF Job
  <2>5. QED BY <2>2, <2>3, <2>4, RunnerAssumption
<1>4. CASE handler' = [handler EXCEPT ![t].phase = "done", ![t].reply = "ok", ![t].job = 0]
  BY <1>2, <1>4 DEF Request
<1>5. QED BY <1>1, <1>3, <1>4 DEF LeaseNextJob

\* What a runner holds it keeps, unless it releases it.
LEMMA WorkKeepsHeld ==
  ASSUME CPInv, NEW t \in Threads, Work(t), NEW r \in Runners, NEW j \in Jobs, Holds(r, j),
         ~(handler[t].op = "release" /\ handler[t].runner = r)
  PROVE  Holds(r, j)'
<1>1. jobs \in [Jobs -> Job] /\ jobs[j] \in Job
  BY DEF CPInv, CPTypeOK
<1>2. CASE Heartbeat(t)
  <2>1. \/ jobs'[j] = jobs[j]
        \/ jobs[j].status = "leased" /\ jobs'[j] = [jobs[j] EXCEPT !.ttl = HeartbeatTtl]
    BY <1>2 DEF Heartbeat
  <2>2. QED BY <1>1, <2>1, RunnerAssumption DEF Holds, Expired, Job
<1>3. CASE LeaseNextJob(t)
  <2>1. ~Leasable(handler[t].runner, j)
    BY DEF Holds, Leasable
  <2>2. jobs'[j] = jobs[j]
    BY <1>1, <1>3, <2>1 DEF LeaseNextJob, FirstLeasable
  <2>3. QED BY <2>2 DEF Holds, Expired
<1>4. CASE CompleteJob(t)
  <2>1. \/ jobs'[j] = jobs[j]
        \/ jobs'[j].status = "terminal" /\ jobs'[j].runner = jobs[j].runner
    BY <1>1, <1>4 DEF CompleteJob, Job
  <2>2. QED BY <2>1 DEF Holds, Expired
<1>5. CASE ReleaseJob(t)
  <2>1. handler[t].op = "release" /\ handler[t].runner # r
    BY <1>5 DEF ReleaseJob, Serving
  <2>2. jobs'[j] = jobs[j]
    BY <1>1, <1>5, <2>1 DEF ReleaseJob, Holds
  <2>3. QED BY <2>2 DEF Holds, Expired
<1>6. CASE CheckLease(t) \/ AppendEvents(t)
  BY <1>6 DEF CheckLease, AppendEvents, Holds, Expired
<1>7. QED BY <1>2, <1>3, <1>4, <1>5, <1>6 DEF Work

\* Only a request of its owner that passed its check finishes a job.
LEMMA WorkFinishes ==
  ASSUME CPInv, NEW t \in Threads, Work(t), NEW j \in Jobs, jobs'[j].status = "terminal"
  PROVE  \/ jobs[j].status = "terminal" /\ jobs'[j].runner = jobs[j].runner
         \/ /\ handler[t].op = "complete" /\ handler[t].runner = jobs'[j].runner
            /\ handler'[t].phase = "done"
<1>1. jobs \in [Jobs -> Job] /\ jobs[j] \in Job /\ handler \in [Threads -> Request]
  BY DEF CPInv, CPTypeOK
<1>2. CASE Heartbeat(t)
  <2>1. \/ jobs'[j] = jobs[j]
        \/ jobs[j].status = "leased" /\ jobs'[j] = [jobs[j] EXCEPT !.ttl = HeartbeatTtl]
    BY <1>2 DEF Heartbeat
  <2>2. QED BY <1>1, <2>1 DEF Job
<1>3. CASE LeaseNextJob(t)
  <2>1. \/ UNCHANGED jobs
        \/ \E k \in Jobs : jobs' = [jobs EXCEPT ![k].status = "leased",
                                      ![k].runner = handler[t].runner, ![k].ttl = LeaseTtl]
    BY <1>3, Zenon DEF LeaseNextJob
  <2>2. ASSUME NEW k \in Jobs, jobs' = [jobs EXCEPT ![k].status = "leased",
                                   ![k].runner = handler[t].runner, ![k].ttl = LeaseTtl]
        PROVE  jobs'[j] = jobs[j] \/ jobs'[j].status = "leased"
    <3>1. k # j => jobs'[j] = jobs[j]
      BY <1>1, <2>2
    <3>2. k = j => jobs'[j].status = "leased"
      BY <1>1, <2>2 DEF Job
    <3>3. QED BY <3>1, <3>2
  <2>3. QED BY <2>1, <2>2
<1>4. CASE CompleteJob(t)
  <2>1. \/ jobs'[j] = jobs[j]
        \/ /\ handler[t].runner = jobs[j].runner /\ jobs'[j].runner = jobs[j].runner
           /\ handler[t].op = "complete" /\ Finish(t, "ok")
    BY <1>1, <1>4 DEF CompleteJob, Job
  <2>2. Finish(t, "ok") => handler'[t].phase = "done"
    BY <1>1 DEF Finish, Request
  <2>3. QED BY <2>1, <2>2
<1>5. CASE ReleaseJob(t)
  <2>1. jobs'[j] = jobs[j] \/ jobs'[j].status = "queued"
    BY <1>1, <1>5 DEF ReleaseJob, Job
  <2>2. QED BY <2>1
<1>6. CASE CheckLease(t) \/ AppendEvents(t)
  BY <1>6 DEF CheckLease, AppendEvents
<1>7. QED BY <1>2, <1>3, <1>4, <1>5, <1>6 DEF Work

LEMMA ServerInv ==
  ASSUME FleetInv, CPInv', FleetTypeOK', NEW t \in Threads, Server(t)
  PROVE  FleetInv'
<1> USE RunnerAssumption
<1>1. CPInv /\ Work(t) /\ UNCHANGED <<daemon, faults, late>>
  BY DEF FleetInv, Server
<1>2. /\ \A u \in Threads : u # t => handler'[u] = handler[u]
      /\ handler[t].phase \in {"working", "checked"}
      /\ handler'[t].phase \in {"checked", "done"}
      /\ handler'[t].runner = handler[t].runner /\ handler'[t].op = handler[t].op
      /\ handler'[t].reply \in {handler[t].reply, "ok", "conflict", "not_found"}
      /\ handler[t].op # "lease" => handler'[t].job = handler[t].job
      /\ handler'[t].phase = "checked" =>
           handler[t].op # "lease" /\ ActiveLease(handler[t].runner, handler[t].job) /\ jobs' = jobs
      /\ \A j \in Jobs : grantees[j] \subseteq grantees'[j]
      /\ token' = token
  BY <1>1, WorkOnRequest
<1>3. handler \in [Threads -> Request] /\ handler'[t] \in Request
  BY <1>1 DEF CPInv, CPTypeOK
<1>4. \A s \in Runners : /\ OnRecord(s) /\ Awaits(s) /\ daemon[s].job \in Jobs \cup {0}
                         /\ daemon[s].thread \in Threads \cup {NoThread}
  BY DEF FleetInv, FleetTypeOK, Daemon
<1>5. ASSUME NEW s \in Runners PROVE OnRecord(s)' /\ Awaits(s)'
  <2>1. OnRecord(s)'
    BY <1>1, <1>2, <1>4 DEF OnRecord
  <2>2. Awaits(s)'
    BY <1>1, <1>2, <1>4 DEF Awaits
  <2>3. QED BY <2>1, <2>2
<1>6. ASSUME NEW u \in Threads PROVE Sent(u)'
  <2>1. Sent(u) /\ handler[u].job \in Jobs \cup {0}
    BY <1>3 DEF FleetInv, Request
  <2>2. CASE u = t
    <3>1. /\ handler'[u].phase # "idle" /\ handler'[u].runner \in Runners
          /\ token'[handler'[u].runner] # "none"
      BY <1>2, <2>1, <2>2 DEF Sent
    <3>2. handler'[u].reply = "unauthorized" => token'[handler'[u].runner] = "revoked"
      BY <1>2, <2>1, <2>2 DEF Sent
    <3>3. handler'[u].op = "lease" /\ handler'[u].job # 0 =>
            handler'[u].reply = "ok" /\ handler'[u].runner \in grantees'[handler'[u].job]
      BY <1>1, <1>2, <2>2, WorkOnLease
    <3>4. QED BY <3>1, <3>2, <3>3 DEF Sent
  <2>3. CASE u # t
    <3>1. handler'[u] = handler[u]
      BY <1>2, <2>3
    <3>2. QED BY <1>2, <2>1, <3>1 DEF Sent
  <2>4. QED BY <2>2, <2>3
<1>7. ASSUME ~late PROVE (\A s \in Runners : InTime(s)') /\ OneRequest' /\ CheckedIsOpen'
  <2>1. (\A s \in Runners : InTime(s)) /\ OneRequest /\ CheckedIsOpen
    BY <1>7 DEF FleetInv
  <2>2. ASSUME NEW s \in Runners PROVE InTime(s)'
    <3>1. ~Away(s)' /\ daemon'[s].pc # "release" =>
            \A u \in Threads : handler'[u].runner = s => u = daemon'[s].thread
      BY <1>1, <1>2, <2>1 DEF InTime, Away
    <3>2. ASSUME ~Away(s), daemon[s].pc # "release", handler[t].runner = s
          PROVE  handler[t].op # "release"
      <4>1. t = daemon[s].thread /\ t # NoThread
        BY <2>1, <3>2, FleetAssumption DEF InTime
      <4>2. daemon[s].pc \in Calls /\ handler[t].op = OpOf[daemon[s].pc]
        BY <1>4, <4>1 DEF Awaits
      <4>3. QED BY <3>2, <4>2 DEF Calls, OpOf
    <3>3. ASSUME Working(s) PROVE Holds(s, daemon[s].job)'
      <4>1. daemon[s].job \in Jobs /\ Holds(s, daemon[s].job)
        BY <1>4, <2>1, <3>3 DEF InTime, OnRecord, Working
      <4>2. ~(handler[t].op = "release" /\ handler[t].runner = s)
        BY <3>2, <3>3 DEF Working, Away
      <4>3. Holds(s, daemon[s].job)'
        <5> DEFINE j == daemon[s].job
        <5>1. j \in Jobs /\ Holds(s, j) /\ j' = j
          BY <1>1, <4>1
        <5> HIDE DEF j
        <5>2. jobs'[j].runner = s
              /\ (jobs'[j].status = "terminal" \/ (jobs'[j].status = "leased" /\ jobs'[j].ttl # 0))
          BY <1>1, <4>2, <5>1, WorkKeepsHeld DEF Holds, Expired
        <5>3. QED BY <1>1, <5>2 DEF Holds, Expired, j
      <4>4. QED BY <4>3
    <3>4. ASSUME NEW u \in Threads PROVE AnswerHolds(s, u)'
      <4> SUFFICES ASSUME daemon[s].pc = "lease", daemon[s].thread = u, handler'[u].phase = "done",
                          handler'[u].reply = "ok", handler'[u].job # 0
                   PROVE  LET j == handler'[u].job IN
                          /\ jobs'[j].runner = s
                          /\ jobs'[j].status = "terminal"
                             \/ (jobs'[j].status = "leased" /\ jobs'[j].ttl # 0)
        BY <1>1 DEF AnswerHolds, Holds, Expired
      <4>1. handler[u].runner = s /\ handler[u].op = "lease" /\ u # NoThread
        BY <1>4, FleetAssumption DEF Awaits, OpOf
      <4>2. CASE u = t
        BY <1>1, <1>2, <4>1, <4>2, WorkOnLease
      <4>3. CASE u # t
        <5>1. handler'[u] = handler[u] /\ handler[u].job \in Jobs
          BY <1>2, <1>3, <4>3 DEF Request
        <5>2. Holds(s, handler[u].job)
          BY <2>1, <5>1 DEF InTime, AnswerHolds
        <5>3. handler[t].runner # s
          BY <2>1, <4>3 DEF InTime, Away
        <5> DEFINE j == handler[u].job
        <5>4. j \in Jobs /\ Holds(s, j) /\ handler'[u].job = j
          BY <5>1, <5>2
        <5> HIDE DEF j
        <5>5. jobs'[j].runner = s
              /\ (jobs'[j].status = "terminal" \/ (jobs'[j].status = "leased" /\ jobs'[j].ttl # 0))
          BY <1>1, <5>3, <5>4, WorkKeepsHeld DEF Holds, Expired
        <5>6. QED BY <5>4, <5>5
      <4>4. QED BY <4>2, <4>3
    <3>5. Working(s)' => Holds(s, daemon[s].job)'
      BY <1>1, <3>3 DEF Working
    <3>6. QED BY <1>1, <3>1, <3>4, <3>5 DEF InTime, Holds, Expired
  <2>3. OneRequest'
    BY <1>2, <2>1 DEF OneRequest
  <2>4. CheckedIsOpen'
    <3> SUFFICES ASSUME NEW u \in Threads, handler'[u].phase = "checked", handler'[u].op = "complete",
                        jobs'[handler'[u].job].runner = handler'[u].runner,
                        jobs'[handler'[u].job].status = "terminal"
                 PROVE  FALSE
      BY DEF CheckedIsOpen
    <3>1. handler'[u].job \in Jobs /\ handler'[u].runner \in Runners /\ handler[u].job = handler'[u].job
          /\ handler[u].runner = handler'[u].runner /\ handler[u].op = "complete"
      BY <1>2 DEF CPInv, RequestInv
    <3>2. CASE u = t
      BY <1>2, <3>1, <3>2 DEF ActiveLease
    <3>3. CASE u # t
      <4> DEFINE j == handler[u].job
      <4>1. j \in Jobs /\ jobs'[j].status = "terminal" /\ jobs'[j].runner = handler[u].runner
        BY <3>1
      <4>2. handler[u].phase = "checked" /\ ~(jobs[j].runner = handler[u].runner /\ jobs[j].status = "terminal")
        BY <1>2, <2>1, <3>1, <3>3 DEF CheckedIsOpen
      <4> HIDE DEF j
      <4>3. handler[t].op = "complete" /\ handler[t].runner = handler[u].runner
        BY <1>1, <4>1, <4>2, WorkFinishes
      <4>4. QED BY <1>2, <2>1, <3>1, <3>3, <4>3 DEF OneRequest
    <3>4. QED BY <3>2, <3>3
  <2>5. QED BY <2>2, <2>3, <2>4
<1>8. QED BY <1>1, <1>5, <1>6, <1>7 DEF FleetInv

-----------------------------------------------------------------------------
(* The steps that are nobody's work.                                       *)

\* A token is revoked, or a reply nobody waits for is dropped.
LEMMA AsideInv ==
  ASSUME FleetInv, CPInv', FleetTypeOK',
         \/ \E r \in Runners : RevokeRunner(r)
         \/ \E t \in Threads : DropReply(t)
  PROVE  FleetInv'
<1> USE RunnerAssumption
<1>1. UNCHANGED <<daemon, late, jobs, grantees>>
  BY DEF RevokeRunner, Revoke, DropReply, Respond
<1>2. TokensAge
  <2>1. token \in [Runners -> {"none", "active", "revoked"}]
    BY DEF FleetInv, FleetTypeOK, CPTypeOK
  <2>2. CASE \E r \in Runners : RevokeRunner(r)
    BY <2>1, <2>2 DEF RevokeRunner, Revoke, TokensAge
  <2>3. CASE \E t \in Threads : DropReply(t)
    BY <2>3 DEF DropReply, Respond, TokensAge
  <2>4. QED BY <2>2, <2>3
<1>3. \A u \in Threads : \/ handler'[u] = handler[u]
                         \/ handler'[u] = Idle /\ \A s \in Runners : daemon[s].thread # u
  BY DEF RevokeRunner, Revoke, DropReply, Respond, FleetInv, FleetTypeOK, CPTypeOK
<1>4. ASSUME NEW s \in Runners PROVE OnRecord(s)' /\ Awaits(s)'
  <2>1. OnRecord(s) /\ Awaits(s) /\ daemon[s].thread \in Threads \cup {NoThread}
    BY DEF FleetInv, FleetTypeOK, Daemon
  <2>2. OnRecord(s)'
    BY <1>1, <1>2, <2>1 DEF OnRecord, TokensAge
  <2>3. Awaits(s)'
    BY <1>1, <1>3, <2>1 DEF Awaits
  <2>4. QED BY <2>2, <2>3
<1>5. ASSUME NEW u \in Threads PROVE Sent(u)'
  <2>1. Sent(u)
    BY DEF FleetInv
  <2>2. CASE handler'[u] = Idle
    BY <2>2 DEF Idle, Sent
  <2>3. CASE handler'[u] = handler[u] /\ handler[u].phase = "idle"
    BY <2>1, <2>3 DEF Idle, Sent
  <2>4. CASE handler'[u] = handler[u] /\ handler[u].phase # "idle"
    BY <1>1, <1>2, <2>1, <2>4 DEF Sent, TokensAge
  <2>5. QED BY <1>3, <2>2, <2>3, <2>4
<1>6. ASSUME ~late PROVE (\A s \in Runners : InTime(s)') /\ OneRequest' /\ CheckedIsOpen'
  <2>1. (\A s \in Runners : InTime(s)) /\ OneRequest /\ CheckedIsOpen
    BY <1>6 DEF FleetInv
  <2>2. \A u \in Threads :
          handler'[u].phase # "idle" \/ handler'[u].runner \in Runners => handler'[u] = handler[u]
    BY <1>3 DEF Idle
  <2>3. ASSUME NEW s \in Runners PROVE InTime(s)'
    <3>1. ~Away(s)' /\ daemon'[s].pc # "release" =>
            \A u \in Threads : handler'[u].runner = s => u = daemon'[s].thread
      BY <1>1, <2>1, <2>2 DEF InTime, Away
    <3>2. Working(s)' => Holds(s, daemon[s].job)'
      BY <1>1, <2>1 DEF InTime, Working, Holds, Expired
    <3>3. \A u \in Threads : AnswerHolds(s, u)'
      BY <1>1, <2>1, <2>2 DEF InTime, AnswerHolds, Holds, Expired
    <3>4. QED BY <1>1, <3>1, <3>2, <3>3 DEF InTime, Holds, Expired
  <2>4. OneRequest'
    BY <2>1, <2>2 DEF OneRequest, FleetInv, Sent
  <2>5. CheckedIsOpen'
    BY <1>1, <2>1, <2>2 DEF CheckedIsOpen
  <2>6. QED BY <2>3, <2>4, <2>5
<1>7. QED BY <1>1, <1>4, <1>5, <1>6 DEF FleetInv

\* A job arrives, or the clock ticks.
LEMMA JobsAgeInv ==
  ASSUME FleetInv, CPInv', FleetTypeOK', Enqueue \/ ClockTick
  PROVE  FleetInv'
<1> USE RunnerAssumption
<1>1. late => late'
  BY Zenon DEF Enqueue, ClockTick
<1>2. UNCHANGED <<daemon, token, handler, grantees>> /\ (late => late')
  BY <1>1 DEF Enqueue, EnqueueJob, ClockTick, Tick
<1>3. jobs \in [Jobs -> Job]
  BY DEF FleetInv, FleetTypeOK, CPTypeOK
<1>4. \A j \in Jobs : /\ jobs'[j].runner = jobs[j].runner
                      /\ jobs'[j].status = "terminal" => jobs[j].status = "terminal"
  <2>1. CASE Enqueue
    BY <1>3, <2>1 DEF Enqueue, EnqueueJob, Job
  <2>2. CASE ClockTick
    BY <1>3, <2>2 DEF ClockTick, Tick, Job
  <2>3. QED BY <2>1, <2>2
<1>5. ASSUME NEW s \in Runners, NEW j \in Jobs, Holds(s, j), InUse(j), ~late' PROVE Holds(s, j)'
  <2>1. CASE Enqueue
    <3>1. jobs'[j] = jobs[j]
      BY <1>3, <1>5, <2>1 DEF Enqueue, EnqueueJob, Holds
    <3>2. QED BY <1>5, <3>1 DEF Holds, Expired
  <2>2. CASE ClockTick
    <3>1. ~(jobs[j].status = "leased" /\ jobs[j].ttl = 1)
      BY <1>5, <2>2 DEF ClockTick
    <3>2. jobs[j] \in Job
      BY <1>3
    <3>3. CASE jobs[j].status = "leased" /\ jobs[j].ttl # 0
      <4>1. jobs'[j] = [jobs[j] EXCEPT !.ttl = @ - 1]
        BY <2>2, <3>3 DEF ClockTick, Tick, Expired
      <4>2. jobs'[j].runner = jobs[j].runner /\ jobs'[j].status = jobs[j].status
            /\ jobs'[j].ttl = jobs[j].ttl - 1
        BY <3>2, <4>1 DEF Job
      <4>3. jobs[j].ttl - 1 # 0
        BY <3>1, <3>2, <3>3 DEF Job
      <4>4. QED BY <1>5, <3>3, <4>2, <4>3 DEF Holds, Expired
    <3>4. CASE jobs[j].status = "terminal"
      <4>1. jobs'[j] = jobs[j]
        BY <2>2, <3>4 DEF ClockTick, Tick
      <4>2. QED BY <1>5, <4>1 DEF Holds, Expired
    <3>5. QED BY <1>5, <3>3, <3>4 DEF Holds, Expired
  <2>3. QED BY <2>1, <2>2
<1>6. \A s \in Runners : OnRecord(s)' /\ Awaits(s)'
  BY <1>2 DEF FleetInv, OnRecord, Awaits
<1>7. \A u \in Threads : Sent(u)'
  BY <1>2 DEF FleetInv, Sent
<1>8. ASSUME ~late' PROVE (\A s \in Runners : InTime(s)') /\ OneRequest' /\ CheckedIsOpen'
  <2>1. (\A s \in Runners : InTime(s)) /\ OneRequest /\ CheckedIsOpen
    BY <1>2, <1>8 DEF FleetInv
  <2>2. ASSUME NEW s \in Runners PROVE InTime(s)'
    <3>1. OnRecord(s) /\ Awaits(s) /\ InTime(s) /\ daemon[s].job \in Jobs \cup {0}
      BY <2>1 DEF FleetInv, FleetTypeOK, Daemon
    <3>2. ~Away(s)' /\ daemon'[s].pc # "release" =>
            \A u \in Threads : handler'[u].runner = s => u = daemon'[s].thread
      BY <1>2, <3>1 DEF InTime, Away
    <3>3. ASSUME Working(s) PROVE Holds(s, daemon[s].job)'
      <4> DEFINE j == daemon[s].job
      <4>1. j \in Jobs /\ Holds(s, j) /\ j' = j
        BY <1>2, <3>1, <3>3 DEF InTime, OnRecord, Working
      <4>2. InUse(j)
        BY <3>3, <4>1 DEF InUse, Holds
      <4> HIDE DEF j
      <4>3. jobs'[j].runner = s
            /\ (jobs'[j].status = "terminal" \/ (jobs'[j].status = "leased" /\ jobs'[j].ttl # 0))
        BY <1>5, <1>8, <4>1, <4>2 DEF Holds, Expired
      <4>4. QED BY <4>1, <4>3 DEF Holds, Expired, j
    <3>4. ASSUME NEW u \in Threads PROVE AnswerHolds(s, u)'
      <4> SUFFICES ASSUME daemon[s].pc = "lease", daemon[s].thread = u, handler[u].phase = "done",
                          handler[u].reply = "ok", handler[u].job # 0
                   PROVE  LET j == handler[u].job IN
                          /\ jobs'[j].runner = s
                          /\ jobs'[j].status = "terminal"
                             \/ (jobs'[j].status = "leased" /\ jobs'[j].ttl # 0)
        BY <1>2 DEF AnswerHolds, Holds, Expired
      <4> DEFINE j == handler[u].job
      <4>1. j \in Jobs /\ Holds(s, j)
        BY <3>1 DEF InTime, AnswerHolds, FleetInv, FleetTypeOK, CPTypeOK, Request
      <4>2. InUse(j)
        BY <4>1, FleetAssumption DEF InUse, Holds
      <4> HIDE DEF j
      <4>3. jobs'[j].runner = s
            /\ (jobs'[j].status = "terminal" \/ (jobs'[j].status = "leased" /\ jobs'[j].ttl # 0))
        BY <1>5, <1>8, <4>1, <4>2 DEF Holds, Expired
      <4>4. QED BY <4>3 DEF j
    <3>5. Working(s)' => Holds(s, daemon[s].job)'
      BY <1>2, <3>3 DEF Working
    <3>6. QED BY <1>2, <3>2, <3>4, <3>5 DEF InTime, Holds, Expired
  <2>3. OneRequest'
    BY <1>2, <2>1 DEF OneRequest
  <2>4. CheckedIsOpen'
    BY <1>2, <1>4, <2>1 DEF CheckedIsOpen, FleetInv, CPInv, RequestInv
  <2>5. QED BY <2>2, <2>3, <2>4
<1>9. QED BY <1>2, <1>6, <1>7, <1>8 DEF FleetInv

LEMMA FleetStep == FleetInv /\ [FleetNext]_vars => FleetInv'
<1> SUFFICES ASSUME FleetInv, [FleetNext]_vars PROVE FleetInv'
  OBVIOUS
<1>1. CPInv' /\ FleetTypeOK'
  BY FleetTypes
<1>2. CASE UNCHANGED vars
  <2>1. UNCHANGED <<jobs, token, handler, grantees, daemon, late>>
    BY <1>2 DEF vars, cpVars
  <2>2. QED
    BY <1>1, <2>1 DEF FleetInv, OnRecord, Awaits, Sent, InTime, OneRequest, CheckedIsOpen, Away,
                      Working, Holds, Expired, AnswerHolds
<1>3. ASSUME NEW r \in Runners, Start(r) \/ DaemonStep(r) \/ FaultStep(r) PROVE FleetInv'
  BY <1>1, <1>3, CallInv, OtherMovesInv, SendInv, AsideInv DEF DaemonStep, FaultStep
<1>4. ASSUME NEW t \in Threads, Server(t) \/ DropReply(t) PROVE FleetInv'
  BY <1>1, <1>4, ServerInv, AsideInv
<1>5. CASE Enqueue \/ ClockTick
  BY <1>1, <1>5, JobsAgeInv
<1>6. QED BY <1>2, <1>3, <1>4, <1>5 DEF FleetNext

-----------------------------------------------------------------------------
(* The theorems.                                                           *)

LEMMA FleetAlways == FleetSpec => []FleetInv
<1>1. QED BY FleetStart, FleetStep, PTL DEF FleetSpec

\* Type correctness of the fleet.
THEOREM FleetTypeCorrect == FleetSpec => []FleetTypeOK
<1>1. FleetInv => FleetTypeOK
  BY DEF FleetInv
<1>2. QED BY <1>1, FleetAlways, PTL

\* Whatever is lost, late or killed, a daemon works only on what it was
\* granted, and forgets its registration only when its token was revoked.
THEOREM WorkGranted == FleetSpec => []WorkIsGranted
<1>1. FleetInv => WorkIsGranted
  BY DEF FleetInv, OnRecord, WorkIsGranted, Working
<1>2. QED BY <1>1, FleetAlways, PTL

\* For any number of daemons, tries and faults, two daemons work on one job
\* only after an execution outlived its lease or a request its caller.
THEOREM OneWorker == FleetSpec => []AtMostOneWorker
<1>1. FleetInv => AtMostOneWorker
  BY DEF FleetInv, InTime, Holds, AtMostOneWorker
<1>2. QED BY <1>1, FleetAlways, PTL

\* A finished job's result is written once, although its report is sent again
\* whenever an answer is lost, unless a request outlived its call.
THEOREM ResultStays == FleetSpec => ResultIsFinal
<1>1. FleetInv /\ [FleetNext]_vars =>
        [\A j \in Jobs : jobs[j].status = "terminal" =>
           jobs'[j].result = jobs[j].result \/ late]_vars
  <2> SUFFICES ASSUME FleetInv, [FleetNext]_vars, ~late, NEW j \in Jobs, jobs[j].status = "terminal",
                      jobs'[j].result # jobs[j].result
               PROVE  FALSE
    OBVIOUS
  <2>1. CPInv /\ [CPNext]_cpVars
    BY FleetDrives DEF FleetInv, FleetTypeOK
  <2>2. PICK t \in Threads :
          /\ handler[t].phase = "checked" /\ handler[t].op = "complete"
          /\ handler[t].job = j /\ handler[t].runner = jobs[j].runner
    BY <2>1, ResultWriter
  <2>3. QED BY <2>2 DEF FleetInv, CheckedIsOpen
<1>2. QED BY <1>1, FleetAlways, PTL DEF FleetSpec, ResultIsFinal

\* The fleet drives the control plane as it may be driven: whatever is proved
\* of the control plane under any requests holds of it under the daemons'.
THEOREM FleetIsClient == FleetSpec => CPSpec
<1>1. FleetInit => CPInit
  BY DEF FleetInit
<1>2. FleetInv /\ [FleetNext]_vars => [CPNext]_cpVars
  BY FleetDrives DEF FleetInv, FleetTypeOK
<1>3. QED BY <1>1, <1>2, FleetAlways, PTL DEF FleetSpec, CPSpec

=============================================================================
