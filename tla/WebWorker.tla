----------------------------- MODULE WebWorker -----------------------------
(***************************************************************************)
(* Auto-run as one tab of the board controls it (App.tsx,                   *)
(* WorkerPoolControl.tsx): the status it polls, the button that starts and  *)
(* stops the pool, and the effect that binds a running pool to the project  *)
(* of the board.                                                            *)
(*                                                                          *)
(* The cleanup of the effect makes the page ignore the answer of the start  *)
(* it gave up; the server starts the pool all the same.  The tab stays on   *)
(* the board, where the status is polled.                                   *)
(***************************************************************************)
EXTENDS Naturals, WebBase

CONSTANTS
    Stopped,    \* the pool does not run
    MaxOthers   \* bound: times another tab starts or stops the pool

ASSUME StoppedAssumption == Stopped \notin Projects /\ MaxOthers \in Nat

VARIABLES
    bound,         \* the project the server's pool runs for
    workerStatus,  \* what the page has of it; Stopped before the first answer
    onBoard,       \* selectedProjectId
    toggling,      \* workerPending
    errand,        \* the calls
    refused,       \* history: the start the effect asked for last was refused
    others         \* times another tab interfered

workerVars == <<bound, workerStatus, onBoard, toggling, errand, refused, others>>

Pools == Projects \cup {Stopped}

\* "poll": getWorkerStatus; "rebind": the start of the effect; "toggle": the
\* start or the stop of the button.  An errand that is not active is ignored.
ErrandRecord ==
    [kind: {"none", "poll", "rebind", "toggle"}, pool: Pools,
     at: {"sent", "answered", "refused"}, active: BOOLEAN]

NoErrand == [kind |-> "none", pool |-> Stopped, at |-> "sent", active |-> FALSE]
Errand(kind, pool) == [kind |-> kind, pool |-> pool, at |-> "sent", active |-> TRUE]

WorkerTypeOK ==
    /\ bound \in Pools
    /\ workerStatus \in Pools
    /\ onBoard \in Projects
    /\ toggling \in BOOLEAN
    /\ errand \in [Calls -> ErrandRecord]
    /\ refused \in BOOLEAN
    /\ others \in 0..MaxOthers

WorkerInit ==
    /\ bound \in Pools
    /\ workerStatus = Stopped
    /\ onBoard \in Projects
    /\ toggling = FALSE
    /\ errand = [c \in Calls |-> NoErrand]
    /\ refused = FALSE
    /\ others = 0

-----------------------------------------------------------------------------
(* The effect runs when the status or the project of the board is another   *)
(* one than before, and only then; its cleanup comes first.                 *)

GivenUp(calls) ==
    [c \in Calls |-> IF calls[c].kind = "rebind"
                     THEN [calls[c] EXCEPT !.active = FALSE] ELSE calls[c]]

Astray(status, project) == status # Stopped /\ status # project

\* Slip: the effect is keyed on the project alone.
SlipFollow(calls, status, project) ==
    IF project = onBoard
    THEN errand' = calls /\ UNCHANGED refused
    ELSE /\ refused' = FALSE
         /\ IF Astray(status, project)
            THEN \E c \in Calls:
                    /\ calls[c] = NoErrand
                    /\ errand' = [GivenUp(calls) EXCEPT ![c] = Errand("rebind", project)]
            ELSE errand' = GivenUp(calls)

Follow(calls, status, project) ==
    IF <<status, project>> = <<workerStatus, onBoard>>
    THEN errand' = calls /\ UNCHANGED refused
    ELSE /\ refused' = FALSE
         /\ IF Astray(status, project)
            THEN \E c \in Calls:
                    /\ calls[c] = NoErrand
                    /\ errand' = [GivenUp(calls) EXCEPT ![c] = Errand("rebind", project)]
            ELSE errand' = GivenUp(calls)

-----------------------------------------------------------------------------
(* The server: start stops a pool that runs for another project first.      *)

ServeErrand(c) ==
    /\ errand[c].kind # "none"
    /\ errand[c].at = "sent"
    /\ bound' = IF errand[c].kind = "poll" THEN bound ELSE errand[c].pool
    /\ errand' = [errand EXCEPT ![c].at = "answered", ![c].pool = bound']
    /\ UNCHANGED <<workerStatus, onBoard, toggling, refused, others>>

RefuseErrand(c) ==
    /\ errand[c].kind # "none"
    /\ errand[c].at = "sent"
    /\ errand' = [errand EXCEPT ![c].at = "refused"]
    /\ UNCHANGED <<bound, workerStatus, onBoard, toggling, refused, others>>

OtherTab(pool) ==
    /\ others < MaxOthers
    /\ pool # bound
    /\ bound' = pool
    /\ others' = others + 1
    /\ UNCHANGED <<workerStatus, onBoard, toggling, errand, refused>>

-----------------------------------------------------------------------------
(* The tab.                                                                 *)

SendErrand(c, kind, pool) ==
    /\ errand[c] = NoErrand
    /\ errand' = [errand EXCEPT ![c] = Errand(kind, pool)]

PollStatus(c) ==
    /\ SendErrand(c, "poll", Stopped)
    /\ UNCHANGED <<bound, workerStatus, onBoard, toggling, refused, others>>

ShowProject(p) ==
    /\ p # onBoard
    /\ onBoard' = p
    /\ Follow(errand, workerStatus, p)
    /\ UNCHANGED <<bound, workerStatus, toggling, others>>

\* handleToggleAutoRun, by the status the page has; the button is disabled
\* while it is pending.
Toggle(c) ==
    /\ ~toggling
    /\ toggling' = TRUE
    /\ SendErrand(c, "toggle", IF workerStatus = Stopped THEN onBoard ELSE Stopped)
    /\ UNCHANGED <<bound, workerStatus, onBoard, refused, others>>

ErrandOver(c) == [errand EXCEPT ![c] = NoErrand]

StatusArrives(c) ==
    LET status == IF errand[c].active THEN errand[c].pool ELSE workerStatus IN
    /\ errand[c].at = "answered"
    /\ workerStatus' = status
    /\ Follow(ErrandOver(c), status, onBoard)
    /\ toggling' = (toggling /\ errand[c].kind # "toggle")
    /\ UNCHANGED <<bound, onBoard, others>>

\* A start that is refused is not asked for again.
ErrandFails(c) ==
    /\ errand[c].at = "refused"
    /\ errand' = ErrandOver(c)
    /\ toggling' = (toggling /\ errand[c].kind # "toggle")
    /\ refused' = (refused \/ (errand[c].kind = "rebind" /\ errand[c].active))
    /\ UNCHANGED <<bound, workerStatus, onBoard, others>>

-----------------------------------------------------------------------------
WorkerNext ==
    \/ \E pool \in Pools: OtherTab(pool)
    \/ \E p \in Projects: ShowProject(p)
    \/ \E c \in Calls: \/ ServeErrand(c) \/ RefuseErrand(c)
                       \/ PollStatus(c) \/ Toggle(c)
                       \/ StatusArrives(c) \/ ErrandFails(c)

WorkerSpec == WorkerInit /\ [][WorkerNext]_workerVars

\* What must happen to a call that was made, and the interval.
ErrandGoesOn(c) ==
    ServeErrand(c) \/ RefuseErrand(c) \/ StatusArrives(c) \/ ErrandFails(c)

StatusPolls == \E c \in Calls: PollStatus(c)

-----------------------------------------------------------------------------
(* Of the starts under way the page listens to one at most, the one for the *)
(* project of the board: an older answer never shows a pool as bound to a   *)
(* project the user has left (the cleanup of the effect).                   *)
OneRebind ==
    \A c, d \in Calls:
        (/\ errand[c].kind = "rebind" /\ errand[c].active
         /\ errand[d].kind = "rebind" /\ errand[d].active)
        => c = d /\ (errand[c].at = "sent" => errand[c].pool = onBoard)

(* "Auto-run follows the active board project": a running pool ends up      *)
(* bound to the project the user stays on, starts that were given up but    *)
(* executed late included, unless the start was refused.                    *)
AutoRunFollows ==
    \A p \in Projects:
        (<>[](onBoard = p /\ ~toggling /\ ~refused)) => (<>[](bound \in {p, Stopped}))
=============================================================================
