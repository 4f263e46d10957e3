-------------------------- MODULE TicketLifecycle --------------------------
(***************************************************************************)
(* The life of a ticket: the Product Owner's endpoints                     *)
(* (orchestrator/api.py), the execution of a ticket (execution_loop.py),   *)
(* its technical audit (review_flow.py), its escalation (escalation.py)    *)
(* and the recovery of orphans (crash_recovery.py), all writing the same   *)
(* row of the tickets table.                                               *)
(*                                                                         *)
(* A ticket is one JSON document: every save writes the whole of it.  The  *)
(* execution and the audits read the document, spend minutes in a model or *)
(* in the tests and save a document derived from what they read, while the *)
(* endpoints go on serving the Product Owner; so do, for as long as git    *)
(* takes, the endpoints that commit, merge and revert.  A pull request is  *)
(* pushed between the gate and the record of it.  A step of this module is *)
(* the code between two such calls; the SQLite statements of one step are  *)
(* not interleaved with those of another.                                  *)
(*                                                                         *)
(* Which worker takes which ticket, and two executions of one ticket, are  *)
(* the business of WorkerPool.                                             *)
(***************************************************************************)
EXTENDS TicketStates, Naturals, FiniteSets

CONSTANTS
  Tickets,       \* ticket ids
  RetryBudget,   \* execution.retry_budget
  Models,        \* length of the local model fallback chain
  GivenModels,   \* the models tickets are created with, or given later
  EscalateTo,    \* execution.escalate_to
  SplitSize,     \* target files of a ticket: the children a split makes
  PullRequests,  \* what has_pr_integration may answer: integrations come and go
  CloudClient,   \* whether tickets run on a metered cloud model
  PoOps,         \* the endpoints the Product Owner uses
  MaxCopies,     \* bound: documents of a ticket held at once to be saved later
  MaxAttempts,   \* bound: a ticket with more failed attempts is not run
  MayCrash       \* whether the server may die and restart

\* A budget spent may also escalate to "blocked" (models/ticket.py), which nobody
\* is asked about either: it goes the way of "human".
Targets == {"tech_lead", "human"}

\* The chain is 1 .. Models.  A local model that is not in it, or a cloud model:
OffChain == 0

ASSUME LifecycleAssumption ==
  /\ RetryBudget \in Nat
  /\ Models \in Nat \ {0}
  /\ GivenModels \subseteq OffChain .. Models
  /\ EscalateTo \in Targets
  /\ SplitSize \in Nat \ {0}
  /\ PullRequests \subseteq BOOLEAN /\ PullRequests # {}
  /\ {MaxCopies, MaxAttempts} \subseteq Nat
  /\ {CloudClient, MayCrash} \subseteq BOOLEAN

VARIABLES
  tickets,  \* the tickets table
  run,      \* the execution of each ticket, if one is in flight
  audit,    \* the Tech Lead's audit of each ticket, if one is in flight
  command,  \* the git command of each ticket, if one is in flight
  pull,     \* the pull request of each ticket, if it is being pushed
  tries     \* history: failed tries of the run since it began, or since its
            \* attempts or its model were last written by somebody else

\* What the endpoints that wait for git or for the provider have in flight.
requests == <<command, pull>>

vars == <<tickets, run, audit, tries, requests>>

-----------------------------------------------------------------------------
(* Rows, executions, audits and requests.                                  *)

Row == [status: Statuses \cup {"absent"}, needsApproval: BOOLEAN,
        attempts: Nat, model: OffChain .. Models,
        outcome: {"pending", "success", "test_failed", "error"},
        verdict: {"pending", "approved", "rejected"},
        accepted: BOOLEAN, escalatedTo: Targets \cup {"nobody"},
        handled: BOOLEAN, abandoned: BOOLEAN,
        branch: BOOLEAN, merged: BOOLEAN, pr: BOOLEAN]

NoRow == [status |-> "absent", needsApproval |-> FALSE, attempts |-> 0,
          model |-> 1, outcome |-> "pending", verdict |-> "pending",
          accepted |-> FALSE, escalatedTo |-> "nobody", handled |-> FALSE,
          abandoned |-> FALSE, branch |-> FALSE, merged |-> FALSE, pr |-> FALSE]

Exists(t) == tickets[t].status # "absent"

\* Slips the properties must notice are variants of the definition below them.

\* Slip: the save takes the document as it is.
SavedAsGiven(row) == row

\* _normalize_ticket_data, part of every save: a document marked abandoned
\* has the status abandoned whatever status was asked for.
Saved(row) == IF row.abandoned THEN [row EXCEPT !.status = "abandoned"] ELSE row

\* Slip: the handler writes the target status itself.
MovedUnasked(row, target) == Saved([row EXCEPT !.status = target])

\* state_service.move as the last statement of a handler that saved before:
\* an illegal transition is a 409, and what was saved stays.
Moved(row, target) ==
  IF CanTransition(row.status, target) THEN Saved([row EXCEPT !.status = target])
                                       ELSE row

\* "escalate": a worker's run that ended blocked asks the Tech Lead itself.
Run == [phase: {"idle", "model", "tests", "escalate"}, auto: BOOLEAN,
        cancelled: BOOLEAN, snap: Row]

NoRun == [phase |-> "idle", auto |-> FALSE, cancelled |-> FALSE, snap |-> NoRow]

Audit == [phase: {"idle", "review", "escalation"}, snap: Row]

NoAudit == [phase |-> "idle", snap |-> NoRow]

\* The git command of a request, with the document it will save.
Command == [op: {"none", "diff_approve", "merge", "revert"}, snap: Row]

NoCommand == [op |-> "none", snap |-> NoRow]

\* "pushed": branch and pull request are with the provider, asked with the
\* document whose gate was asked; "stored": recorded, the acceptance to follow.
Pull == [phase: {"idle", "pushed", "stored"}, accepts: BOOLEAN, snap: Row]

NoPull == [phase |-> "idle", accepts |-> FALSE, snap |-> NoRow]

\* The documents of the ticket that were read to be saved later.
Copies(t) == {flight \in {"run", "audit", "command"} :
                CASE flight = "run" -> run[t].phase # "idle"
                  [] flight = "audit" -> audit[t].phase # "idle"
                  [] OTHER -> command[t].op # "none"}

MayRead(t) == Cardinality(Copies(t)) < MaxCopies

\* execution_registry.is_registered.
Registered(t) == run[t].phase \in {"model", "tests"}

Init ==
  /\ tickets = [t \in Tickets |-> NoRow]
  /\ run = [t \in Tickets |-> NoRun]
  /\ audit = [t \in Tickets |-> NoAudit]
  /\ command = [t \in Tickets |-> NoCommand]
  /\ pull = [t \in Tickets |-> NoPull]
  /\ tries = [t \in Tickets |-> 0]

-----------------------------------------------------------------------------
(* The Product Owner's endpoints.                                          *)

Asks(op, t) == op \in PoOps /\ Exists(t)

Write(t, row) == tickets' = [tickets EXCEPT ![t] = Saved(row)]

\* A handler that only writes the row.
Handle(t, row) == Write(t, row) /\ UNCHANGED <<run, audit, tries>>

\* requirements/confirm and tickets/manual: the Product Owner approved the
\* ticket by creating it.  next_ticket_id is the largest id plus one, so the id
\* of a deleted ticket comes back.
CreateTicket(t, m) ==
  /\ ~Exists(t)
  /\ Handle(t, [NoRow EXCEPT !.status = "ready", !.model = m])

\* Slip: approval is the move, and the flag stays.
ApproveByMove(t) ==
  /\ Asks("approve", t)
  /\ Handle(t, Moved(tickets[t], "ready"))

\* Saves the approval, then moves: asked of a ticket that is not in the
\* backlog, it answers 409 and the approval stays.  A model that is not local
\* is replaced by the first of the chain.
Approve(t) ==
  /\ Asks("approve", t)
  /\ \E m \in {tickets[t].model} \cup (IF tickets[t].model = OffChain THEN {1} ELSE {}) :
       Handle(t, Moved([tickets[t] EXCEPT !.needsApproval = FALSE, !.model = m],
                       "ready"))

\* Slip: a success and an approving audit are enough.
PrEligibleUnaccepted(row) == row.outcome = "success" /\ row.verdict = "approved"

\* _enforce_acceptance_gate.
PrEligible(row) ==
  /\ row.outcome = "success"
  /\ row.verdict = "approved"
  /\ row.status = "awaiting_acceptance" \/ row.accepted

\* open_or_update_pr up to the provider: the gate is asked of the document read.
Push(t, accepts) ==
  /\ TRUE \in PullRequests
  /\ pull[t].phase = "idle"   \* bound: one pull request of a ticket at a time
  /\ PrEligible(tickets[t])
  /\ pull' = [pull EXCEPT ![t] = [phase |-> "pushed", accepts |-> accepts,
                                  snap |-> tickets[t]]]
  /\ UNCHANGED <<tickets, run, audit, tries, command>>

OpenPr(t) == Asks("pr", t) /\ Push(t, FALSE)

\* _store_result: on the ticket as it is by now, without asking the gate again.
StorePr(t) ==
  /\ pull[t].phase = "pushed" /\ Exists(t)
  /\ Handle(t, [tickets[t] EXCEPT !.pr = TRUE])
  /\ pull' = [pull EXCEPT ![t] = IF @.accepts THEN [@ EXCEPT !.phase = "stored"]
                                              ELSE NoPull]
  /\ UNCHANGED command

\* Saves the acceptance, then moves.
Accepted(row) == Moved([row EXCEPT !.accepted = TRUE], "done")

\* Without an integration, at once.
Accept(t) ==
  /\ Asks("accept", t) /\ FALSE \in PullRequests
  /\ Handle(t, Accepted(tickets[t]))

\* With one, the pull request is opened first, and its refusal ends the
\* request; then the ticket is read again and accepted as it is by now.
AcceptByPr(t) == Asks("accept", t) /\ Push(t, TRUE)

AcceptStored(t) ==
  /\ pull[t].phase = "stored" /\ Exists(t)
  /\ Handle(t, Accepted(tickets[t]))
  /\ pull' = [pull EXCEPT ![t] = NoPull]
  /\ UNCHANGED command

\* The push, the provider or the record fails, or the ticket was deleted.
PullFails(t) ==
  /\ pull[t].phase # "idle"
  /\ pull' = [pull EXCEPT ![t] = NoPull]
  /\ UNCHANGED <<tickets, run, audit, tries, command>>

\* Saves the rejection, then moves.
Reject(t) ==
  /\ Asks("reject", t)
  /\ Handle(t, Moved([tickets[t] EXCEPT !.needsApproval = TRUE], "backlog"))

\* Every child is a copy of the parent's document with a fresh result, back
\* in front of the Product Owner; then the parent is closed.
Split(t) ==
  /\ Asks("split", t)
  /\ tickets[t].status \notin Live \cup Terminal
  /\ \E children \in SUBSET {c \in Tickets : ~Exists(c)} :
       /\ Cardinality(children) = SplitSize
       /\ tickets' = [c \in Tickets |->
            CASE c \in children -> [tickets[t] EXCEPT
                   !.status = "backlog", !.needsApproval = TRUE,
                   !.outcome = "pending", !.verdict = "pending"]
              [] c = t -> [tickets[t] EXCEPT !.status = "split",
                                             !.needsApproval = FALSE]
              [] OTHER -> tickets[c]]
  /\ UNCHANGED <<run, audit, tries>>

Abandon(t) ==
  /\ Asks("abandon", t)
  /\ tickets[t].status \notin Live \cup Terminal
  /\ Handle(t, [tickets[t] EXCEPT !.status = "abandoned", !.abandoned = TRUE,
                                  !.needsApproval = FALSE])

AssignModel(t, m) ==
  /\ Asks("assign_model", t)
  /\ Write(t, [tickets[t] EXCEPT !.model = m])
  /\ tries' = [tries EXCEPT ![t] = 0]
  /\ UNCHANGED <<run, audit>>

\* The document a retry, a rerun or a cancelled execution leaves behind.
Requeued(row) == [row EXCEPT !.status = "ready", !.attempts = 0,
                             !.outcome = "pending"]

Restart(t, row) ==
  /\ Write(t, row)
  /\ tries' = [tries EXCEPT ![t] = 0]
  /\ UNCHANGED <<run, audit>>

Retry(t) ==
  /\ Asks("retry", t)
  /\ tickets[t].status \in {"blocked", "backlog"}
  /\ Restart(t, [Requeued(tickets[t]) EXCEPT !.verdict = "pending"])

\* PATCH with rerun: refused only while the ticket is executing.
Rerun(t) ==
  /\ Asks("rerun", t)
  /\ ~Registered(t)
  /\ Restart(t, [Requeued(tickets[t]) EXCEPT !.verdict = "pending"])

\* No status is asked: any ticket can be escalated.
Escalate(t, target) ==
  /\ Asks("escalate", t)
  /\ Write(t, [tickets[t] EXCEPT !.status = "blocked", !.escalatedTo = target])
  /\ UNCHANGED <<run, audit, tries>>

\* A registered execution is only told; the row of an orphan is requeued.
Cancel(t) ==
  /\ Asks("cancel", t)
  /\ \/ /\ Registered(t)
        /\ run' = [run EXCEPT ![t].cancelled = TRUE]
        /\ UNCHANGED <<tickets, audit, tries>>
     \/ /\ ~Registered(t)
        /\ tickets[t].status \in Live
        /\ Restart(t, Requeued(tickets[t]))

RejectDiff(t) ==
  /\ Asks("diff_reject", t)
  /\ tickets[t].status = "diff_pending"
  /\ Restart(t, Moved([tickets[t] EXCEPT !.attempts = 0, !.outcome = "pending"],
                      "in_progress"))

\* The request reads the document and leaves the rest to git.
Begin(op, t) ==
  /\ Asks(op, t)
  /\ command[t].op = "none"   \* bound: one git command of a ticket at a time
  /\ MayRead(t)
  /\ command' = [command EXCEPT ![t] = [op |-> op, snap |-> tickets[t]]]
  /\ UNCHANGED <<tickets, run, audit, tries, pull>>

\* diff/approve commits the diff to the ticket's branch.
ApproveDiff(t) == tickets[t].status = "diff_pending" /\ Begin("diff_approve", t)

\* No status is asked of a merge or of a revert, only the git metadata.
Merge(t) == tickets[t].branch /\ Begin("merge", t)

Revert(t) == tickets[t].merged /\ Begin("revert", t)

\* The document that was read is saved, over whatever was saved meanwhile.
SaveCommanded(t, row) ==
  /\ Exists(t)
  /\ Write(t, row)
  /\ command' = [command EXCEPT ![t] = NoCommand]
  /\ tries' = [tries EXCEPT ![t] = 0]
  /\ UNCHANGED <<run, audit, pull>>

DiffApproved(t) ==
  /\ command[t].op = "diff_approve"
  /\ SaveCommanded(t, Moved(Saved([command[t].snap EXCEPT !.branch = TRUE,
                                                          !.verdict = "pending"]),
                            "review"))

BranchMerged(t) ==
  /\ command[t].op = "merge"
  /\ SaveCommanded(t, [command[t].snap EXCEPT !.merged = TRUE])

MergeReverted(t) ==
  /\ command[t].op = "revert"
  /\ SaveCommanded(t, [command[t].snap EXCEPT !.status = "awaiting_acceptance"])

\* Git refuses (a dirty workspace, an empty diff, a conflict), or the ticket was
\* deleted.
CommandFails(t) ==
  /\ command[t].op # "none"
  /\ command' = [command EXCEPT ![t] = NoCommand]
  /\ UNCHANGED <<tickets, run, audit, tries, pull>>

MoveTicket(t, target) ==
  /\ Asks("move", t)
  /\ CanTransition(tickets[t].status, target)
  /\ Handle(t, [tickets[t] EXCEPT !.status = target])

Delete(t, force) ==
  /\ Asks("delete", t)
  /\ tickets[t].status \notin Live \/ force
  /\ Handle(t, NoRow)

-----------------------------------------------------------------------------
(* The execution of a ticket.                                              *)

EndRun(t) == run' = [run EXCEPT ![t] = NoRun]

\* run_ticket up to the first model call: register, _prepare_ticket through
\* ready to in_progress, remember the document.
StartRun(t, auto) ==
  /\ run[t].phase = "idle"
  /\ MayRead(t) /\ tickets[t].attempts <= MaxAttempts
  /\ LET row == [tickets[t] EXCEPT !.status = "in_progress"] IN
       /\ Write(t, row)
       /\ run' = [run EXCEPT ![t] = [phase |-> "model", auto |-> auto,
                                     cancelled |-> FALSE, snap |-> row]]
  /\ tries' = [tries EXCEPT ![t] = 0]
  /\ UNCHANGED audit

\* A worker takes a ready ticket, or an in-progress one nobody finished.
Dispatch(t) ==
  /\ tickets[t].status \in {"ready", "in_progress"}
  /\ StartRun(t, TRUE)

\* POST execute: a backlog ticket will do.
Execute(t) ==
  /\ Asks("execute", t)
  /\ tickets[t].status \in {"backlog", "ready", "in_progress"}
  /\ StartRun(t, FALSE)

\* _record_cloud_execution_usage saves the document the attempt began with.
RecordUsage(t) ==
  /\ CloudClient
  /\ run[t].phase = "model" /\ Exists(t)
  /\ Handle(t, run[t].snap)

\* ExecutionCancelledError: the current document is requeued, whatever its
\* status has become.
Cancelled(t) ==
  /\ EndRun(t)
  /\ IF Exists(t) THEN Write(t, Requeued(tickets[t])) ELSE UNCHANGED tickets
  /\ UNCHANGED <<audit, tries>>

\* _check_cancelled before a file is written.
ObserveCancel(t) ==
  /\ run[t].phase = "model" /\ run[t].cancelled
  /\ Cancelled(t)

\* The files are written (or refused): move to testing.  A ticket that was
\* taken away meanwhile makes the move, and with it the run, fail.
BeginTests(t) ==
  /\ run[t].phase = "model"
  /\ LET row == [tickets[t] EXCEPT !.status = "testing"] IN
     IF ~CanTransition(tickets[t].status, "testing")
       THEN EndRun(t) /\ UNCHANGED <<tickets, audit, tries>>
       ELSE IF run[t].cancelled
         THEN Cancelled(t)
         ELSE /\ Write(t, row)
              /\ run' = [run EXCEPT ![t].phase = "tests", ![t].snap = row]
              /\ UNCHANGED <<audit, tries>>

\* The ticket was deleted under the tests or under the escalation: the save
\* raises.
RunOfDeleted(t) ==
  /\ run[t].phase \in {"tests", "escalate"} /\ ~Exists(t)
  /\ EndRun(t)
  /\ UNCHANGED <<tickets, audit, tries>>

\* _save_result, then the move to diff_pending; a ticket marked unverified has no
\* tests to pass and is recorded as a success.
TestsPass(t) ==
  /\ run[t].phase = "tests" /\ Exists(t)
  /\ Write(t, Moved(Saved([run[t].snap EXCEPT !.outcome = "success"]),
                    "diff_pending"))
  /\ EndRun(t)
  /\ UNCHANGED <<audit, tries>>

\* Slip: the failure that exhausts the budget is retried.
RecordTestFailureLate(row) ==
  IF row.attempts <= RetryBudget
    THEN [row EXCEPT !.attempts = @ + 1, !.status = "in_progress"]
    ELSE [row EXCEPT !.attempts = @ + 1, !.status = "blocked",
                     !.escalatedTo = EscalateTo]

\* TicketStateMachine.record_test_failure.
RecordTestFailure(row) ==
  IF row.attempts + 1 <= RetryBudget
    THEN [row EXCEPT !.attempts = @ + 1, !.status = "in_progress"]
    ELSE [row EXCEPT !.attempts = @ + 1, !.status = "blocked",
                     !.escalatedTo = EscalateTo]

\* Slip: the last model of the chain has a successor.
HasFallbackAlways(row) == row.attempts + 1 > RetryBudget /\ row.model <= Models

\* _fallback_after_budget_exhausted: the next model of the chain starts over,
\* after a model that is not in the chain its first.
HasFallback(row) == row.attempts + 1 > RetryBudget /\ row.model < Models

\* Slip: the fallback starts the same model over.
NextModelSame(row) == [row EXCEPT !.status = "in_progress", !.attempts = 0]

NextModel(row) ==
  [row EXCEPT !.status = "in_progress", !.model = @ + 1, !.attempts = 0]

\* A write that was refused (error) or tests that failed: the result is saved,
\* then the run tries again, falls back to the next model, or blocks.
TestsFail(t, outcome) ==
  /\ run[t].phase = "tests" /\ Exists(t)
  /\ LET failed == [run[t].snap EXCEPT !.outcome = outcome]
         row == IF HasFallback(failed) THEN NextModel(failed)
                                       ELSE RecordTestFailure(failed) IN
       /\ Write(t, row)
       /\ run' = [run EXCEPT ![t] =
            CASE row.status # "blocked" -> [@ EXCEPT !.phase = "model", !.snap = row]
              [] row.status = "blocked" /\ @.auto /\ EscalateTo = "tech_lead" ->
                   [NoRun EXCEPT !.phase = "escalate", !.snap = row]
              [] OTHER -> NoRun]
  /\ tries' = [tries EXCEPT ![t] = @ + 1]
  /\ UNCHANGED audit

\* Anything else that raises (the model is down, the worktree is gone): the
\* run ends and the ticket keeps its status.
RunError(t) ==
  /\ Registered(t)
  /\ EndRun(t)
  /\ UNCHANGED <<tickets, audit, tries>>

\* The server dies: the rows survive, nothing in flight does.
Crash ==
  /\ MayCrash
  /\ run' = [t \in Tickets |-> NoRun]
  /\ audit' = [t \in Tickets |-> NoAudit]
  /\ command' = [t \in Tickets |-> NoCommand]
  /\ pull' = [t \in Tickets |-> NoPull]
  /\ UNCHANGED <<tickets, tries>>

\* Slip: an orphan is only noted.
RecoverInProgress(t) ==
  /\ tickets[t].status = "in_progress"
  /\ ~Registered(t)
  /\ Handle(t, [tickets[t] EXCEPT !.outcome = "pending"])

\* recover_orphaned_execution: a ticket in testing that no execution of this
\* process is registered for goes back to in_progress.
Recover(t) ==
  /\ tickets[t].status = "testing"
  /\ ~Registered(t)
  /\ Handle(t, [tickets[t] EXCEPT !.status = "in_progress",
                                  !.outcome = "pending"])

-----------------------------------------------------------------------------
(* The Tech Lead's audits.                                                 *)

StartAudit(t, phase) ==
  /\ audit[t].phase = "idle" /\ MayRead(t)
  /\ audit' = [audit EXCEPT ![t] = [phase |-> phase, snap |-> tickets[t]]]
  /\ UNCHANGED <<tickets, run, tries>>

EndAudit(t) == audit' = [audit EXCEPT ![t] = NoAudit]

\* The audit writes the document it read, over that of a run if there is one.
SaveAudited(t, row) ==
  /\ Write(t, row)
  /\ tries' = [tries EXCEPT ![t] = 0]
  /\ EndAudit(t)
  /\ UNCHANGED run

StartReview(t) == tickets[t].status = "review" /\ StartAudit(t, "review")

\* _save_audit, then the move.
FinishReview(t, verdict) ==
  /\ audit[t].phase = "review" /\ Exists(t)
  /\ SaveAudited(t, Moved(Saved([audit[t].snap EXCEPT !.verdict = verdict]),
                          IF verdict = "approved" THEN "awaiting_acceptance"
                                                  ELSE "backlog"))

\* _record_audit_error.
FailReview(t) ==
  /\ audit[t].phase = "review" /\ Exists(t)
  /\ SaveAudited(t, [audit[t].snap EXCEPT !.verdict = "pending"])

\* _first_auto_escalation_ticket: a blocked ticket addressed to the Tech Lead
\* that he never handled.
StartEscalation(t) ==
  /\ tickets[t].status = "blocked"
  /\ tickets[t].escalatedTo = "tech_lead"
  /\ ~tickets[t].handled
  /\ StartAudit(t, "escalation")

\* Slip: the answer is saved without its mark.
HandledUnmarked(row, verdict) == [row EXCEPT !.verdict = verdict]

\* The Tech Lead answers handle_blocked_ticket.
Handled(row, verdict) == [row EXCEPT !.handled = TRUE, !.verdict = verdict]

FinishEscalation(t, verdict) ==
  /\ audit[t].phase = "escalation" /\ Exists(t)
  /\ SaveAudited(t, Handled(audit[t].snap, verdict))

\* The same for the worker whose own run blocked, at the end of run_once.
FinishRunEscalation(t, verdict) ==
  /\ run[t].phase = "escalate" /\ Exists(t)
  /\ Write(t, Handled(run[t].snap, verdict))
  /\ EndRun(t)
  /\ UNCHANGED <<audit, tries>>

\* The call to the Tech Lead fails: nothing is saved.
FailEscalation(t) ==
  \/ /\ audit[t].phase = "escalation"
     /\ EndAudit(t)
     /\ UNCHANGED <<tickets, run, tries>>
  \/ /\ run[t].phase = "escalate"
     /\ EndRun(t)
     /\ UNCHANGED <<tickets, audit, tries>>

\* The ticket was deleted under the audit: the save raises.
AuditOfDeleted(t) ==
  /\ audit[t].phase # "idle" /\ ~Exists(t)
  /\ EndAudit(t)
  /\ UNCHANGED <<tickets, run, tries>>

-----------------------------------------------------------------------------
\* The endpoints that answer at once, or leave the work to a run.
PoStep(t) ==
  \/ Approve(t) \/ Accept(t) \/ Reject(t) \/ Split(t) \/ Abandon(t)
  \/ Retry(t) \/ Rerun(t) \/ Cancel(t) \/ RejectDiff(t) \/ Execute(t)
  \/ \E m \in GivenModels : CreateTicket(t, m)
  \/ \E m \in GivenModels : AssignModel(t, m)
  \/ \E target \in Targets : Escalate(t, target)
  \/ \E target \in Statuses : MoveTicket(t, target)
  \/ \E force \in BOOLEAN : Delete(t, force)

\* The endpoints that wait for git or for the provider.
RequestStep(t) ==
  \/ ApproveDiff(t) \/ Merge(t) \/ Revert(t)
  \/ DiffApproved(t) \/ BranchMerged(t) \/ MergeReverted(t) \/ CommandFails(t)
  \/ OpenPr(t) \/ AcceptByPr(t) \/ StorePr(t) \/ AcceptStored(t) \/ PullFails(t)

\* What a run does of its own accord.
RunStep(t) ==
  \/ ObserveCancel(t) \/ BeginTests(t) \/ RunOfDeleted(t) \/ TestsPass(t)
  \/ \E outcome \in {"test_failed", "error"} : TestsFail(t, outcome)
  \/ \E verdict \in {"approved", "rejected"} : FinishRunEscalation(t, verdict)

\* The Tech Lead answers.
AuditStep(t) ==
  \/ \E verdict \in {"approved", "rejected"} :
       FinishReview(t, verdict) \/ FinishEscalation(t, verdict)
  \/ AuditOfDeleted(t)

Next ==
  \/ \E t \in Tickets :
       /\ \/ PoStep(t)
          \/ Dispatch(t) \/ RecordUsage(t) \/ RunStep(t) \/ RunError(t)
          \/ Recover(t)
          \/ StartReview(t) \/ StartEscalation(t) \/ AuditStep(t)
          \/ FailReview(t) \/ FailEscalation(t)
       /\ UNCHANGED requests
  \/ \E t \in Tickets : RequestStep(t)
  \/ Crash

Spec == Init /\ [][Next]_vars

\* Auto-run is on: the worker loop recovers, dispatches and asks for audits,
\* and what it started goes on.  A Tech Lead that is asked again and again answers.
Fairness ==
  \A t \in Tickets :
    /\ WF_vars(RunStep(t) /\ UNCHANGED requests)
    /\ WF_vars(Recover(t) /\ UNCHANGED requests)
    /\ WF_vars(StartEscalation(t) /\ UNCHANGED requests)
    /\ SF_vars(AuditStep(t) /\ UNCHANGED requests)

FairSpec == Spec /\ Fairness

-----------------------------------------------------------------------------
(* Properties.                                                             *)

\* Every variable holds a value of its type.
TypeOK ==
  /\ tickets \in [Tickets -> Row]
  /\ run \in [Tickets -> Run]
  /\ audit \in [Tickets -> Audit]
  /\ command \in [Tickets -> Command]
  /\ pull \in [Tickets -> Pull]
  /\ tries \in [Tickets -> Nat]

\* Nothing reaches a human's or the auditor's hands unverified: whatever the
\* order in which executions, audits and endpoints save their copies of the
\* document, a ticket waiting for its diff to be approved or beyond has the
\* result of a run that succeeded (passed its tests, or had none to pass:
\* unverified), one waiting for acceptance or done has passed its audit, and
\* one that is done was accepted.
VerifiedBeforeReview ==
  \A t \in Tickets : LET row == tickets[t] IN
    /\ row.status \in {"diff_pending", "review", "awaiting_acceptance", "done"}
         => row.outcome = "success"
    /\ row.status \in {"awaiting_acceptance", "done"} => row.verdict = "approved"
    /\ row.status = "done" => row.accepted

\* The retry budget bounds the work of a run: one whose attempts and model no
\* endpoint and no audit writes meanwhile fails at most once more than the
\* budget on the model it was given, be it outside the chain, and on every model
\* of the chain.
TriesBounded == \A t \in Tickets : tries[t] <= (RetryBudget + 1) * (Models + 1)

\* The only thing that brings an abandoned ticket back is a run, an audit or a
\* git command whose request read the document before it was abandoned and saves
\* its copy now: nothing that reads the abandoned document does, although
\* escalate, rerun, merge and revert ask for no status.
AbandonedUnlessStaleSave ==
  [][\A t \in Tickets :
       (tickets[t].status = "abandoned"
          /\ tickets'[t].status \notin {"abandoned", "absent"}) =>
       \/ run[t].phase # "idle" \/ audit[t].phase # "idle"
       \/ command[t].op # "none" /\ ~command[t].snap.abandoned]_vars

\* A run comes to its end, however often the Product Owner restarts, cancels,
\* redirects or deletes its ticket meanwhile; a new model or a move each time it
\* falls back would keep it going.
RunEnds ==
  \A t \in Tickets : run[t].phase # "idle" ~> run[t].phase = "idle"

\* A ticket left in testing by a dead execution does not stay there.
TestingIsTransient ==
  \A t \in Tickets : tickets[t].status = "testing" ~> tickets[t].status # "testing"

\* Gate 1: no code runs for a ticket that awaits approval
\* (HAAO_product_brief.md:47, OPERATOR_GUIDE.md:52).
NoRunBeforeApproval ==
  [][\A t \in Tickets :
       (~Registered(t) /\ Registered(t)') => ~tickets[t].needsApproval]_vars

\* What may be shipped: succeeded, audited, and before the Product Owner or past
\* him, be it that it was split while its acceptance was under way.
Shippable(row) ==
  /\ row.outcome = "success" /\ row.verdict = "approved"
  /\ \/ row.status \in {"awaiting_acceptance", "done"}
     \/ row.status = "split" /\ row.accepted

\* Gate 2: a pull request is pushed only for a ticket that succeeded, was audited
\* and waits for its acceptance or was accepted (the gate's messages in
\* pr_flow.py): neither an earlier acceptance nor an earlier audit opens the gate
\* for a ticket that was taken back since.  The gate is asked once, before the
\* push; while the provider is being called nothing takes the ticket away, no
\* run, audit or commit that read it before, but the Product Owner who splits it.
\* (A merge or a revert does: it saves a copy no gate was asked of.)
PrOnlyWhenAccepted ==
  [][\A t \in Tickets : pull[t].phase = "pushed" =>
       /\ Shippable(pull[t].snap)
       /\ (Shippable(tickets[t]) /\ ~Shippable(tickets'[t])) =>
            tickets'[t].status = "split"]_vars

\* A blocked ticket that is addressed to the Tech Lead gets his answer, unless
\* somebody takes it away first: neither a failing call nor an endpoint that
\* redirects the ticket while he is asked loses the request.  It is only the
\* first time: nothing clears handled.
FirstBlockIsHandled ==
  \A t \in Tickets :
    (tickets[t].status = "blocked" /\ tickets[t].escalatedTo = "tech_lead") ~>
      (tickets[t].handled \/ tickets[t].status # "blocked"
         \/ tickets[t].escalatedTo = "human")
=============================================================================
