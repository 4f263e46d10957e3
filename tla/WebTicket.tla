----------------------------- MODULE WebTicket -----------------------------
(***************************************************************************)
(* What the web board makes of a ticket and lets the Product Owner do to    *)
(* it: api/adapter.ts, constants.ts, prEligibility.ts, TicketDetail.tsx,    *)
(* BlockedRecoveryMenu.tsx, TicketCard.tsx, KanbanColumn.tsx, against the   *)
(* endpoints of TicketLifecycle that serve it.  Statuses of two words are   *)
(* written with an underscore here, with a blank in the code.               *)
(***************************************************************************)
EXTENDS TicketLifecycle

-----------------------------------------------------------------------------
(* toUiTicket: the card of a row.                                           *)

UiStatus(status) ==
    CASE status = "backlog" -> "Backlog"
      [] status = "ready" -> "Ready"
      [] status \in {"in_progress", "testing"} -> "In_Progress"
      [] status = "diff_pending" -> "Diff_review"
      [] status = "review" -> "Review"
      [] status = "awaiting_acceptance" -> "Awaiting_acceptance"
      [] status = "done" -> "Done"
      [] status = "blocked" -> "Blocked"
      [] status = "abandoned" -> "Abandoned"
      [] OTHER -> "Split"

\* toBackendStatus: a move asks for the first of the statuses a column stands for.
BackendStatus(ui) ==
    CASE ui = "In_Progress" -> "in_progress"
      [] OTHER -> CHOOSE s \in Statuses: UiStatus(s) = ui

TestStatus(row) ==
    IF row.status = "testing" THEN "testing"
    ELSE IF \/ row.status \in {"ready", "in_progress"}
            \/ row.status = "backlog" /\ row.verdict = "rejected"
         THEN "none"
         ELSE CASE row.outcome = "success" -> "pass"
                [] row.outcome \in {"test_failed", "error"} -> "fail"
                [] OTHER -> "none"

UiTicket(row) ==
    [status |-> UiStatus(row.status), testStatus |-> TestStatus(row),
     needsApproval |-> row.needsApproval, audit |-> row.verdict,
     gitBranch |-> row.branch, gitMergeCommit |-> row.merged]

-----------------------------------------------------------------------------
(* What is offered on a card.                                               *)

UnderGateOne(card) == card.needsApproval /\ card.status = "Backlog"

\* MANUAL_STATUS_TRANSITIONS, for the detail and for drag and drop.
ManualMoves(ui) == CASE ui = "Backlog" -> {"Ready"}
                     [] ui = "Ready" -> {"In_Progress"}
                     [] OTHER -> {}

\* The detail hides the moves of a ticket under the first gate; its card can be
\* dragged all the same.
MayMove(card, ui) == ui \in ManualMoves(card.status)

DetailActions(card) ==
    {op \in {"execute", "cancel", "rerun", "retry", "escalate", "delete"}:
        CASE op = "execute" -> ~UnderGateOne(card)
                                  /\ card.status \in {"Ready", "In_Progress"}
          [] op = "cancel" -> card.status = "In_Progress" \/ card.testStatus = "testing"
          [] op = "rerun" ->
                card.status \in {"Backlog", "Ready", "Blocked", "Diff_review"}
          [] op = "retry" -> card.status \in {"Blocked", "Backlog"}
          [] OTHER -> TRUE}

GateActions(card) ==
    (IF UnderGateOne(card) THEN {"approve"} ELSE {})
      \cup CASE card.status = "Diff_review" -> {"diff_approve", "diff_reject"}
             [] card.status = "Awaiting_acceptance" -> {"accept", "reject"}
             [] OTHER -> {}

\* Clarify, the fifth entry of the menu, only opens the form of the second gate.
RecoveryActions(card) ==
    IF card.status = "Blocked"
    THEN {"split", "abandon", "assign_model", "escalate"} ELSE {}

\* canShowMergeAction; a merge that was undone keeps its commit, and with it
\* hides the button for good.
GitActions(card) ==
    (IF card.gitBranch /\ ~card.gitMergeCommit
          /\ card.status \in {"Review", "Awaiting_acceptance", "Done"}
     THEN {"merge"} ELSE {})
      \cup (IF card.gitMergeCommit THEN {"revert"} ELSE {})

\* A slip: the button does not wait for the tests and the audit.
SlipMayOpenPr(card) ==
    card.status \in {"Review", "Awaiting_acceptance", "Done"} /\ TRUE \in PullRequests

\* prEligibility.
MayOpenPr(card) ==
    /\ card.testStatus = "pass"
    /\ card.audit = "approved"
    /\ card.status \in {"Awaiting_acceptance", "Done"}
    /\ TRUE \in PullRequests

\* Enter in the open ticket stands for the gates that can be undone.
EnterActions(card) == IF UnderGateOne(card) THEN {"approve"}
                      ELSE IF card.status = "Diff_review" THEN {"diff_approve"} ELSE {}

Offered(card) ==
    DetailActions(card) \cup GateActions(card) \cup RecoveryActions(card)
      \cup GitActions(card) \cup (IF MayOpenPr(card) THEN {"pr"} ELSE {})

-----------------------------------------------------------------------------
(* Where a card is shown.                                                   *)

IsTerminal(ui) == ui \in {"Done", "Abandoned", "Split"}

Columns == {"Backlog", "Ready", "In_Progress", "Review", "Awaiting_acceptance", "Done"}

InColumn(card, column) ==
    CASE column = "Review" -> card.status \in {"Review", "Diff_review"}
      [] column = "In_Progress" -> card.status \in {"In_Progress", "Blocked"}
      [] column = "Done" -> IsTerminal(card.status)
      [] OTHER -> card.status = column

NeedsMyAttention(card) ==
    UnderGateOne(card) \/ card.status \in {"Diff_review", "Awaiting_acceptance"}

\* What the filter on the outcome and the attention filter leave on the board.
MatchesBoardFilters(card, terminal, attentionOnly) ==
    /\ attentionOnly => NeedsMyAttention(card)
    /\ CASE terminal = "active" -> ~IsTerminal(card.status)
         [] terminal = "done" -> card.status = "Done"
         [] terminal = "abandoned" -> card.status = "Abandoned"
         [] terminal = "split" -> card.status = "Split"
         [] OTHER -> TRUE

-----------------------------------------------------------------------------
(* The endpoint behind an offer; one that ends in a move is only done with   *)
(* when the move is made.                                                   *)

Ends(t, status) == tickets'[t].status \in {status, "abandoned"}

\* So far as can be told before git or the provider is called.
MayEnd(t, status) == CanTransition(tickets[t].status, status)

\* The bound on ticket ids is the model's, not the server's.
NoIdLeft == Cardinality({c \in Tickets: ~Exists(c)}) < SplitSize

Serves(op, t) ==
    \/ op = "execute" /\ Execute(t)
    \/ op = "cancel" /\ Cancel(t)
    \/ op = "rerun" /\ Rerun(t)
    \/ op = "retry" /\ Retry(t)
    \/ op = "escalate" /\ Escalate(t, "human")
    \/ op = "delete" /\ Delete(t, UiStatus(tickets[t].status) = "In_Progress")
    \/ op = "approve" /\ Approve(t) /\ Ends(t, "ready")
    \/ op = "diff_approve" /\ ApproveDiff(t) /\ MayEnd(t, "review")
    \/ op = "diff_reject" /\ RejectDiff(t) /\ Ends(t, "in_progress")
    \/ op = "accept" /\ Accept(t) /\ Ends(t, "done")
    \/ op = "accept" /\ AcceptByPr(t) /\ MayEnd(t, "done")
    \/ op = "reject" /\ Reject(t) /\ Ends(t, "backlog")
    \/ op = "split" /\ (Split(t) \/ NoIdLeft)
    \/ op = "abandon" /\ Abandon(t)
    \/ op = "assign_model" /\ AssignModel(t, 1)
    \/ op = "merge" /\ Merge(t)
    \/ op = "revert" /\ Revert(t)
    \/ op = "pr" /\ OpenPr(t)

\* Runs the board cannot see: it offers to continue and to rerun whatever is
\* registered, and to continue a ticket in testing.
Unseen(op, t) ==
    \/ op \in {"execute", "rerun"} /\ run[t].phase # "idle"
    \/ op = "execute" /\ tickets[t].status = "testing"

\* A second request while one of its kind is under way for the ticket; the bound
\* on copies is the model's, not the server's.
UnderWay(op, t) ==
    \/ op \in {"diff_approve", "merge", "revert"}
          /\ (command[t].op # "none" \/ ~MayRead(t))
    \/ op \in {"pr", "accept"} /\ pull[t].phase # "idle"

-----------------------------------------------------------------------------
(* Every button of the board works: what the detail offers on a ticket as   *)
(* the server has it, the server does or begins to do, but for the runs the *)
(* board does not see and for a second press.                               *)
OffersAreServed ==
    \A t \in Tickets: Exists(t) =>
        \A op \in PoOps \cap Offered(UiTicket(tickets[t])):
            ENABLED Serves(op, t) \/ Unseen(op, t) \/ UnderWay(op, t)

(* A card dropped on a column, or moved from the detail, is a transition of *)
(* the state machine.                                                       *)
DropsAreLegal ==
    \A t \in Tickets: Exists(t) =>
        \A ui \in {u \in Columns: MayMove(UiTicket(tickets[t]), u)}:
            CanTransition(tickets[t].status, BackendStatus(ui))

(* A ticket that waits for the Product Owner is never lost from sight: it is *)
(* in one column, the attention filter shows it exactly when it has a gate   *)
(* to decide, the filter of active tickets never hides it, and Enter decides *)
(* no gate but its own.                                                      *)
GatesAreShown ==
    \A t \in Tickets: Exists(t) =>
        LET card == UiTicket(tickets[t]) IN
        /\ Cardinality({column \in Columns: InColumn(card, column)}) = 1
        /\ MatchesBoardFilters(card, "active", TRUE) <=> GateActions(card) # {}
        /\ EnterActions(card) \subseteq GateActions(card)

(* What the board shows of a ticket and offers for it agrees with what the  *)
(* server will do.                                                          *)
BoardIsTrue == OffersAreServed /\ DropsAreLegal /\ GatesAreShown
=============================================================================
