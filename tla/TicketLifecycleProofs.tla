----------------------- MODULE TicketLifecycleProofs -----------------------
(***************************************************************************)
(* Theorems about TicketLifecycle, for any number of tickets, any budget,  *)
(* any chain of models, with or without crashes, splits, integrations and  *)
(* cloud models.  What an endpoint does to the properties depends on which *)
(* endpoints are used; each theorem names in its hypothesis the ones it    *)
(* excludes.                                                               *)
(*                                                                         *)
(* The invariant says of every copy of a document, in the table or in the  *)
(* hands of an execution or an audit, what its status promises.  The last  *)
(* theorem is about the cards of the web board (WebTicket).                *)
(***************************************************************************)
EXTENDS WebTicket, FiniteSetTheorems, TLAPS

\* move and revert write a status the pipeline did not earn.
StatusEarned == PoOps \cap {"move", "revert"} = {}

\* The endpoints by which a ticket gets around its approval.
GateKept ==
  PoOps \cap {"reject", "retry", "rerun", "execute", "cancel", "move"} = {}

\* A PO who recreates a ticket under its run and moves it where the run left
\* it gives the run a fresh budget.
BudgetKept == ~({"move", "delete"} \subseteq PoOps)

Verified(row) ==
  /\ row.status \in {"diff_pending", "review", "awaiting_acceptance", "done"}
       => row.outcome = "success"
  /\ row.status \in {"awaiting_acceptance", "done"} => row.verdict = "approved"
  /\ row.status = "done" => row.accepted

PastGate(row) ==
  row.status \in {"ready", "in_progress", "testing", "diff_pending", "review"} =>
    ~row.needsApproval

\* A document that may be given to a save.
Good(row) ==
  /\ row \in Row
  /\ row.status = "abandoned" => row.abandoned
  /\ StatusEarned /\ ~row.abandoned => Verified(row)
  /\ GateKept /\ ~row.abandoned => PastGate(row)

\* A document as a save leaves it.
RowInv(row) == Good(row) /\ (row.abandoned => row.status = "abandoned")

RunInv(r) ==
  /\ r \in Run
  /\ RowInv(r.snap)
  /\ r.phase = "model" => r.snap.status = "in_progress"
  /\ r.phase = "tests" => r.snap.status = "testing"
  /\ r.phase = "escalate" => r.snap.status = "blocked"
  /\ "cancel" \notin PoOps => ~r.cancelled

AuditInv(a) ==
  /\ a \in Audit
  /\ RowInv(a.snap)
  /\ a.phase = "review" => a.snap.status = "review"
  /\ a.phase = "escalation" => a.snap.status = "blocked"

RowsInv == tickets \in [Tickets -> Row] /\ \A t \in Tickets : RowInv(tickets[t])
RunsInv == run \in [Tickets -> Run] /\ \A t \in Tickets : RunInv(run[t])
AuditsInv == audit \in [Tickets -> Audit] /\ \A t \in Tickets : AuditInv(audit[t])

DocInv == RowsInv /\ RunsInv /\ AuditsInv /\ tries \in [Tickets -> Nat]

CommandInv(c) ==
  /\ c \in Command
  /\ RowInv(c.snap)
  /\ c.op # "none" => c.op \in PoOps /\ c.snap.status # "absent"
  /\ c.op = "diff_approve" => c.snap.status = "diff_pending"

\* The requests that wait for git or for the provider.
AskInv ==
  /\ command \in [Tickets -> Command] /\ \A t \in Tickets : CommandInv(command[t])
  /\ pull \in [Tickets -> Pull]

-----------------------------------------------------------------------------
(* Saves and moves.                                                         *)

\* Two documents with the same body: all that is relied on but the status.
SameBody(row, other) ==
  /\ row.needsApproval = other.needsApproval
  /\ row.attempts = other.attempts /\ row.model = other.model
  /\ row.outcome = other.outcome /\ row.verdict = other.verdict
  /\ row.accepted = other.accepted /\ row.abandoned = other.abandoned
  /\ row.pr = other.pr

LEMMA StatusFields ==
  ASSUME NEW row \in Row, NEW status \in Statuses
  PROVE  LET other == [row EXCEPT !.status = status] IN
         other \in Row /\ other.status = status /\ SameBody(other, row)
BY DEF Row, SameBody

\* A save changes nothing but the status.
LEMMA SavedFields ==
  ASSUME NEW row \in Row
  PROVE  /\ Saved(row) \in Row
         /\ SameBody(Saved(row), row)
         /\ Saved(row).status = IF row.abandoned THEN "abandoned" ELSE row.status
BY DEF Saved, Row, Statuses, SameBody

\* A save of a good document leaves a document the invariant allows.
LEMMA SavedGood ==
  ASSUME NEW row, Good(row)
  PROVE  RowInv(Saved(row))
<1> DEFINE f == Saved(row)
<1>1. row \in Row
  BY DEF Good
<1>2. /\ f \in Row
      /\ SameBody(f, row)
      /\ f.status = IF row.abandoned THEN "abandoned" ELSE row.status
  BY <1>1, SavedFields
<1>3. row.abandoned \in BOOLEAN /\ row.needsApproval \in BOOLEAN
  BY <1>1 DEF Row
<1> HIDE DEF f
<1> QED BY <1>2, <1>3 DEF f, RowInv, Good, Verified, PastGate, SameBody

\* A move changes nothing but the status, and that along a legal transition.
LEMMA MovedFields ==
  ASSUME NEW row \in Row, NEW target \in Statuses
  PROVE  /\ Moved(row, target) \in Row
         /\ SameBody(Moved(row, target), row)
         /\ Moved(row, target).status =
              IF ~CanTransition(row.status, target) THEN row.status
              ELSE IF row.abandoned THEN "abandoned" ELSE target
<1> DEFINE e == [row EXCEPT !.status = target]
<1>1. e \in Row /\ e.status = target /\ SameBody(e, row)
  BY StatusFields
<1> HIDE DEF e
<1>2. CASE CanTransition(row.status, target)
  <2>1. Moved(row, target) = Saved(e)
    BY <1>2 DEF Moved, e
  <2> QED BY <1>1, <1>2, <2>1, SavedFields DEF SameBody
<1>3. CASE ~CanTransition(row.status, target)
  BY <1>3 DEF Moved, SameBody
<1> QED BY <1>2, <1>3

-----------------------------------------------------------------------------
(* The endpoints.  Most of them save a document made of the row: an edit,   *)
(* which leaves the run its budget, or a restart, which begins a new one.   *)

MadeOf(row, old) ==
  /\ Good(row)
  /\ row.status # "absent"
  /\ old.abandoned => row.abandoned

Edits(t) ==
  \E row :
    /\ MadeOf(row, tickets[t])
    /\ row.attempts = tickets[t].attempts
    /\ row.model = tickets[t].model \/ tickets[t].model = OffChain
    /\ row.status = "in_progress" =>
         tickets[t].status = "in_progress" \/ "move" \in PoOps
    /\ Handle(t, row)

Restarts(t) == \E row : MadeOf(row, tickets[t]) /\ Restart(t, row)

LEMMA ApproveEdits ==
  ASSUME DocInv, NEW t \in Tickets, Approve(t)
  PROVE  Edits(t)
<1> DEFINE old == tickets[t]
<1>0. PICK k \in {old.model} \cup (IF old.model = OffChain THEN {1} ELSE {}) :
        Handle(t, Moved([old EXCEPT !.needsApproval = FALSE, !.model = k], "ready"))
  BY DEF Approve
<1> DEFINE e == [old EXCEPT !.needsApproval = FALSE, !.model = k]
           m == Moved(e, "ready")
<1>1. /\ RowInv(old) /\ old \in Row /\ old.status # "absent"
      /\ old.needsApproval \in BOOLEAN
  BY DEF DocInv, RowsInv, Approve, Asks, Exists, Row
<1>2. /\ k = old.model \/ old.model = OffChain
      /\ k \in OffChain .. Models
  BY <1>1, LifecycleAssumption DEF LifecycleAssumption, OffChain, Row
<1>3. /\ e \in Row /\ e.status = old.status
      /\ ~e.needsApproval /\ e.attempts = old.attempts
      /\ e.model = k /\ e.outcome = old.outcome
      /\ e.verdict = old.verdict /\ e.accepted = old.accepted
      /\ e.abandoned = old.abandoned
  BY <1>1, <1>2 DEF Row, Statuses, Targets
<1>4. Handle(t, m)
  BY <1>0
<1> HIDE DEF e
<1>5. /\ m \in Row /\ SameBody(m, e)
      /\ m.status = IF ~CanTransition(e.status, "ready") THEN e.status
                    ELSE IF e.abandoned THEN "abandoned" ELSE "ready"
  BY <1>3, MovedFields DEF Statuses
<1> HIDE DEF m
<1>6. CanTransition(old.status, "ready") => old.status = "backlog"
  BY DEF CanTransition, LegalTransitions
<1>7. MadeOf(m, old)
  BY <1>1, <1>3, <1>5, <1>6 DEF RowInv, Good, Verified, PastGate, MadeOf, SameBody
<1> HIDE DEF old
<1> QED BY <1>1, <1>2, <1>3, <1>4, <1>5, <1>6, <1>7 DEF Edits, SameBody, old

LEMMA StorePrEdits ==
  ASSUME DocInv, NEW t \in Tickets, StorePr(t)
  PROVE  Edits(t)
<1> DEFINE old == tickets[t]
           e == [old EXCEPT !.pr = TRUE]
<1>1. /\ RowInv(old) /\ old \in Row /\ old.status # "absent"
      /\ old.needsApproval \in BOOLEAN
  BY DEF DocInv, RowsInv, StorePr, Exists, Row
<1>2. /\ e \in Row /\ e.status = old.status
      /\ e.needsApproval = old.needsApproval
      /\ e.attempts = old.attempts /\ e.model = old.model
      /\ e.outcome = old.outcome /\ e.verdict = old.verdict
      /\ e.accepted = old.accepted /\ e.abandoned = old.abandoned
  BY <1>1 DEF Row, Statuses, Targets
<1>3. Handle(t, e)
  BY DEF StorePr
<1> HIDE DEF e
<1>6. MadeOf(e, old)
  BY <1>1, <1>2 DEF RowInv, Good, Verified, PastGate, MadeOf, SameBody
<1> HIDE DEF old
<1> QED BY <1>1, <1>2, <1>3, <1>6 DEF Edits, SameBody, old

\* An acceptance that is not refused is of a ticket that passed its audit.
LEMMA AcceptedEdits ==
  ASSUME DocInv, NEW t \in Tickets, Exists(t), Handle(t, Accepted(tickets[t]))
  PROVE  Edits(t)
<1> DEFINE old == tickets[t]
           e == [old EXCEPT !.accepted = TRUE]
           m == Moved(e, "done")
<1>1. /\ RowInv(old) /\ old \in Row /\ old.status # "absent"
      /\ old.needsApproval \in BOOLEAN
  BY DEF DocInv, RowsInv, Exists, Row
<1>2. /\ e \in Row /\ e.status = old.status
      /\ e.needsApproval = old.needsApproval
      /\ e.attempts = old.attempts /\ e.model = old.model
      /\ e.outcome = old.outcome /\ e.verdict = old.verdict
      /\ e.accepted /\ e.abandoned = old.abandoned
  BY <1>1 DEF Row, Statuses, Targets
<1>3. Handle(t, m)
  BY DEF Accepted
<1> HIDE DEF e
<1>4. /\ m \in Row /\ SameBody(m, e)
      /\ m.status = IF ~CanTransition(e.status, "done") THEN e.status
                    ELSE IF e.abandoned THEN "abandoned" ELSE "done"
  BY <1>2, MovedFields DEF Statuses
<1> HIDE DEF m
<1>5. CanTransition(old.status, "done") => old.status = "awaiting_acceptance"
  BY DEF CanTransition, LegalTransitions
<1>6. MadeOf(m, old)
  BY <1>1, <1>2, <1>4, <1>5 DEF RowInv, Good, Verified, PastGate, MadeOf, SameBody
<1> HIDE DEF old
<1> QED BY <1>1, <1>2, <1>3, <1>4, <1>5, <1>6 DEF Edits, SameBody, old

LEMMA AcceptEdits ==
  ASSUME DocInv, NEW t \in Tickets, Accept(t) \/ AcceptStored(t)
  PROVE  Edits(t)
BY AcceptedEdits DEF Accept, AcceptStored, Asks

LEMMA RejectEdits ==
  ASSUME DocInv, NEW t \in Tickets, Reject(t)
  PROVE  Edits(t)
<1> DEFINE old == tickets[t]
           e == [old EXCEPT !.needsApproval = TRUE]
           m == Moved(e, "backlog")
<1>1. /\ RowInv(old) /\ old \in Row /\ old.status # "absent"
      /\ old.needsApproval \in BOOLEAN
  BY DEF DocInv, RowsInv, Reject, Asks, Exists, Row
<1>2. /\ e \in Row /\ e.status = old.status
      /\ e.needsApproval /\ e.attempts = old.attempts
      /\ e.model = old.model /\ e.outcome = old.outcome
      /\ e.verdict = old.verdict /\ e.accepted = old.accepted
      /\ e.abandoned = old.abandoned
  BY <1>1 DEF Row, Statuses, Targets
<1>3. Handle(t, m)
  BY DEF Reject
<1> HIDE DEF e
<1>4. /\ m \in Row /\ SameBody(m, e)
      /\ m.status = IF ~CanTransition(e.status, "backlog") THEN e.status
                    ELSE IF e.abandoned THEN "abandoned" ELSE "backlog"
  BY <1>2, MovedFields DEF Statuses
<1> HIDE DEF m
<1>5. ~GateKept
  BY DEF Reject, Asks, CanTransition, LegalTransitions, GateKept, StatusEarned
<1>6. MadeOf(m, old)
  BY <1>1, <1>2, <1>4, <1>5 DEF RowInv, Good, Verified, PastGate, MadeOf, SameBody
<1> HIDE DEF old
<1> QED BY <1>1, <1>2, <1>3, <1>4, <1>5, <1>6 DEF Edits, SameBody, old

LEMMA AbandonEdits ==
  ASSUME DocInv, NEW t \in Tickets, Abandon(t)
  PROVE  Edits(t)
<1> DEFINE old == tickets[t]
           e == [old EXCEPT !.status = "abandoned", !.abandoned = TRUE,
                            !.needsApproval = FALSE]
<1>1. /\ RowInv(old) /\ old \in Row /\ old.status # "absent"
      /\ old.needsApproval \in BOOLEAN
  BY DEF DocInv, RowsInv, Abandon, Asks, Exists, Row
<1>2. /\ e \in Row /\ e.status = "abandoned"
      /\ ~e.needsApproval /\ e.attempts = old.attempts
      /\ e.model = old.model /\ e.outcome = old.outcome
      /\ e.verdict = old.verdict /\ e.accepted = old.accepted
      /\ e.abandoned
  BY <1>1 DEF Row, Statuses, Targets
<1>3. Handle(t, e)
  BY DEF Abandon
<1> HIDE DEF e
<1>6. MadeOf(e, old)
  BY <1>1, <1>2 DEF RowInv, Good, Verified, PastGate, MadeOf, SameBody
<1> HIDE DEF old
<1> QED BY <1>1, <1>2, <1>3, <1>6 DEF Edits, SameBody, old

LEMMA EscalateEdits ==
  ASSUME DocInv, NEW t \in Tickets, NEW target \in Targets, Escalate(t, target)
  PROVE  Edits(t)
<1> DEFINE old == tickets[t]
           e == [old EXCEPT !.status = "blocked", !.escalatedTo = target]
<1>1. /\ RowInv(old) /\ old \in Row /\ old.status # "absent"
      /\ old.needsApproval \in BOOLEAN
  BY DEF DocInv, RowsInv, Escalate, Asks, Exists, Row
<1>2. /\ e \in Row /\ e.status = "blocked"
      /\ e.needsApproval = old.needsApproval
      /\ e.attempts = old.attempts /\ e.model = old.model
      /\ e.outcome = old.outcome /\ e.verdict = old.verdict
      /\ e.accepted = old.accepted /\ e.abandoned = old.abandoned
  BY <1>1 DEF Row, Statuses, Targets
<1>3. Handle(t, e)
  BY DEF Escalate, Handle
<1> HIDE DEF e
<1>6. MadeOf(e, old)
  BY <1>1, <1>2 DEF RowInv, Good, Verified, PastGate, MadeOf, SameBody
<1> HIDE DEF old
<1> QED BY <1>1, <1>2, <1>3, <1>6 DEF Edits, SameBody, old

LEMMA MoveTicketEdits ==
  ASSUME DocInv, NEW t \in Tickets, NEW target \in Statuses, MoveTicket(t, target)
  PROVE  Edits(t)
<1> DEFINE old == tickets[t]
           e == [old EXCEPT !.status = target]
<1>1. /\ RowInv(old) /\ old \in Row /\ old.status # "absent"
      /\ old.needsApproval \in BOOLEAN
  BY DEF DocInv, RowsInv, MoveTicket, Asks, Exists, Row, Statuses
<1>2. /\ e \in Row /\ e.status = target
      /\ e.needsApproval = old.needsApproval
      /\ e.attempts = old.attempts /\ e.model = old.model
      /\ e.outcome = old.outcome /\ e.verdict = old.verdict
      /\ e.accepted = old.accepted /\ e.abandoned = old.abandoned
  BY <1>1 DEF Row, Statuses, Targets
<1>3. Handle(t, e)
  BY DEF MoveTicket
<1> HIDE DEF e
<1>5. /\ ~StatusEarned /\ ~GateKept
      /\ target # "abandoned" /\ target # "absent" /\ "move" \in PoOps
  BY DEF MoveTicket, Asks, CanTransition, LegalTransitions, GateKept, StatusEarned, Statuses
<1>6. MadeOf(e, old)
  BY <1>1, <1>2, <1>5 DEF RowInv, Good, Verified, PastGate, MadeOf, SameBody
<1> HIDE DEF old
<1> QED BY <1>1, <1>2, <1>3, <1>5, <1>6 DEF Edits, SameBody, old

LEMMA AssignModelRestarts ==
  ASSUME DocInv, NEW t \in Tickets, NEW m \in GivenModels, AssignModel(t, m)
  PROVE  Restarts(t)
<1> DEFINE old == tickets[t]
           e == [old EXCEPT !.model = m]
<1>1. /\ RowInv(old) /\ old \in Row /\ old.status # "absent"
      /\ old.needsApproval \in BOOLEAN
  BY DEF DocInv, RowsInv, AssignModel, Asks, Exists, Row
<1>0. m \in OffChain .. Models
  BY LifecycleAssumption DEF LifecycleAssumption
<1>2. /\ e \in Row /\ e.status = old.status
      /\ e.needsApproval = old.needsApproval
      /\ e.attempts = old.attempts /\ e.model = m
      /\ e.outcome = old.outcome /\ e.verdict = old.verdict
      /\ e.accepted = old.accepted /\ e.abandoned = old.abandoned
  BY <1>0, <1>1 DEF Row, Statuses, Targets
<1>3. Restart(t, e)
  BY DEF AssignModel, Restart
<1> HIDE DEF e
<1>6. MadeOf(e, old)
  BY <1>1, <1>2 DEF RowInv, Good, Verified, PastGate, MadeOf, SameBody
<1> HIDE DEF old
<1> QED BY <1>3, <1>6 DEF Restarts, old

LEMMA RetryRestarts ==
  ASSUME DocInv, NEW t \in Tickets, Retry(t)
  PROVE  Restarts(t)
<1> DEFINE old == tickets[t]
           e == [Requeued(old) EXCEPT !.verdict = "pending"]
<1>1. /\ RowInv(old) /\ old \in Row /\ old.status # "absent"
      /\ old.needsApproval \in BOOLEAN
  BY DEF DocInv, RowsInv, Retry, Asks, Exists, Row
<1>2. /\ e \in Row /\ e.status = "ready"
      /\ e.needsApproval = old.needsApproval /\ e.attempts = 0
      /\ e.model = old.model /\ e.outcome = "pending"
      /\ e.verdict = "pending" /\ e.accepted = old.accepted
      /\ e.abandoned = old.abandoned
  BY <1>1 DEF Row, Statuses, Targets, Requeued
<1>3. Restart(t, e)
  BY DEF Retry
<1> HIDE DEF e
<1>5. ~GateKept
  BY DEF Retry, Asks, CanTransition, LegalTransitions, GateKept, StatusEarned
<1>6. MadeOf(e, old)
  BY <1>1, <1>2, <1>5 DEF RowInv, Good, Verified, PastGate, MadeOf, SameBody
<1> HIDE DEF old
<1> QED BY <1>3, <1>6 DEF Restarts, old

LEMMA RerunRestarts ==
  ASSUME DocInv, NEW t \in Tickets, Rerun(t)
  PROVE  Restarts(t)
<1> DEFINE old == tickets[t]
           e == [Requeued(old) EXCEPT !.verdict = "pending"]
<1>1. /\ RowInv(old) /\ old \in Row /\ old.status # "absent"
      /\ old.needsApproval \in BOOLEAN
  BY DEF DocInv, RowsInv, Rerun, Asks, Exists, Row
<1>2. /\ e \in Row /\ e.status = "ready"
      /\ e.needsApproval = old.needsApproval /\ e.attempts = 0
      /\ e.model = old.model /\ e.outcome = "pending"
      /\ e.verdict = "pending" /\ e.accepted = old.accepted
      /\ e.abandoned = old.abandoned
  BY <1>1 DEF Row, Statuses, Targets, Requeued
<1>3. Restart(t, e)
  BY DEF Rerun
<1> HIDE DEF e
<1>5. ~GateKept
  BY DEF Rerun, Asks, CanTransition, LegalTransitions, GateKept, StatusEarned
<1>6. MadeOf(e, old)
  BY <1>1, <1>2, <1>5 DEF RowInv, Good, Verified, PastGate, MadeOf, SameBody
<1> HIDE DEF old
<1> QED BY <1>3, <1>6 DEF Restarts, old

\* A cancelled execution that is not registered.
LEMMA CancelRestarts ==
  ASSUME DocInv, NEW t \in Tickets, Cancel(t), ~Registered(t)
  PROVE  Restarts(t)
<1> DEFINE old == tickets[t]
           e == Requeued(old)
<1>1. /\ RowInv(old) /\ old \in Row /\ old.status # "absent"
      /\ old.needsApproval \in BOOLEAN
  BY DEF DocInv, RowsInv, Cancel, Asks, Exists, Row
<1>2. /\ e \in Row /\ e.status = "ready"
      /\ e.needsApproval = old.needsApproval /\ e.attempts = 0
      /\ e.model = old.model /\ e.outcome = "pending"
      /\ e.verdict = old.verdict /\ e.accepted = old.accepted
      /\ e.abandoned = old.abandoned
  BY <1>1 DEF Row, Statuses, Targets, Requeued
<1>3. Restart(t, e)
  BY DEF Cancel
<1> HIDE DEF e
<1>5. ~GateKept
  BY DEF Cancel, Asks, CanTransition, LegalTransitions, GateKept, StatusEarned
<1>6. MadeOf(e, old)
  BY <1>1, <1>2, <1>5 DEF RowInv, Good, Verified, PastGate, MadeOf, SameBody
<1> HIDE DEF old
<1> QED BY <1>3, <1>6 DEF Restarts, old

LEMMA RejectDiffRestarts ==
  ASSUME DocInv, NEW t \in Tickets, RejectDiff(t)
  PROVE  Restarts(t)
<1> DEFINE old == tickets[t]
           e == [old EXCEPT !.attempts = 0, !.outcome = "pending"]
           m == Moved(e, "in_progress")
<1>1. /\ RowInv(old) /\ old \in Row /\ old.status # "absent"
      /\ old.needsApproval \in BOOLEAN
  BY DEF DocInv, RowsInv, RejectDiff, Asks, Exists, Row
<1>2. /\ e \in Row /\ e.status = old.status
      /\ e.needsApproval = old.needsApproval /\ e.attempts = 0
      /\ e.model = old.model /\ e.outcome = "pending"
      /\ e.verdict = old.verdict /\ e.accepted = old.accepted
      /\ e.abandoned = old.abandoned
  BY <1>1 DEF Row, Statuses, Targets
<1>3. Restart(t, m)
  BY DEF RejectDiff
<1> HIDE DEF e
<1>4. /\ m \in Row /\ SameBody(m, e)
      /\ m.status = IF ~CanTransition(e.status, "in_progress") THEN e.status
                    ELSE IF e.abandoned THEN "abandoned" ELSE "in_progress"
  BY <1>2, MovedFields DEF Statuses
<1> HIDE DEF m
<1>5. old.status = "diff_pending" /\ CanTransition("diff_pending", "in_progress")
  BY DEF RejectDiff, Asks, CanTransition, LegalTransitions, GateKept, StatusEarned
<1>6. MadeOf(m, old)
  BY <1>1, <1>2, <1>4, <1>5 DEF RowInv, Good, Verified, PastGate, MadeOf, SameBody
<1> HIDE DEF old
<1> QED BY <1>3, <1>6 DEF Restarts, old

-----------------------------------------------------------------------------
(* The git commands.  What they save is made of the document they read.     *)

\* The commit of the diff hands the ticket to the auditor.
LEMMA DiffApprovedSaves ==
  ASSUME AskInv, NEW t \in Tickets, DiffApproved(t)
  PROVE  \E row : /\ MadeOf(row, command[t].snap) /\ SaveCommanded(t, row)
                  /\ row.verdict = "pending"
                  /\ row.abandoned = command[t].snap.abandoned
                  /\ row.status = "review"
<1> DEFINE old == command[t].snap
           e == [old EXCEPT !.branch = TRUE, !.verdict = "pending"]
           m == Moved(Saved(e), "review")
<1>1. /\ RowInv(old) /\ old \in Row /\ old.status = "diff_pending"
      /\ old.needsApproval \in BOOLEAN
  BY DEF AskInv, CommandInv, RowInv, Good, DiffApproved, Row
<1>2. /\ e \in Row /\ e.status = old.status
      /\ e.needsApproval = old.needsApproval
      /\ e.outcome = old.outcome /\ e.verdict = "pending"
      /\ e.accepted = old.accepted /\ e.abandoned = old.abandoned
  BY <1>1 DEF Row, Statuses, Targets
<1>3. SaveCommanded(t, m)
  BY DEF DiffApproved
<1> HIDE DEF e, old
<1>4. ~e.abandoned /\ Saved(e) = e
  BY <1>1, <1>2 DEF RowInv, Saved
<1>5. "review" \in Statuses /\ CanTransition("diff_pending", "review")
  BY DEF CanTransition, LegalTransitions, Statuses
<1>6. m = Moved(e, "review")
  BY <1>4
<1> HIDE DEF m
<1>7. /\ m \in Row /\ SameBody(m, e)
      /\ m.status = IF ~CanTransition(e.status, "review") THEN e.status
                    ELSE IF e.abandoned THEN "abandoned" ELSE "review"
  BY <1>2, <1>5, <1>6, MovedFields
<1>8. m.status = "review" /\ m.verdict = "pending" /\ m.abandoned = old.abandoned
  BY <1>1, <1>2, <1>4, <1>5, <1>7 DEF SameBody
<1>9. MadeOf(m, old)
  BY <1>1, <1>2, <1>4, <1>7, <1>8 DEF RowInv, Good, Verified, PastGate, MadeOf, SameBody
<1> QED BY <1>3, <1>8, <1>9 DEF old

LEMMA BranchMergedSaves ==
  ASSUME AskInv, NEW t \in Tickets, BranchMerged(t)
  PROVE  \E row : MadeOf(row, command[t].snap) /\ SaveCommanded(t, row)
<1> DEFINE old == command[t].snap
           e == [old EXCEPT !.merged = TRUE]
<1>1. /\ RowInv(old) /\ old \in Row /\ old.status # "absent"
      /\ old.needsApproval \in BOOLEAN
  BY DEF AskInv, CommandInv, RowInv, Good, BranchMerged, Row
<1>2. /\ e \in Row /\ e.status = old.status
      /\ e.needsApproval = old.needsApproval
      /\ e.outcome = old.outcome /\ e.verdict = old.verdict
      /\ e.accepted = old.accepted /\ e.abandoned = old.abandoned
  BY <1>1 DEF Row, Statuses, Targets
<1>3. SaveCommanded(t, e)
  BY DEF BranchMerged
<1> HIDE DEF e, old
<1>4. MadeOf(e, old)
  BY <1>1, <1>2 DEF RowInv, Good, Verified, PastGate, MadeOf
<1> QED BY <1>3, <1>4 DEF old

LEMMA MergeRevertedSaves ==
  ASSUME AskInv, NEW t \in Tickets, MergeReverted(t)
  PROVE  \E row : MadeOf(row, command[t].snap) /\ SaveCommanded(t, row)
<1> DEFINE old == command[t].snap
           e == [old EXCEPT !.status = "awaiting_acceptance"]
<1>1. /\ RowInv(old) /\ old \in Row /\ old.status # "absent"
      /\ old.needsApproval \in BOOLEAN
  BY DEF AskInv, CommandInv, RowInv, Good, MergeReverted, Row
<1>2. /\ e \in Row /\ e.status = "awaiting_acceptance"
      /\ e.needsApproval = old.needsApproval
      /\ e.outcome = old.outcome /\ e.verdict = old.verdict
      /\ e.accepted = old.accepted /\ e.abandoned = old.abandoned
  BY <1>1 DEF Row, Statuses, Targets
<1>3. SaveCommanded(t, e)
  BY DEF MergeReverted
<1>4. ~StatusEarned
  BY DEF AskInv, CommandInv, MergeReverted, StatusEarned
<1> HIDE DEF e, old
<1>5. MadeOf(e, old)
  BY <1>1, <1>2, <1>4 DEF RowInv, Good, Verified, PastGate, MadeOf
<1> QED BY <1>3, <1>5 DEF old

LEMMA CommandSaves ==
  ASSUME AskInv, NEW t \in Tickets,
         DiffApproved(t) \/ BranchMerged(t) \/ MergeReverted(t)
  PROVE  \E row : MadeOf(row, command[t].snap) /\ SaveCommanded(t, row)
BY DiffApprovedSaves, BranchMergedSaves, MergeRevertedSaves

-----------------------------------------------------------------------------
(* The invariant.                                                           *)

LEMMA NothingGood ==
  RowInv(NoRow) /\ RunInv(NoRun) /\ AuditInv(NoAudit) /\ CommandInv(NoCommand)
<1>1. RowInv(NoRow)
  BY LifecycleAssumption
  DEF NoRow, RowInv, Good, Row, Verified, PastGate, OffChain, LifecycleAssumption
<1>2. RunInv(NoRun)
  BY <1>1 DEF NoRun, RunInv, Run, RowInv, Good
<1>3. AuditInv(NoAudit)
  BY <1>1 DEF NoAudit, AuditInv, Audit, RowInv, Good
<1>4. CommandInv(NoCommand)
  BY <1>1 DEF NoCommand, CommandInv, Command, RowInv, Good
<1> QED BY <1>1, <1>2, <1>3, <1>4

LEMMA WriteKeeps ==
  ASSUME RowsInv, NEW t \in Tickets, NEW row, Good(row), Write(t, row)
  PROVE  RowsInv'
<1> DEFINE s == Saved(row)
<1>1. RowInv(s) /\ s \in Row
  BY SavedGood DEF RowInv, Good
<1>2. tickets' = [tickets EXCEPT ![t] = s]
  BY DEF Write
<1> HIDE DEF s
<1>3. tickets' \in [Tickets -> Row]
  BY <1>1, <1>2 DEF RowsInv
<1>4. ASSUME NEW u \in Tickets PROVE RowInv(tickets'[u])
  <2>1. CASE u = t
    BY <1>1, <1>2, <2>1 DEF RowsInv
  <2>2. CASE u # t
    BY <1>2, <2>2 DEF RowsInv
  <2> QED BY <2>1, <2>2
<1> QED BY <1>3, <1>4 DEF RowsInv

LEMMA RunKeeps ==
  ASSUME RunsInv, NEW t \in Tickets, NEW r, RunInv(r),
         run' = [run EXCEPT ![t] = r]
  PROVE  RunsInv'
<1>1. r \in Run
  BY DEF RunInv
<1>2. run' \in [Tickets -> Run]
  BY <1>1 DEF RunsInv
<1>3. ASSUME NEW u \in Tickets PROVE RunInv(run'[u])
  <2>1. CASE u = t
    BY <2>1 DEF RunsInv
  <2>2. CASE u # t
    BY <2>2 DEF RunsInv
  <2> QED BY <2>1, <2>2
<1> QED BY <1>2, <1>3 DEF RunsInv

LEMMA AuditKeeps ==
  ASSUME AuditsInv, NEW t \in Tickets, NEW a, AuditInv(a),
         audit' = [audit EXCEPT ![t] = a]
  PROVE  AuditsInv'
<1>1. a \in Audit
  BY DEF AuditInv
<1>2. audit' \in [Tickets -> Audit]
  BY <1>1 DEF AuditsInv
<1>3. ASSUME NEW u \in Tickets PROVE AuditInv(audit'[u])
  <2>1. CASE u = t
    BY <2>1 DEF AuditsInv
  <2>2. CASE u # t
    BY <2>2 DEF AuditsInv
  <2> QED BY <2>1, <2>2
<1> QED BY <1>2, <1>3 DEF AuditsInv

\* What is left alone stays good.
LEMMA Untouched ==
  /\ RowsInv /\ UNCHANGED tickets => RowsInv'
  /\ RunsInv /\ UNCHANGED run => RunsInv'
  /\ AuditsInv /\ UNCHANGED audit => AuditsInv'
BY DEF RowsInv, RunsInv, AuditsInv

LEMMA EditsKeep ==
  ASSUME DocInv, NEW t \in Tickets, Edits(t)
  PROVE  DocInv'
<1>1. PICK row : Good(row) /\ Handle(t, row)
  BY DEF Edits, MadeOf
<1>2. RowsInv'
  BY <1>1, WriteKeeps DEF DocInv, Handle
<1> QED BY <1>1, <1>2, Untouched DEF DocInv, Handle

LEMMA RestartsKeep ==
  ASSUME DocInv, NEW t \in Tickets, Restarts(t)
  PROVE  DocInv'
<1>1. PICK row : Good(row) /\ Restart(t, row)
  BY DEF Restarts, MadeOf
<1>2. RowsInv'
  BY <1>1, WriteKeeps DEF DocInv, Restart
<1>3. tries' \in [Tickets -> Nat]
  BY <1>1 DEF DocInv, Restart
<1> QED BY <1>1, <1>2, <1>3, Untouched DEF DocInv, Restart

LEMMA CreateKeeps ==
  ASSUME DocInv, NEW t \in Tickets, NEW m \in GivenModels, CreateTicket(t, m)
  PROVE  DocInv'
<1> DEFINE e == [NoRow EXCEPT !.status = "ready", !.model = m]
<1>1. NoRow \in Row
  BY NothingGood DEF RowInv, Good
<1>0. m \in OffChain .. Models
  BY LifecycleAssumption DEF LifecycleAssumption
<1>2. /\ e \in Row /\ e.status = "ready"
      /\ ~e.needsApproval /\ ~e.abandoned
  BY <1>0, <1>1 DEF Row, NoRow, Statuses
<1>3. Handle(t, e)
  BY DEF CreateTicket
<1> HIDE DEF e
<1>4. Good(e)
  BY <1>2 DEF Good, Verified, PastGate
<1>5. RowsInv'
  BY <1>3, <1>4, WriteKeeps DEF DocInv, Handle
<1> QED BY <1>3, <1>5, Untouched DEF DocInv, Handle

LEMMA DeleteKeeps ==
  ASSUME DocInv, NEW t \in Tickets, NEW force \in BOOLEAN, Delete(t, force)
  PROVE  DocInv'
<1>1. Handle(t, NoRow) /\ Good(NoRow)
  BY NothingGood DEF Delete, RowInv
<1>2. RowsInv'
  BY <1>1, WriteKeeps DEF DocInv, Handle
<1> QED BY <1>1, <1>2, Untouched DEF DocInv, Handle

\* The parent is neither abandoned nor past any gate, and its children start
\* over in the backlog.
LEMMA SplitKeeps ==
  ASSUME DocInv, NEW t \in Tickets, Split(t)
  PROVE  DocInv'
<1> DEFINE old == tickets[t]
           child == [old EXCEPT !.status = "backlog", !.needsApproval = TRUE,
                                !.outcome = "pending", !.verdict = "pending"]
           parent == [old EXCEPT !.status = "split", !.needsApproval = FALSE]
<1>1. RowInv(old) /\ old \in Row
  BY DEF DocInv, RowsInv
<1>2. ~old.abandoned
  BY <1>1 DEF Split, Terminal, RowInv
<1>3. /\ child \in Row /\ child.status = "backlog"
      /\ ~child.abandoned
  BY <1>1, <1>2 DEF Row, Statuses
<1>4. /\ parent \in Row /\ parent.status = "split"
      /\ ~parent.abandoned
  BY <1>1, <1>2 DEF Row, Statuses
<1>5. PICK children \in SUBSET Tickets :
        tickets' = [c \in Tickets |-> CASE c \in children -> child
                                        [] c = t -> parent
                                        [] OTHER -> tickets[c]]
  BY DEF Split
<1> HIDE DEF old, child, parent
<1>6. RowInv(child) /\ RowInv(parent)
  BY <1>3, <1>4 DEF RowInv, Good, Verified, PastGate
<1>7. ASSUME NEW c \in Tickets
      PROVE  tickets'[c] \in {child, parent, tickets[c]}
  BY <1>5
<1>8. \A c \in Tickets : RowInv(tickets'[c]) /\ tickets'[c] \in Row
  BY <1>3, <1>4, <1>6, <1>7 DEF DocInv, RowsInv
<1>9. RowsInv'
  BY <1>5, <1>8 DEF RowsInv
<1> QED BY <1>9, Untouched DEF DocInv, Split

-----------------------------------------------------------------------------
(* The executions.                                                          *)

LEMMA StartRunKeeps ==
  ASSUME DocInv, NEW t \in Tickets, NEW auto \in BOOLEAN, StartRun(t, auto),
         \/ tickets[t].status \in {"ready", "in_progress"}
         \/ tickets[t].status = "backlog" /\ ~GateKept
  PROVE  DocInv'
<1> DEFINE old == tickets[t]
           e == [old EXCEPT !.status = "in_progress"]
           r == [phase |-> "model", auto |-> auto, cancelled |-> FALSE, snap |-> e]
<1>1. RowInv(old) /\ old \in Row
  BY DEF DocInv, RowsInv
<1>2. ~old.abandoned
  BY <1>1 DEF RowInv
<1>3. e \in Row /\ e.status = "in_progress" /\ SameBody(e, old)
  BY <1>1, StatusFields DEF Statuses
<1>4. Write(t, e) /\ run' = [run EXCEPT ![t] = r]
  BY DEF StartRun
<1>5. audit' = audit /\ tries' = [tries EXCEPT ![t] = 0]
  BY DEF StartRun
<1> HIDE DEF e
<1>6. RowInv(e)
  BY <1>1, <1>2, <1>3 DEF RowInv, Good, Verified, PastGate, SameBody
<1>7. RunInv(r)
  BY <1>3, <1>6 DEF RunInv, Run
<1> HIDE DEF r
<1>8. RowsInv'
  BY <1>4, <1>6, WriteKeeps DEF DocInv, RowInv
<1>9. RunsInv'
  BY <1>4, <1>7, RunKeeps DEF DocInv
<1>10. tries' \in [Tickets -> Nat]
  BY <1>5 DEF DocInv
<1> QED BY <1>5, <1>8, <1>9, <1>10, Untouched DEF DocInv

LEMMA DispatchKeeps ==
  ASSUME DocInv, NEW t \in Tickets, Dispatch(t)
  PROVE  DocInv'
BY StartRunKeeps DEF Dispatch

LEMMA ExecuteKeeps ==
  ASSUME DocInv, NEW t \in Tickets, Execute(t)
  PROVE  DocInv'
<1>1. ~GateKept
  BY DEF Execute, Asks, GateKept
<1> QED BY <1>1, StartRunKeeps DEF Execute

LEMMA EndRunKeeps ==
  ASSUME RunsInv, NEW t \in Tickets, EndRun(t)
  PROVE  RunsInv'
BY NothingGood, RunKeeps DEF EndRun

LEMMA RecordUsageKeeps ==
  ASSUME DocInv, NEW t \in Tickets, RecordUsage(t)
  PROVE  DocInv'
<1>1. Good(run[t].snap) /\ Handle(t, run[t].snap)
  BY DEF RecordUsage, DocInv, RunsInv, RunInv, RowInv
<1>2. RowsInv'
  BY <1>1, WriteKeeps DEF DocInv, Handle
<1> QED BY <1>1, <1>2, Untouched DEF DocInv, Handle

\* Only a registered execution is told; it takes the endpoint.
LEMMA CancelKeeps ==
  ASSUME DocInv, NEW t \in Tickets, Cancel(t)
  PROVE  DocInv'
<1>1. CASE ~Registered(t)
  BY <1>1, CancelRestarts, RestartsKeep
<1>2. CASE Registered(t)
  <2> DEFINE r == [run[t] EXCEPT !.cancelled = TRUE]
  <2>1. RunInv(run[t]) /\ "cancel" \in PoOps
    BY DEF DocInv, RunsInv, Cancel, Asks
  <2>2. run' = [run EXCEPT ![t].cancelled = TRUE] /\ UNCHANGED <<tickets, audit, tries>>
    BY <1>2 DEF Cancel
  <2>3. run' = [run EXCEPT ![t] = r]
    BY <2>2
  <2>4. r \in Run /\ r.phase = run[t].phase /\ r.snap = run[t].snap
    BY <2>1 DEF RunInv, Run
  <2> HIDE DEF r
  <2>5. RunInv(r)
    BY <2>1, <2>4 DEF RunInv
  <2>6. RunsInv'
    BY <2>3, <2>5, RunKeeps DEF DocInv
  <2> QED BY <2>2, <2>6, Untouched DEF DocInv
<1> QED BY <1>1, <1>2

LEMMA CancelledKeeps ==
  ASSUME DocInv, NEW t \in Tickets, run[t].cancelled, Cancelled(t)
  PROVE  DocInv'
<1> DEFINE old == tickets[t]
           e == Requeued(old)
<1>1. RowInv(old) /\ old \in Row
  BY DEF DocInv, RowsInv
<1>2. ~GateKept
  BY DEF DocInv, RunsInv, RunInv, GateKept
<1>3. /\ e \in Row /\ e.status = "ready"
  BY <1>1 DEF Requeued, Row, Statuses
<1>4. Exists(t) => Write(t, e)
  BY DEF Cancelled
<1> HIDE DEF e
<1>5. Good(e)
  BY <1>2, <1>3 DEF Good, Verified
<1>6. RowsInv'
  <2>1. CASE Exists(t)
    BY <1>4, <1>5, <2>1, WriteKeeps DEF DocInv
  <2>2. CASE ~Exists(t)
    BY <2>2, Untouched DEF DocInv, Cancelled
  <2> QED BY <2>1, <2>2
<1>7. RunsInv'
  BY EndRunKeeps DEF DocInv, Cancelled
<1> QED BY <1>6, <1>7, Untouched DEF DocInv, Cancelled

LEMMA BeginTestsKeeps ==
  ASSUME DocInv, NEW t \in Tickets, BeginTests(t)
  PROVE  DocInv'
<1>1. CASE ~CanTransition(tickets[t].status, "testing")
  <2>1. EndRun(t) /\ UNCHANGED <<tickets, audit, tries>>
    BY <1>1 DEF BeginTests
  <2> QED BY <2>1, EndRunKeeps, Untouched DEF DocInv
<1>2. CASE CanTransition(tickets[t].status, "testing") /\ run[t].cancelled
  BY <1>2, CancelledKeeps DEF BeginTests
<1>3. CASE CanTransition(tickets[t].status, "testing") /\ ~run[t].cancelled
  <2> DEFINE old == tickets[t]
             e == [old EXCEPT !.status = "testing"]
             r == [run[t] EXCEPT !.phase = "tests", !.snap = e]
  <2>1. RowInv(old) /\ old \in Row /\ RunInv(run[t])
    BY DEF DocInv, RowsInv, RunsInv
  <2>2. old.status = "in_progress"
    BY <1>3 DEF CanTransition, LegalTransitions
  <2>3. e \in Row /\ e.status = "testing" /\ SameBody(e, old)
    BY <2>1, StatusFields DEF Statuses
  <2>4. /\ Write(t, e) /\ UNCHANGED <<audit, tries>>
        /\ run' = [run EXCEPT ![t].phase = "tests", ![t].snap = e]
    BY <1>3 DEF BeginTests
  <2>5. run' = [run EXCEPT ![t] = r]
    BY <2>4
  <2> HIDE DEF e
  <2>6. RowInv(e)
    BY <2>1, <2>2, <2>3 DEF RowInv, Good, Verified, PastGate, SameBody
  <2>7. /\ r \in Run /\ r.phase = "tests" /\ r.snap = e
        /\ r.cancelled = run[t].cancelled
    BY <2>1, <2>3 DEF RunInv, Run
  <2> HIDE DEF r
  <2>8. RunInv(r)
    BY <2>1, <2>3, <2>6, <2>7 DEF RunInv
  <2>9. RowsInv'
    BY <2>4, <2>6, WriteKeeps DEF DocInv, RowInv
  <2>10. RunsInv'
    BY <2>5, <2>8, RunKeeps DEF DocInv
  <2> QED BY <2>4, <2>9, <2>10, Untouched DEF DocInv
<1> QED BY <1>1, <1>2, <1>3

LEMMA TestsPassKeeps ==
  ASSUME DocInv, NEW t \in Tickets, TestsPass(t)
  PROVE  DocInv'
<1> DEFINE snap == run[t].snap
           e == [snap EXCEPT !.outcome = "success"]
           s == Saved(e)
           m == Moved(s, "diff_pending")
<1>1. RowInv(snap) /\ snap \in Row /\ snap.status = "testing"
  BY DEF DocInv, RunsInv, RunInv, RowInv, Good, TestsPass
<1>2. /\ e \in Row /\ e.status = "testing" /\ e.outcome = "success"
      /\ e.abandoned = snap.abandoned /\ e.needsApproval = snap.needsApproval
  BY <1>1 DEF Row
<1>3. Write(t, m) /\ EndRun(t) /\ UNCHANGED <<audit, tries>>
  BY DEF TestsPass
<1> HIDE DEF snap, e
<1>4. ~e.abandoned /\ s = e
  BY <1>1, <1>2 DEF RowInv, Saved
<1>5. CanTransition("testing", "diff_pending")
  BY DEF CanTransition, LegalTransitions
<1>6. m \in Row /\ SameBody(m, e) /\ m.status = "diff_pending"
  <2>1. m = Moved(e, "diff_pending")
    BY <1>4
  <2>2. /\ m \in Row /\ SameBody(m, e)
        /\ m.status = IF ~CanTransition(e.status, "diff_pending") THEN e.status
                      ELSE IF e.abandoned THEN "abandoned" ELSE "diff_pending"
    <3>1. "diff_pending" \in Statuses
      BY DEF Statuses
    <3> HIDE DEF m, s
    <3> QED BY <1>2, <2>1, <3>1, MovedFields
  <2> HIDE DEF m, s
  <2> QED BY <1>2, <1>4, <1>5, <2>2
<1> HIDE DEF m, s
<1>7. Good(m)
  BY <1>1, <1>2, <1>4, <1>6
  DEF RowInv, Good, Verified, PastGate, SameBody
<1>8. RowsInv'
  BY <1>3, <1>7, WriteKeeps DEF DocInv
<1> QED BY <1>3, <1>8, EndRunKeeps, Untouched DEF DocInv

\* What a failure makes of a document in testing.
FailedRow(row, snap) ==
  /\ RowInv(row)
  /\ row.pr = snap.pr /\ row.accepted = snap.accepted
  /\ row.verdict = snap.verdict /\ row.outcome # "success"
  /\ \/ row.status = "blocked"
     \/ /\ row.status = "in_progress"
        /\ \/ /\ snap.attempts + 1 <= RetryBudget
              /\ row.attempts = snap.attempts + 1 /\ row.model = snap.model
           \/ /\ snap.attempts + 1 > RetryBudget /\ snap.model < Models
              /\ row.attempts = 0 /\ row.model = snap.model + 1

LEMMA FailureRow ==
  ASSUME NEW snap, RowInv(snap), snap.status = "testing",
         NEW outcome \in {"test_failed", "error"}, NEW failed, NEW row,
         failed = [snap EXCEPT !.outcome = outcome],
         row = IF HasFallback(failed) THEN NextModel(failed)
                                      ELSE RecordTestFailure(failed)
  PROVE  FailedRow(row, snap)
<1>1. snap \in Row
  BY DEF RowInv, Good
<1>2. /\ failed \in Row /\ failed.status = "testing" /\ failed.attempts = snap.attempts
      /\ failed.model = snap.model /\ failed.pr = snap.pr
      /\ failed.accepted = snap.accepted /\ failed.verdict = snap.verdict
      /\ failed.outcome # "success"
      /\ failed.abandoned = snap.abandoned
      /\ failed.needsApproval = snap.needsApproval
  BY <1>1 DEF Row
<1>3. ~snap.abandoned
  BY DEF RowInv
<1>4. RetryBudget \in Nat /\ Models \in Nat /\ EscalateTo \in Targets
  BY LifecycleAssumption DEF LifecycleAssumption
<1> DEFINE a == failed.attempts + 1
<1>8. a \in Nat /\ failed.model \in 0 .. Models
  BY <1>2 DEF Row, OffChain
<1>5. CASE HasFallback(failed)
  <2> DEFINE k == failed.model + 1
             n == [failed EXCEPT !.status = "in_progress", !.model = k, !.attempts = 0]
  <2>1. /\ failed.attempts + 1 > RetryBudget /\ failed.model < Models
        /\ k \in OffChain .. Models
    BY <1>4, <1>8, <1>5 DEF HasFallback, OffChain
  <2> HIDE DEF k
  <2>2. /\ n \in Row /\ n.status = "in_progress" /\ n.model = k
        /\ n.attempts = 0 /\ n.pr = failed.pr /\ n.accepted = failed.accepted
        /\ n.verdict = failed.verdict /\ n.outcome = failed.outcome
        /\ n.abandoned = failed.abandoned /\ n.needsApproval = failed.needsApproval
    BY ZenonT(40), <1>2, <2>1 DEF Row, Statuses
  <2>3. row = n
    BY <1>5 DEF NextModel, k
  <2> HIDE DEF n
  <2>4. RowInv(n)
    BY <1>2, <1>3, <2>2 DEF RowInv, Good, Verified, PastGate
  <2> QED BY <1>2, <2>1, <2>2, <2>3, <2>4 DEF FailedRow, k
<1>6. CASE ~HasFallback(failed) /\ failed.attempts + 1 <= RetryBudget
  <2> DEFINE n == [failed EXCEPT !.attempts = a, !.status = "in_progress"]
  <2> HIDE DEF a
  <2>1. /\ n \in Row /\ n.status = "in_progress" /\ n.model = failed.model
        /\ n.attempts = a /\ n.pr = failed.pr
        /\ n.accepted = failed.accepted /\ n.verdict = failed.verdict
        /\ n.outcome = failed.outcome
        /\ n.abandoned = failed.abandoned /\ n.needsApproval = failed.needsApproval
    BY ZenonT(40), <1>2, <1>8 DEF Row, Statuses
  <2>2. row = n
    BY <1>6 DEF RecordTestFailure, a
  <2> HIDE DEF n
  <2>3. RowInv(n)
    BY <1>2, <1>3, <2>1 DEF RowInv, Good, Verified, PastGate
  <2> QED BY <1>2, <1>6, <2>1, <2>2, <2>3 DEF FailedRow, a
<1>7. CASE ~HasFallback(failed) /\ ~(failed.attempts + 1 <= RetryBudget)
  <2> DEFINE n == [failed EXCEPT !.attempts = a, !.status = "blocked",
                                 !.escalatedTo = EscalateTo]
  <2> HIDE DEF a
  <2>1. /\ n \in Row /\ n.status = "blocked" /\ n.pr = failed.pr
        /\ n.accepted = failed.accepted /\ n.verdict = failed.verdict
        /\ n.outcome = failed.outcome
        /\ n.abandoned = failed.abandoned
    BY ZenonT(40), <1>2, <1>4, <1>8 DEF Row, Statuses
  <2>2. row = n
    BY <1>7 DEF RecordTestFailure, a
  <2> HIDE DEF n
  <2>3. RowInv(n)
    BY <1>2, <1>3, <2>1 DEF RowInv, Good, Verified, PastGate
  <2> QED BY <1>2, <2>1, <2>2, <2>3 DEF FailedRow
<1> QED BY <1>5, <1>6, <1>7

\* The step of a failing run, with the document it leaves.
LEMMA TestsFailStep ==
  ASSUME DocInv, NEW t \in Tickets, NEW outcome \in {"test_failed", "error"},
         TestsFail(t, outcome)
  PROVE  \E row, r :
           /\ FailedRow(row, run[t].snap)
           /\ RunInv(r)
           /\ Write(t, row) /\ run' = [run EXCEPT ![t] = r]
           /\ r.phase \in {"model", "tests"} =>
                r.phase = "model" /\ r.snap = row /\ row.status = "in_progress"
           /\ r.phase = "escalate" => r.snap = row
           /\ r.phase = "idle" => r = NoRun
           /\ tries' = [tries EXCEPT ![t] = @ + 1]
           /\ UNCHANGED audit
<1> DEFINE snap == run[t].snap
           failed == [snap EXCEPT !.outcome = outcome]
           row == IF HasFallback(failed) THEN NextModel(failed)
                                         ELSE RecordTestFailure(failed)
           r == CASE row.status # "blocked" ->
                       [run[t] EXCEPT !.phase = "model", !.snap = row]
                  [] row.status = "blocked" /\ run[t].auto
                       /\ EscalateTo = "tech_lead" ->
                       [NoRun EXCEPT !.phase = "escalate", !.snap = row]
                  [] OTHER -> NoRun
<1>1. RunInv(run[t]) /\ run[t] \in Run /\ RowInv(snap) /\ snap.status = "testing"
  BY DEF DocInv, RunsInv, RunInv, TestsFail
<1>2. FailedRow(row, snap)
  BY <1>1, FailureRow
<1>3. /\ Write(t, row) /\ run' = [run EXCEPT ![t] = r]
      /\ tries' = [tries EXCEPT ![t] = @ + 1] /\ UNCHANGED audit
  BY <1>1 DEF TestsFail, DocInv, RunsInv
<1>4. row \in Row /\ row.status \in {"in_progress", "blocked"} /\ RowInv(row)
  BY <1>2 DEF FailedRow, RowInv, Good
<1> HIDE DEF row
<1>5. CASE row.status # "blocked"
  <2> DEFINE n == [run[t] EXCEPT !.phase = "model", !.snap = row]
  <2>1. r = n
    BY <1>5
  <2>2. /\ n \in Run /\ n.phase = "model" /\ n.snap = row
        /\ n.cancelled = run[t].cancelled
    BY <1>1, <1>4 DEF Run
  <2> HIDE DEF n
  <2>3. RunInv(n)
    BY <1>1, <1>4, <1>5, <2>2 DEF RunInv
  <2> HIDE DEF r
  <2> QED BY <1>2, <1>3, <1>4, <1>5, <2>1, <2>2, <2>3
<1>6. CASE row.status = "blocked" /\ run[t].auto /\ EscalateTo = "tech_lead"
  <2> DEFINE n == [NoRun EXCEPT !.phase = "escalate", !.snap = row]
  <2>1. r = n
    BY <1>6
  <2>2. /\ n \in Run /\ n.phase = "escalate" /\ n.snap = row /\ ~n.cancelled
    BY <1>4, NothingGood DEF RunInv, Run, NoRun
  <2> HIDE DEF n
  <2>3. RunInv(n)
    BY <1>4, <1>6, <2>2 DEF RunInv
  <2> HIDE DEF r
  <2> QED BY <1>2, <1>3, <2>1, <2>2, <2>3
<1>7. CASE row.status = "blocked" /\ ~(run[t].auto /\ EscalateTo = "tech_lead")
  <2>1. r = NoRun
    BY <1>7
  <2>2. NoRun.phase = "idle"
    BY DEF NoRun
  <2> HIDE DEF r
  <2> QED BY <1>2, <1>3, <2>1, <2>2, NothingGood
<1> QED BY <1>5, <1>6, <1>7

LEMMA TestsFailKeeps ==
  ASSUME DocInv, NEW t \in Tickets, NEW outcome \in {"test_failed", "error"},
         TestsFail(t, outcome)
  PROVE  DocInv'
<1>1. PICK row, r :
        /\ FailedRow(row, run[t].snap)
        /\ RunInv(r)
        /\ Write(t, row) /\ run' = [run EXCEPT ![t] = r]
        /\ tries' = [tries EXCEPT ![t] = @ + 1]
        /\ UNCHANGED audit
  BY TestsFailStep
<1>2. RowsInv'
  BY <1>1, WriteKeeps DEF DocInv, FailedRow, RowInv
<1>3. RunsInv'
  BY <1>1, RunKeeps DEF DocInv
<1>4. tries' \in [Tickets -> Nat]
  BY <1>1 DEF DocInv
<1> QED BY <1>1, <1>2, <1>3, <1>4, Untouched DEF DocInv

\* The run is over and the rows are as they were.
LEMMA OverKeeps ==
  ASSUME DocInv, NEW t \in Tickets, EndRun(t), UNCHANGED <<tickets, audit, tries>>
  PROVE  DocInv'
BY EndRunKeeps, Untouched DEF DocInv

LEMMA CrashKeeps ==
  ASSUME DocInv, Crash
  PROVE  DocInv'
<1>1. RunInv(NoRun) /\ NoRun \in Run /\ AuditInv(NoAudit) /\ NoAudit \in Audit
  BY NothingGood DEF RunInv, AuditInv
<1>2. run' = [t \in Tickets |-> NoRun] /\ audit' = [t \in Tickets |-> NoAudit]
  BY DEF Crash
<1>3. RunsInv'
  BY <1>1, <1>2 DEF RunsInv
<1>4. AuditsInv'
  BY <1>1, <1>2 DEF AuditsInv
<1> QED BY <1>3, <1>4, Untouched DEF DocInv, Crash

LEMMA RecoverKeeps ==
  ASSUME DocInv, NEW t \in Tickets, Recover(t)
  PROVE  DocInv'
<1> DEFINE old == tickets[t]
           e == [old EXCEPT !.status = "in_progress", !.outcome = "pending"]
<1>1. RowInv(old) /\ old \in Row /\ old.status = "testing"
  BY DEF DocInv, RowsInv, Recover
<1>2. /\ e \in Row /\ e.status = "in_progress"
      /\ e.needsApproval = old.needsApproval /\ e.abandoned = old.abandoned
  BY <1>1 DEF Row, Statuses
<1>3. Handle(t, e)
  BY DEF Recover
<1> HIDE DEF e
<1>4. Good(e)
  BY <1>1, <1>2 DEF RowInv, Good, Verified, PastGate
<1>5. RowsInv'
  BY <1>3, <1>4, WriteKeeps DEF DocInv, Handle
<1> QED BY <1>3, <1>5, Untouched DEF DocInv, Handle

-----------------------------------------------------------------------------
(* The audits.                                                              *)

LEMMA StartAuditKeeps ==
  ASSUME DocInv, NEW t \in Tickets, NEW phase \in {"review", "escalation"},
         StartAudit(t, phase),
         tickets[t].status = IF phase = "review" THEN "review" ELSE "blocked"
  PROVE  DocInv'
<1> DEFINE a == [phase |-> phase, snap |-> tickets[t]]
<1>1. RowInv(tickets[t]) /\ tickets[t] \in Row
  BY DEF DocInv, RowsInv
<1>2. AuditInv(a)
  BY <1>1 DEF AuditInv, Audit
<1>3. audit' = [audit EXCEPT ![t] = a] /\ UNCHANGED <<tickets, run, tries>>
  BY DEF StartAudit
<1> HIDE DEF a
<1>4. AuditsInv'
  BY <1>2, <1>3, AuditKeeps DEF DocInv
<1> QED BY <1>3, <1>4, Untouched DEF DocInv

LEMMA EndAuditKeeps ==
  ASSUME AuditsInv, NEW t \in Tickets, EndAudit(t)
  PROVE  AuditsInv'
BY NothingGood, AuditKeeps DEF EndAudit

LEMMA SaveAuditedKeeps ==
  ASSUME DocInv, NEW t \in Tickets, NEW row, Good(row), SaveAudited(t, row)
  PROVE  DocInv'
<1>1. RowsInv'
  BY WriteKeeps DEF DocInv, SaveAudited
<1>2. AuditsInv'
  BY EndAuditKeeps DEF DocInv, SaveAudited
<1>3. tries' \in [Tickets -> Nat]
  BY DEF DocInv, SaveAudited
<1> QED BY <1>1, <1>2, <1>3, Untouched DEF DocInv, SaveAudited

\* What an audit's answer makes of the document it read: good, and not
\* abandoned.
LEMMA FinishReviewSaves ==
  ASSUME DocInv, NEW t \in Tickets, NEW verdict \in {"approved", "rejected"},
         FinishReview(t, verdict)
  PROVE  \E row : /\ Good(row) /\ SaveAudited(t, row)
                  /\ row.outcome = audit[t].snap.outcome
                  /\ row.verdict = verdict /\ row.pr = audit[t].snap.pr
                  /\ row.accepted = audit[t].snap.accepted
                  /\ row.abandoned = audit[t].snap.abandoned
                  /\ row.status = IF verdict = "approved"
                                  THEN "awaiting_acceptance" ELSE "backlog"
<1> DEFINE snap == audit[t].snap
           target == IF verdict = "approved" THEN "awaiting_acceptance"
                                             ELSE "backlog"
           e == [snap EXCEPT !.verdict = verdict]
           m == Moved(Saved(e), target)
<1>1. RowInv(snap) /\ snap \in Row /\ snap.status = "review"
  BY DEF DocInv, AuditsInv, AuditInv, RowInv, Good, FinishReview
<1>2. /\ e \in Row /\ e.status = "review" /\ e.verdict = verdict
      /\ e.outcome = snap.outcome /\ e.pr = snap.pr
      /\ e.accepted = snap.accepted
      /\ e.abandoned = snap.abandoned /\ e.needsApproval = snap.needsApproval
  BY <1>1 DEF Row
<1>3. SaveAudited(t, m)
  BY DEF FinishReview
<1> HIDE DEF snap, e
<1>4. ~e.abandoned /\ Saved(e) = e
  BY <1>1, <1>2 DEF RowInv, Saved
<1>5. target \in Statuses /\ CanTransition("review", target)
  BY DEF CanTransition, LegalTransitions, Statuses
<1>6. m = Moved(e, target)
  BY <1>4
<1> HIDE DEF target, m
<1>7. /\ m \in Row /\ SameBody(m, e)
      /\ m.status = IF ~CanTransition(e.status, target) THEN e.status
                    ELSE IF e.abandoned THEN "abandoned" ELSE target
  BY <1>2, <1>5, <1>6, MovedFields
<1>8. m.status = target
  BY <1>2, <1>4, <1>5, <1>7
<1>9. Good(m)
  BY <1>1, <1>2, <1>4, <1>7, <1>8
  DEF target, RowInv, Good, Verified, PastGate, SameBody
<1> QED BY <1>2, <1>3, <1>7, <1>8, <1>9 DEF SameBody, snap, target

LEMMA FailReviewSaves ==
  ASSUME DocInv, NEW t \in Tickets, FailReview(t)
  PROVE  \E row : /\ Good(row) /\ SaveAudited(t, row)
                  /\ row.status = "review" /\ row.verdict = "pending"
                  /\ row.outcome = audit[t].snap.outcome
                  /\ row.pr = audit[t].snap.pr
                  /\ row.accepted = audit[t].snap.accepted
                  /\ row.abandoned = audit[t].snap.abandoned
<1> DEFINE snap == audit[t].snap
           e == [snap EXCEPT !.verdict = "pending"]
<1>1. RowInv(snap) /\ snap \in Row /\ snap.status = "review"
  BY DEF DocInv, AuditsInv, AuditInv, RowInv, Good, FailReview
<1>2. /\ e \in Row /\ e.status = "review" /\ e.verdict = "pending"
      /\ e.outcome = snap.outcome /\ e.pr = snap.pr
      /\ e.accepted = snap.accepted
      /\ e.abandoned = snap.abandoned /\ e.needsApproval = snap.needsApproval
  BY <1>1 DEF Row
<1>3. SaveAudited(t, e)
  BY DEF FailReview
<1> HIDE DEF snap, e
<1>4. Good(e)
  BY <1>1, <1>2 DEF RowInv, Good, Verified, PastGate
<1> QED BY <1>2, <1>3, <1>4 DEF snap

LEMMA HandledGood ==
  ASSUME NEW snap, RowInv(snap), snap.status = "blocked",
         NEW verdict \in {"approved", "rejected"}
  PROVE  /\ Good(Handled(snap, verdict))
         /\ Handled(snap, verdict).status = "blocked"
         /\ Handled(snap, verdict).outcome = snap.outcome
         /\ Handled(snap, verdict).pr = snap.pr
         /\ Handled(snap, verdict).accepted = snap.accepted
         /\ Handled(snap, verdict).abandoned = snap.abandoned
<1> DEFINE e == Handled(snap, verdict)
<1>1. snap \in Row
  BY DEF RowInv, Good
<1>2. /\ e \in Row /\ e.status = "blocked" /\ e.outcome = snap.outcome
      /\ e.pr = snap.pr /\ e.accepted = snap.accepted
      /\ e.abandoned = snap.abandoned
  BY <1>1 DEF Handled, Row
<1> HIDE DEF e
<1>3. Good(e)
  BY <1>2 DEF RowInv, Good, Verified, PastGate
<1> QED BY <1>2, <1>3 DEF e

LEMMA FinishEscalationSaves ==
  ASSUME DocInv, NEW t \in Tickets, NEW verdict \in {"approved", "rejected"},
         FinishEscalation(t, verdict)
  PROVE  \E row : /\ Good(row) /\ SaveAudited(t, row)
                  /\ row.status = "blocked"
                  /\ row.outcome = audit[t].snap.outcome
                  /\ row.pr = audit[t].snap.pr
                  /\ row.accepted = audit[t].snap.accepted
                  /\ row.abandoned = audit[t].snap.abandoned
<1>1. RowInv(audit[t].snap) /\ audit[t].snap.status = "blocked"
  BY DEF DocInv, AuditsInv, AuditInv, FinishEscalation
<1> QED BY <1>1, HandledGood DEF FinishEscalation

LEMMA FinishRunEscalationKeeps ==
  ASSUME DocInv, NEW t \in Tickets, NEW verdict \in {"approved", "rejected"},
         FinishRunEscalation(t, verdict)
  PROVE  DocInv'
<1>1. RowInv(run[t].snap) /\ run[t].snap.status = "blocked"
  BY DEF DocInv, RunsInv, RunInv, FinishRunEscalation
<1>2. RowsInv'
  BY <1>1, HandledGood, WriteKeeps DEF DocInv, FinishRunEscalation
<1>3. RunsInv'
  BY EndRunKeeps DEF DocInv, FinishRunEscalation
<1> QED BY <1>2, <1>3, Untouched DEF DocInv, FinishRunEscalation

LEMMA AuditOverKeeps ==
  ASSUME DocInv, NEW t \in Tickets, EndAudit(t), UNCHANGED <<tickets, run, tries>>
  PROVE  DocInv'
BY EndAuditKeeps, Untouched DEF DocInv

-----------------------------------------------------------------------------
LEMMA PoStepKeeps ==
  ASSUME DocInv, NEW t \in Tickets, PoStep(t)
  PROVE  DocInv'
<1>1. CASE Approve(t) \/ Accept(t) \/ Reject(t) \/ Abandon(t)
  BY <1>1, EditsKeep, ApproveEdits, AcceptEdits, RejectEdits, AbandonEdits
<1>2. CASE Retry(t) \/ Rerun(t) \/ RejectDiff(t)
  BY <1>2, RestartsKeep, RetryRestarts, RerunRestarts, RejectDiffRestarts
<1>3. CASE Split(t) \/ Cancel(t) \/ Execute(t)
  BY <1>3, SplitKeeps, CancelKeeps, ExecuteKeeps
<1>4. CASE \E m \in GivenModels : AssignModel(t, m)
  BY <1>4, AssignModelRestarts, RestartsKeep
<1>5. CASE \E target \in Targets : Escalate(t, target)
  BY <1>5, EscalateEdits, EditsKeep
<1>6. CASE \E target \in Statuses : MoveTicket(t, target)
  BY <1>6, MoveTicketEdits, EditsKeep
<1>7. CASE \E force \in BOOLEAN : Delete(t, force)
  BY <1>7, DeleteKeeps
<1>8. CASE \E m \in GivenModels : CreateTicket(t, m)
  BY <1>8, CreateKeeps
<1> QED BY <1>1, <1>2, <1>3, <1>4, <1>5, <1>6, <1>7, <1>8 DEF PoStep

\* The document a git command read is saved.
LEMMA CommandKeeps ==
  ASSUME DocInv, NEW t \in Tickets, NEW row, Good(row), SaveCommanded(t, row)
  PROVE  DocInv'
<1>1. RowsInv'
  BY WriteKeeps DEF DocInv, SaveCommanded
<1>2. tries' \in [Tickets -> Nat]
  BY DEF DocInv, SaveCommanded
<1> QED BY <1>1, <1>2, Untouched DEF DocInv, SaveCommanded

\* What a request leaves in flight.
LEMMA CommandChanges ==
  ASSUME AskInv, NEW t \in Tickets, NEW c, CommandInv(c),
         command' = [command EXCEPT ![t] = c], UNCHANGED pull
  PROVE  AskInv'
<1>1. c \in Command
  BY DEF CommandInv
<1>2. command' \in [Tickets -> Command]
  BY <1>1 DEF AskInv
<1>3. ASSUME NEW u \in Tickets PROVE CommandInv(command'[u])
  <2>1. CASE u = t
    BY <2>1 DEF AskInv
  <2>2. CASE u # t
    BY <2>2 DEF AskInv
  <2> QED BY <2>1, <2>2
<1> QED BY <1>2, <1>3 DEF AskInv

LEMMA PullChanges ==
  ASSUME AskInv, NEW t \in Tickets, NEW q \in Pull,
         pull' = [pull EXCEPT ![t] = q], UNCHANGED command
  PROVE  AskInv'
BY DEF AskInv

LEMMA BeginKeeps ==
  ASSUME DocInv, AskInv, NEW t \in Tickets,
         ApproveDiff(t) \/ Merge(t) \/ Revert(t)
  PROVE  DocInv' /\ AskInv'
<1>1. PICK op \in {"diff_approve", "merge", "revert"} :
        /\ Begin(op, t)
        /\ op = "diff_approve" => tickets[t].status = "diff_pending"
  BY DEF ApproveDiff, Merge, Revert
<1> DEFINE c == [op |-> op, snap |-> tickets[t]]
<1>2. RowInv(tickets[t]) /\ tickets[t] \in Row /\ op \in PoOps /\ Exists(t)
  BY <1>1 DEF DocInv, RowsInv, Begin, Asks
<1>3. CommandInv(c)
  BY <1>1, <1>2 DEF CommandInv, Command, Exists
<1>4. /\ command' = [command EXCEPT ![t] = c]
      /\ UNCHANGED <<tickets, run, audit, tries, pull>>
  BY <1>1 DEF Begin
<1> HIDE DEF c
<1>5. AskInv'
  BY <1>3, <1>4, CommandChanges
<1> QED BY <1>4, <1>5, Untouched DEF DocInv

LEMMA CommandEnds ==
  ASSUME DocInv, AskInv, NEW t \in Tickets,
         \/ DiffApproved(t) \/ BranchMerged(t) \/ MergeReverted(t) \/ CommandFails(t)
  PROVE  DocInv' /\ AskInv'
<1>1. CommandInv(NoCommand)
  BY NothingGood
<1>2. CASE CommandFails(t)
  BY <1>1, <1>2, CommandChanges, Untouched DEF CommandFails, DocInv
<1>3. CASE DiffApproved(t) \/ BranchMerged(t) \/ MergeReverted(t)
  <2>1. PICK row : MadeOf(row, command[t].snap) /\ SaveCommanded(t, row)
    BY <1>3, CommandSaves
  <2>2. DocInv'
    BY <2>1, CommandKeeps DEF MadeOf
  <2>3. AskInv'
    BY <1>1, <2>1, CommandChanges DEF SaveCommanded
  <2> QED BY <2>2, <2>3
<1> QED BY <1>2, <1>3

\* The request that pushes: a document read, a result stored, or nothing.
LEMMA PullKeeps ==
  ASSUME DocInv, AskInv, NEW t \in Tickets,
         \/ OpenPr(t) \/ AcceptByPr(t) \/ StorePr(t) \/ AcceptStored(t) \/ PullFails(t)
  PROVE  DocInv' /\ AskInv'
<1>1. NoPull \in Pull
  BY NothingGood DEF NoPull, Pull, RowInv, Good
<1>2. tickets[t] \in Row /\ pull[t] \in Pull
  BY DEF DocInv, RowsInv, AskInv
<1>3. CASE OpenPr(t) \/ AcceptByPr(t)
  <2>1. PICK accepts \in BOOLEAN : Push(t, accepts)
    BY <1>3 DEF OpenPr, AcceptByPr
  <2> DEFINE q == [phase |-> "pushed", accepts |-> accepts, snap |-> tickets[t]]
  <2>2. q \in Pull
    BY <1>2 DEF Pull
  <2>3. /\ pull' = [pull EXCEPT ![t] = q]
        /\ UNCHANGED <<tickets, run, audit, tries, command>>
    BY <2>1 DEF Push
  <2> HIDE DEF q
  <2>4. AskInv'
    BY <2>2, <2>3, PullChanges
  <2> QED BY <2>3, <2>4, Untouched DEF DocInv
<1>4. CASE StorePr(t)
  <2> DEFINE stored == [pull[t] EXCEPT !.phase = "stored"]
             q == IF pull[t].accepts THEN stored ELSE NoPull
  <2>1. stored \in Pull
    BY <1>2 DEF Pull
  <2> HIDE DEF stored
  <2>2. q \in Pull
    BY <1>1, <2>1
  <2>3. pull' = [pull EXCEPT ![t] = q] /\ UNCHANGED command
    BY <1>4 DEF StorePr, AskInv, stored
  <2> HIDE DEF q
  <2>4. AskInv'
    BY <2>2, <2>3, PullChanges
  <2> QED BY <1>4, <2>4, StorePrEdits, EditsKeep
<1>5. CASE AcceptStored(t)
  <2>1. AskInv'
    BY <1>1, <1>5, PullChanges DEF AcceptStored
  <2> QED BY <1>5, <2>1, AcceptEdits, EditsKeep
<1>6. CASE PullFails(t)
  BY <1>1, <1>6, PullChanges, Untouched DEF PullFails, DocInv
<1> QED BY <1>3, <1>4, <1>5, <1>6

LEMMA RequestKeeps ==
  ASSUME DocInv, AskInv, NEW t \in Tickets, RequestStep(t)
  PROVE  DocInv' /\ AskInv'
BY BeginKeeps, CommandEnds, PullKeeps DEF RequestStep

LEMMA RunStepKeeps ==
  ASSUME DocInv, NEW t \in Tickets,
         \/ Dispatch(t) \/ RecordUsage(t) \/ RunStep(t) \/ RunError(t) \/ Recover(t)
  PROVE  DocInv'
<1>1. CASE Dispatch(t) \/ RecordUsage(t) \/ Recover(t)
  BY <1>1, DispatchKeeps, RecordUsageKeeps, RecoverKeeps
<1>2. CASE RunError(t)
  BY <1>2, OverKeeps DEF RunError
<1>3. CASE RunStep(t)
  <2>1. CASE ObserveCancel(t)
    BY <2>1, CancelledKeeps DEF ObserveCancel
  <2>2. CASE BeginTests(t) \/ TestsPass(t)
    BY <2>2, BeginTestsKeeps, TestsPassKeeps
  <2>3. CASE RunOfDeleted(t)
    BY <2>3, OverKeeps DEF RunOfDeleted
  <2>4. CASE \E outcome \in {"test_failed", "error"} : TestsFail(t, outcome)
    BY <2>4, TestsFailKeeps
  <2>5. CASE \E verdict \in {"approved", "rejected"} : FinishRunEscalation(t, verdict)
    BY <2>5, FinishRunEscalationKeeps
  <2> QED BY <1>3, <2>1, <2>2, <2>3, <2>4, <2>5 DEF RunStep
<1> QED BY <1>1, <1>2, <1>3

\* Every step of an audit starts one, saves its document, or drops it.
LEMMA AuditStepKeeps ==
  ASSUME DocInv, NEW t \in Tickets,
         \/ StartReview(t) \/ StartEscalation(t) \/ AuditStep(t)
         \/ FailReview(t) \/ FailEscalation(t)
  PROVE  DocInv'
<1>1. CASE StartReview(t)
  BY <1>1, StartAuditKeeps DEF StartReview
<1>2. CASE StartEscalation(t)
  BY <1>2, StartAuditKeeps DEF StartEscalation
<1>3. CASE AuditStep(t)
  <2>1. CASE \E verdict \in {"approved", "rejected"} : FinishReview(t, verdict)
    BY <2>1, FinishReviewSaves, SaveAuditedKeeps
  <2>2. CASE \E verdict \in {"approved", "rejected"} : FinishEscalation(t, verdict)
    BY <2>2, FinishEscalationSaves, SaveAuditedKeeps
  <2>3. CASE AuditOfDeleted(t)
    BY <2>3, AuditOverKeeps DEF AuditOfDeleted
  <2> QED BY <1>3, <2>1, <2>2, <2>3 DEF AuditStep
<1>4. CASE FailReview(t)
  BY <1>4, FailReviewSaves, SaveAuditedKeeps
<1>5. CASE FailEscalation(t)
  BY <1>5, OverKeeps, AuditOverKeeps DEF FailEscalation
<1> QED BY <1>1, <1>2, <1>3, <1>4, <1>5

LEMMA DocInit ==
  ASSUME Init
  PROVE  DocInv /\ AskInv
<1>1. /\ NoRow \in Row /\ NoRun \in Run /\ NoAudit \in Audit
      /\ NoCommand \in Command /\ NoPull \in Pull
      /\ RowInv(NoRow) /\ RunInv(NoRun) /\ AuditInv(NoAudit)
      /\ CommandInv(NoCommand)
  BY NothingGood DEF RowInv, Good, RunInv, AuditInv, CommandInv, NoPull, Pull
<1>2. RowsInv
  BY <1>1 DEF RowsInv, Init
<1>3. RunsInv
  BY <1>1 DEF RunsInv, Init
<1>4. AuditsInv
  BY <1>1 DEF AuditsInv, Init
<1>5. AskInv
  BY <1>1 DEF AskInv, Init
<1> QED BY <1>2, <1>3, <1>4, <1>5 DEF DocInv, Init

LEMMA DocStep ==
  ASSUME DocInv, AskInv, [Next]_vars
  PROVE  DocInv' /\ AskInv'
<1>0. UNCHANGED requests => AskInv'
  BY DEF requests, AskInv
<1>1. CASE Crash
  <2>1. CommandInv(NoCommand) /\ NoCommand \in Command /\ NoPull \in Pull
    BY NothingGood DEF CommandInv, NoPull, Pull, RowInv, Good
  <2>2. AskInv'
    BY <1>1, <2>1 DEF Crash, AskInv
  <2> QED BY <1>1, <2>2, CrashKeeps
<1>2. CASE UNCHANGED vars
  BY <1>0, <1>2, Untouched DEF vars, DocInv
<1>3. ASSUME NEW t \in Tickets, PoStep(t)
      PROVE  DocInv'
  BY <1>3, PoStepKeeps
<1>4. ASSUME NEW t \in Tickets,
             \/ Dispatch(t) \/ RecordUsage(t) \/ RunStep(t) \/ RunError(t)
             \/ Recover(t)
      PROVE  DocInv'
  BY <1>4, RunStepKeeps
<1>5. ASSUME NEW t \in Tickets,
             \/ StartReview(t) \/ StartEscalation(t) \/ AuditStep(t)
             \/ FailReview(t) \/ FailEscalation(t)
      PROVE  DocInv'
  BY <1>5, AuditStepKeeps
<1>6. ASSUME NEW t \in Tickets, RequestStep(t)
      PROVE  DocInv' /\ AskInv'
  BY <1>6, RequestKeeps
<1> QED BY <1>0, <1>1, <1>2, <1>3, <1>4, <1>5, <1>6 DEF Next

LEMMA DocAlways == Spec => [](DocInv /\ AskInv)
BY DocInit, DocStep, PTL DEF Spec

-----------------------------------------------------------------------------
(* What follows from the documents alone.                                   *)

\* The lifecycle is type correct, whatever endpoints are used.
THEOREM TypeCorrect == Spec => []TypeOK
<1>1. DocInv /\ AskInv => TypeOK
  BY DEF DocInv, RowsInv, RunsInv, AuditsInv, AskInv, TypeOK
<1> QED BY <1>1, DocAlways, PTL

\* Nothing reaches a human unverified: without move and revert, whatever copies
\* executions and audits save, in whatever order.
THEOREM VerifiedFirst ==
  ASSUME StatusEarned
  PROVE  Spec => []VerifiedBeforeReview
<1>1. DocInv => VerifiedBeforeReview
  <2> SUFFICES ASSUME DocInv, NEW t \in Tickets
               PROVE  Verified(tickets[t])
    BY DEF VerifiedBeforeReview, Verified
  <2>1. RowInv(tickets[t])
    BY DEF DocInv, RowsInv
  <2>2. CASE tickets[t].abandoned
    BY <2>1, <2>2 DEF RowInv, Verified
  <2>3. CASE ~tickets[t].abandoned
    BY <2>1, <2>3 DEF RowInv, Good
  <2> QED BY <2>2, <2>3
<1> QED BY <1>1, DocAlways, PTL

-----------------------------------------------------------------------------
(* An abandoned ticket.                                                     *)

StaysAbandoned(u) ==
  tickets[u].status = "abandoned" => tickets'[u].status = "abandoned"

\* No document made of the row forgets that it was abandoned.
LEMMA MadeStays ==
  ASSUME DocInv, NEW t \in Tickets, NEW u \in Tickets, NEW row, NEW old,
         MadeOf(row, old), Write(t, row), tickets[t].abandoned => old.abandoned
  PROVE  StaysAbandoned(u)
<1>1. tickets \in [Tickets -> Row] /\ RowInv(tickets[u])
  BY DEF DocInv, RowsInv
<1>2. tickets' = [tickets EXCEPT ![t] = Saved(row)]
  BY DEF Write
<1>3. row \in Row /\ (tickets[t].abandoned => row.abandoned)
  BY DEF MadeOf, Good
<1>4. row.abandoned => Saved(row).status = "abandoned"
  BY <1>3, SavedFields
<1>5. CASE u = t
  BY <1>1, <1>2, <1>3, <1>4, <1>5 DEF StaysAbandoned, RowInv, Good
<1>6. CASE u # t
  BY <1>1, <1>2, <1>6 DEF StaysAbandoned
<1> QED BY <1>5, <1>6

\* What a handler leaves of the rows of other tickets.
LEMMA WriteOther ==
  ASSUME DocInv, NEW t \in Tickets, NEW u \in Tickets, u # t, NEW row, Write(t, row)
  PROVE  tickets'[u] = tickets[u]
BY DEF Write, DocInv, RowsInv

LEMMA PoStays ==
  ASSUME DocInv, NEW t \in Tickets, PoStep(t), NEW u \in Tickets
  PROVE  StaysAbandoned(u) \/ tickets'[u].status = "absent"
<1>1. CASE Edits(t)
  BY <1>1, MadeStays DEF Edits, Handle
<1>2. CASE Restarts(t)
  BY <1>2, MadeStays DEF Restarts, Restart
<1>3. CASE UNCHANGED tickets
  BY <1>3 DEF StaysAbandoned
<1>4. CASE \E m \in GivenModels : CreateTicket(t, m)
  <2>1. CASE u = t
    BY <1>4, <2>1 DEF CreateTicket, Exists, StaysAbandoned
  <2>2. CASE u # t
    BY <1>4, <2>2, WriteOther DEF CreateTicket, Handle, StaysAbandoned
  <2> QED BY <2>1, <2>2
<1>5. CASE Execute(t)
  <2>1. CASE u = t
    BY <1>5, <2>1 DEF Execute, StaysAbandoned
  <2>2. CASE u # t
    BY <1>5, <2>2, WriteOther DEF Execute, StartRun, StaysAbandoned
  <2> QED BY <2>1, <2>2
<1>6. CASE Split(t)
  <2>1. PICK children \in SUBSET {c \in Tickets : ~Exists(c)} :
          tickets' = [c \in Tickets |->
            CASE c \in children -> [tickets[t] EXCEPT
                   !.status = "backlog", !.needsApproval = TRUE,
                   !.outcome = "pending", !.verdict = "pending"]
              [] c = t -> [tickets[t] EXCEPT !.status = "split",
                                             !.needsApproval = FALSE]
              [] OTHER -> tickets[c]]
    BY <1>6 DEF Split
  <2>2. tickets[t].status # "abandoned"
    BY <1>6 DEF Split, Terminal
  <2>3. \A c \in children : tickets[c].status # "abandoned"
    BY DEF Exists
  <2>4. u \notin children /\ u # t => tickets'[u] = tickets[u]
    BY <2>1
  <2> QED BY <2>2, <2>3, <2>4 DEF StaysAbandoned
<1>7. CASE \E force \in BOOLEAN : Delete(t, force)
  <2>1. Write(t, NoRow) /\ tickets \in [Tickets -> Row]
    BY <1>7 DEF Delete, Handle, DocInv, RowsInv
  <2>2. Saved(NoRow).status = "absent"
    BY DEF Saved, NoRow
  <2>3. CASE u = t
    BY <2>1, <2>2, <2>3 DEF Write
  <2>4. CASE u # t
    BY <2>1, <2>4, WriteOther DEF StaysAbandoned
  <2> QED BY <2>3, <2>4
<1>8. CASE Cancel(t)
  <2>1. CASE Registered(t)
    BY <1>3, <1>8, <2>1 DEF Cancel
  <2>2. CASE ~Registered(t)
    BY <1>2, <1>8, <2>2, CancelRestarts
  <2> QED BY <2>1, <2>2
<1>9. CASE \/ Approve(t) \/ Accept(t) \/ Reject(t) \/ Abandon(t)
           \/ \E target \in Targets : Escalate(t, target)
           \/ \E target \in Statuses : MoveTicket(t, target)
  BY <1>1, <1>9, ApproveEdits, AcceptEdits, RejectEdits, AbandonEdits,
     EscalateEdits, MoveTicketEdits
<1>10. CASE \/ Retry(t) \/ Rerun(t) \/ RejectDiff(t)
            \/ \E m \in GivenModels : AssignModel(t, m)
  BY <1>2, <1>10, RetryRestarts, RerunRestarts, RejectDiffRestarts,
     AssignModelRestarts
<1> QED BY <1>4, <1>5, <1>6, <1>7, <1>8, <1>9, <1>10 DEF PoStep

\* A request changes the row it is about, or none.
LEMMA RequestStays ==
  ASSUME DocInv, AskInv, NEW t \in Tickets, RequestStep(t), NEW u \in Tickets,
         command[u].op = "none" \/ command[u].snap.abandoned
  PROVE  StaysAbandoned(u)
<1>1. CASE UNCHANGED tickets
  BY <1>1 DEF StaysAbandoned
<1>2. CASE StorePr(t) \/ AcceptStored(t)
  <2>1. Edits(t)
    BY <1>2, StorePrEdits, AcceptEdits
  <2> QED BY <2>1, MadeStays DEF Edits, Handle
<1>3. CASE DiffApproved(t) \/ BranchMerged(t) \/ MergeReverted(t)
  <2>1. PICK row : MadeOf(row, command[t].snap) /\ SaveCommanded(t, row)
    BY <1>3, CommandSaves
  <2>2. CASE u = t
    <3>1. command[t].snap.abandoned
      BY <1>3, <2>2 DEF DiffApproved, BranchMerged, MergeReverted
    <3> QED BY <2>1, <3>1, MadeStays DEF SaveCommanded
  <2>3. CASE u # t
    BY <2>1, <2>3, WriteOther DEF SaveCommanded, StaysAbandoned
  <2> QED BY <2>2, <2>3
<1> QED BY <1>1, <1>2, <1>3
    DEF RequestStep, ApproveDiff, Merge, Revert, Begin, CommandFails, OpenPr,
        AcceptByPr, Push, PullFails

\* Of the others, only those that hold a copy of the ticket write it.
LEMMA QuietStays ==
  ASSUME DocInv, AskInv, [Next]_vars, NEW u \in Tickets,
         run[u].phase = "idle", audit[u].phase = "idle",
         command[u].op = "none" \/ command[u].snap.abandoned
  PROVE  StaysAbandoned(u) \/ tickets'[u].status = "absent"
<1>1. CASE UNCHANGED tickets
  BY <1>1 DEF StaysAbandoned
<1>2. ASSUME NEW t \in Tickets, PoStep(t)
      PROVE  StaysAbandoned(u) \/ tickets'[u].status = "absent"
  BY <1>2, PoStays
<1>3. ASSUME NEW t \in Tickets, Dispatch(t) \/ RecordUsage(t) \/ Recover(t)
      PROVE  StaysAbandoned(u)
  <2>1. CASE u = t
    BY <1>3, <2>1 DEF Dispatch, RecordUsage, Recover, StaysAbandoned
  <2>2. CASE u # t
    BY <1>3, <2>2, WriteOther
    DEF Dispatch, StartRun, RecordUsage, Recover, Handle, StaysAbandoned
  <2> QED BY <2>1, <2>2
<1>4. ASSUME NEW t \in Tickets, RunStep(t)
      PROVE  StaysAbandoned(u)
  <2>1. CASE UNCHANGED tickets
    BY <2>1 DEF StaysAbandoned
  <2>2. CASE \E row : Write(t, row)
    <3>1. CASE u = t
      BY <1>4, <3>1 DEF RunStep, ObserveCancel, BeginTests, RunOfDeleted,
                        TestsPass, TestsFail, FinishRunEscalation
    <3>2. CASE u # t
      BY <2>2, <3>2, WriteOther DEF StaysAbandoned
    <3> QED BY <3>1, <3>2
  <2> QED BY <1>4, <2>1, <2>2 DEF RunStep, ObserveCancel, BeginTests, Cancelled,
        RunOfDeleted, TestsPass, TestsFail, FinishRunEscalation
<1>5. ASSUME NEW t \in Tickets, AuditStep(t) \/ FailReview(t)
      PROVE  StaysAbandoned(u)
  <2>1. CASE UNCHANGED tickets
    BY <2>1 DEF StaysAbandoned
  <2>2. CASE \E row : Write(t, row)
    <3>1. CASE u = t
      BY <1>5, <3>1 DEF AuditStep, FinishReview, FinishEscalation,
                        AuditOfDeleted, FailReview
    <3>2. CASE u # t
      BY <2>2, <3>2, WriteOther DEF StaysAbandoned
    <3> QED BY <3>1, <3>2
  <2> QED BY <1>5, <2>1, <2>2 DEF AuditStep, FinishReview, FinishEscalation,
        AuditOfDeleted, FailReview, SaveAudited
<1>6. CASE UNCHANGED vars
  BY <1>1, <1>6 DEF vars
<1>7. CASE Crash
  BY <1>1, <1>7 DEF Crash
<1>8. ASSUME NEW t \in Tickets,
             \/ RunError(t) \/ StartReview(t) \/ StartEscalation(t)
             \/ FailEscalation(t)
      PROVE  StaysAbandoned(u)
  BY <1>8
  DEF RunError, StartReview, StartEscalation, StartAudit, FailEscalation, StaysAbandoned
<1>9. ASSUME NEW t \in Tickets, RequestStep(t)
      PROVE  StaysAbandoned(u)
  BY <1>9, RequestStays
<1> QED BY <1>2, <1>3, <1>4, <1>5, <1>6, <1>7, <1>8, <1>9 DEF Next

\* Only a copy that was read before a ticket was abandoned brings it back,
\* whatever endpoints are used.
THEOREM AbandonedStays == Spec => AbandonedUnlessStaleSave
<1>1. ASSUME DocInv, AskInv, [Next]_vars, NEW t \in Tickets,
             tickets[t].status = "abandoned",
             tickets'[t].status \notin {"abandoned", "absent"}
      PROVE  \/ run[t].phase # "idle" \/ audit[t].phase # "idle"
             \/ command[t].op # "none" /\ ~command[t].snap.abandoned
  BY <1>1, QuietStays DEF StaysAbandoned
<1>2. DocInv /\ AskInv /\ [Next]_vars =>
        [\A t \in Tickets :
           (tickets[t].status = "abandoned"
              /\ tickets'[t].status \notin {"abandoned", "absent"}) =>
           \/ run[t].phase # "idle" \/ audit[t].phase # "idle"
           \/ command[t].op # "none" /\ ~command[t].snap.abandoned]_vars
  BY <1>1
<1> QED BY <1>2, DocAlways, PTL DEF Spec, AbandonedUnlessStaleSave

-----------------------------------------------------------------------------
(* The first gate.                                                          *)

\* Only the start of an execution registers one.
LEMMA OnlyStartsRegister ==
  ASSUME DocInv, [Next]_vars, NEW u \in Tickets, ~Registered(u), Registered(u)'
  PROVE  Dispatch(u) \/ Execute(u)
<1>1. run \in [Tickets -> Run]
  BY DEF DocInv, RunsInv
<1>2. NoRun.phase = "idle"
  BY DEF NoRun
<1>3. ASSUME NEW t \in Tickets,
             \/ EndRun(t) \/ UNCHANGED run
             \/ run' = [run EXCEPT ![t].cancelled = TRUE]
      PROVE  FALSE
  <2>1. CASE UNCHANGED run
    BY <2>1 DEF Registered
  <2>2. CASE EndRun(t)
    BY <1>1, <1>2, <2>2 DEF EndRun, Registered
  <2>3. CASE run' = [run EXCEPT ![t].cancelled = TRUE]
    <3>1. run'[u].phase = run[u].phase
      BY <1>1, <2>3 DEF Run
    <3> QED BY <3>1 DEF Registered
  <2> QED BY <1>3, <2>1, <2>2, <2>3
<1>4. CASE UNCHANGED run
  BY <1>4 DEF Registered
<1>5. CASE Crash
  BY <1>2, <1>5 DEF Crash, Registered
<1>6. ASSUME NEW t \in Tickets, Dispatch(t) \/ Execute(t)
      PROVE  t = u
  <2>1. CASE t # u
    BY <1>1, <1>6, <2>1 DEF Dispatch, Execute, StartRun, Registered
  <2> QED BY <2>1
<1>7. ASSUME NEW t \in Tickets, PoStep(t), ~Execute(t)
      PROVE  FALSE
  BY <1>3, <1>7
  DEF PoStep, CreateTicket, Approve, Accept, Reject, Split, Abandon, Retry, Rerun,
      Cancel, RejectDiff, AssignModel, Escalate, MoveTicket, Delete, Handle, Restart
<1>8. ASSUME NEW t \in Tickets, RunStep(t)
      PROVE  FALSE
  <2>1. CASE run[t].phase \in {"model", "tests"}
    <3>1. CASE t = u
      BY <2>1, <3>1 DEF Registered
    <3>2. CASE t # u
      <4>1. run'[u] = run[u]
        BY <1>1, <1>8, <3>2 DEF RunStep, ObserveCancel, BeginTests, Cancelled,
           RunOfDeleted, TestsPass, TestsFail, FinishRunEscalation, EndRun
      <4> QED BY <4>1 DEF Registered
    <3> QED BY <3>1, <3>2
  <2>2. CASE run[t].phase \notin {"model", "tests"}
    <3>1. EndRun(t)
      BY <1>8, <2>2 DEF RunStep, ObserveCancel, BeginTests, RunOfDeleted, TestsPass,
         TestsFail, FinishRunEscalation
    <3> QED BY <1>3, <3>1
  <2> QED BY <2>1, <2>2
<1>9. ASSUME NEW t \in Tickets,
             \/ RecordUsage(t) \/ RunError(t) \/ Recover(t) \/ StartReview(t)
             \/ StartEscalation(t) \/ AuditStep(t) \/ FailReview(t)
             \/ FailEscalation(t)
      PROVE  FALSE
  BY <1>3, <1>9
  DEF RecordUsage, RunError, Recover, StartReview, StartEscalation, StartAudit,
      AuditStep, FinishReview, FinishEscalation, AuditOfDeleted, FailReview,
      FailEscalation, SaveAudited, Handle
<1>10. ASSUME NEW t \in Tickets, RequestStep(t)
       PROVE  UNCHANGED run
  BY <1>10
  DEF RequestStep, ApproveDiff, Merge, Revert, Begin, DiffApproved, BranchMerged,
      MergeReverted, SaveCommanded, CommandFails, OpenPr, AcceptByPr, Push, StorePr,
      AcceptStored, PullFails, Handle
<1> QED BY <1>4, <1>5, <1>6, <1>7, <1>8, <1>9, <1>10 DEF Next, vars

\* No code runs for a ticket that awaits approval, as long as none of the
\* endpoints is used that get a ticket around the gate.
THEOREM GateOne ==
  ASSUME GateKept
  PROVE  Spec => NoRunBeforeApproval
<1>1. ASSUME DocInv, [Next]_vars, NEW t \in Tickets, ~Registered(t), Registered(t)'
      PROVE  ~tickets[t].needsApproval
  <2>1. RowInv(tickets[t])
    BY <1>1 DEF DocInv, RowsInv
  <2>2. Dispatch(t)
    BY <1>1, OnlyStartsRegister DEF Execute, Asks, GateKept
  <2>3. tickets[t].status \in {"ready", "in_progress"}
    BY <2>2 DEF Dispatch
  <2>4. ~tickets[t].abandoned
    BY <2>1, <2>3 DEF RowInv
  <2> QED BY <2>1, <2>3, <2>4 DEF RowInv, Good, PastGate
<1>2. DocInv /\ [Next]_vars =>
        [\A t \in Tickets :
           (~Registered(t) /\ Registered(t)') => ~tickets[t].needsApproval]_vars
  BY <1>1
<1> QED BY <1>2, DocAlways, PTL DEF Spec, NoRunBeforeApproval

-----------------------------------------------------------------------------
(* The budget.                                                              *)

Allowance == (RetryBudget + 1) * (Models + 1)

\* The failures a document stands for: a full budget for the model outside the
\* chain and for every model of the chain before its own, and its attempts, of
\* which those beyond the budget do not count.
Spent(row) ==
  row.model * (RetryBudget + 1)
    + (IF row.attempts < RetryBudget THEN row.attempts ELSE RetryBudget)

\* What a run has tried is on its document, and on the row it will read again,
\* unless that row is one it cannot go on with.
Accounted(row, r, n) ==
  /\ n <= Allowance
  /\ r.phase \in {"model", "tests"} =>
       /\ n <= Spent(r.snap)
       /\ r.phase = "model" =>
            \/ n <= Spent(row)
            \/ "move" \notin PoOps /\ row.status # "in_progress"
       /\ "delete" \notin PoOps => row.status # "absent"

TriesInv == \A t \in Tickets : Accounted(tickets[t], run[t], tries[t])

LEMMA ProductGrows ==
  ASSUME NEW a \in Nat, NEW b \in Nat
  PROVE  a * b \in Nat
OBVIOUS

LEMMA SpentBound ==
  ASSUME NEW row \in Row
  PROVE  /\ Spent(row) \in Nat
         /\ Spent(row) + 1 <= Allowance
<1> DEFINE a == row.model
           b == RetryBudget + 1
           c == Models - row.model
           d == IF row.attempts < RetryBudget THEN row.attempts ELSE RetryBudget
<1>1. RetryBudget \in Nat /\ Models \in Nat \ {0}
  BY LifecycleAssumption DEF LifecycleAssumption
<1>2. row.model \in 0 .. Models /\ row.attempts \in Nat
  BY DEF Row, OffChain
<1>3. a \in Nat /\ b \in Nat /\ c \in Nat /\ d \in Nat /\ d + 1 <= b
  BY <1>1, <1>2
<1>4. a * b \in Nat /\ c * b \in Nat
  BY <1>3, ProductGrows
<1>5. Spent(row) = a * b + d
  BY DEF Spent
<1>6. Allowance = a * b + c * b + b
  <2>1. Models + 1 = (a + c) + 1
    BY <1>1, <1>2
  <2>2. Allowance = b * (Models + 1)
    BY DEF Allowance
  <2> HIDE DEF a, b, c
  <2> QED BY <1>3, <2>1, <2>2
<1> HIDE DEF a, b, c, d
<1>7. DEFINE p == a * b
             q == c * b
<1> HIDE DEF p, q
<1>8. p \in Nat /\ q \in Nat /\ Spent(row) = p + d /\ Allowance = p + q + b
  BY <1>4, <1>5, <1>6 DEF p, q
<1> QED BY <1>3, <1>8

\* The account is of the attempts and the model alone.
LEMMA SpentSame ==
  ASSUME NEW row, NEW other, row.attempts = other.attempts, row.model = other.model
  PROVE  Spent(row) = Spent(other)
BY DEF Spent

\* A failure that does not end the run is on the account of its document.
LEMMA SpentFailed ==
  ASSUME NEW snap \in Row, NEW row, FailedRow(row, snap), row.status = "in_progress"
  PROVE  Spent(row) = Spent(snap) + 1
<1>1. RetryBudget \in Nat
  BY LifecycleAssumption DEF LifecycleAssumption
<1>2. snap.model \in Nat /\ snap.attempts \in Nat
  <2>1. snap.model \in 0 .. Models /\ snap.attempts \in Nat
    BY DEF Row, OffChain
  <2> QED BY <2>1, LifecycleAssumption DEF LifecycleAssumption
<1>3. CASE /\ snap.attempts + 1 <= RetryBudget
           /\ row.attempts = snap.attempts + 1 /\ row.model = snap.model
  <2>1. /\ snap.attempts < RetryBudget
        /\ (IF row.attempts < RetryBudget THEN row.attempts ELSE RetryBudget)
             = snap.attempts + 1
    BY <1>1, <1>2, <1>3
  <2> DEFINE p == snap.model * (RetryBudget + 1)
  <2>2. p \in Nat
    <3>1. RetryBudget + 1 \in Nat
      BY <1>1
    <3> QED BY <1>2, <3>1, ProductGrows
  <2>3. Spent(row) = p + (snap.attempts + 1) /\ Spent(snap) = p + snap.attempts
    BY <1>3, <2>1 DEF Spent
  <2> HIDE DEF p
  <2> QED BY <1>2, <2>2, <2>3
<1>4. CASE /\ snap.attempts + 1 > RetryBudget
           /\ row.attempts = 0 /\ row.model = snap.model + 1
  <2>1. /\ (IF snap.attempts < RetryBudget THEN snap.attempts ELSE RetryBudget)
             = RetryBudget
        /\ (IF row.attempts < RetryBudget THEN row.attempts ELSE RetryBudget) = 0
    BY <1>1, <1>2, <1>4
  <2>2. Spent(row) = (snap.model + 1) * (RetryBudget + 1) + 0
    BY <1>4, <2>1 DEF Spent
  <2>3. Spent(snap) = snap.model * (RetryBudget + 1) + RetryBudget
    BY <2>1 DEF Spent
  <2>4. (snap.model + 1) * (RetryBudget + 1)
          = snap.model * (RetryBudget + 1) + RetryBudget + 1
    BY <1>1, <1>2
  <2> QED BY <1>1, <1>2, <2>2, <2>3, <2>4
<1> QED BY <1>3, <1>4 DEF FailedRow

\* A ticket that is given the first model of the chain has no less behind it.
LEMMA SpentGrows ==
  ASSUME NEW old \in Row, NEW row \in Row, row.attempts = old.attempts,
         row.model = old.model \/ old.model = OffChain
  PROVE  Spent(old) \in Nat /\ Spent(row) \in Nat /\ Spent(old) <= Spent(row)
<1>1. Spent(old) \in Nat /\ Spent(row) \in Nat
  BY SpentBound
<1>2. CASE row.model = old.model
  BY <1>1, <1>2, SpentSame
<1>3. CASE old.model = OffChain
  <2> DEFINE d == IF row.attempts < RetryBudget THEN row.attempts ELSE RetryBudget
             p == row.model * (RetryBudget + 1)
  <2>1. RetryBudget \in Nat /\ Models \in Nat
    BY LifecycleAssumption DEF LifecycleAssumption
  <2>2. row.model \in Nat /\ row.attempts \in Nat
    <3>1. row.model \in 0 .. Models /\ row.attempts \in Nat
      BY DEF Row, OffChain
    <3> QED BY <2>1, <3>1
  <2>3. p \in Nat
    <3>1. RetryBudget + 1 \in Nat
      BY <2>1
    <3> QED BY <2>2, <3>1, ProductGrows
  <2>4. d \in Nat
    BY <2>1, <2>2
  <2>5. Spent(row) = p + d
    BY DEF Spent
  <2>6. 0 * (RetryBudget + 1) = 0
    BY <2>1
  <2>7. Spent(old) = d
    BY <1>3, <2>4, <2>6 DEF Spent, OffChain
  <2> HIDE DEF d, p
  <2> QED BY <1>1, <2>3, <2>4, <2>5, <2>7
<1> QED BY <1>2, <1>3

\* The steps about one ticket leave the others alone.
Only(t) ==
  \A u \in Tickets : u # t =>
    tickets'[u] = tickets[u] /\ run'[u] = run[u] /\ tries'[u] = tries[u]

LEMMA AccountOfOne ==
  ASSUME TriesInv, NEW t \in Tickets, Only(t),
         Accounted(tickets'[t], run'[t], tries'[t])
  PROVE  TriesInv'
BY DEF TriesInv, Only

\* What is saved is not absent unless it was to be.
LEMMA SavedStatus ==
  ASSUME NEW row \in Row
  PROVE  /\ Spent(Saved(row)) = Spent(row)
         /\ Saved(row).status = "absent" => row.status = "absent"
         /\ Saved(row).status = "in_progress" => row.status = "in_progress"
<1>1. SameBody(Saved(row), row)
  BY SavedFields
<1>2. Spent(Saved(row)) = Spent(row)
  BY <1>1, SpentSame DEF SameBody
<1> QED BY <1>2, SavedFields

LEMMA FreshAccount ==
  ASSUME NEW row \in Row, NEW r \in Run, row.status # "absent"
  PROVE  Accounted(row, r, 0)
<1>1. r.snap \in Row
  BY DEF Run
<1>2. Spent(row) \in Nat /\ Spent(r.snap) \in Nat /\ 0 <= Allowance
  BY <1>1, SpentBound, LifecycleAssumption
  DEF Allowance, LifecycleAssumption
<1> QED BY <1>2 DEF Accounted

LEMMA OverAccount ==
  ASSUME NEW row, NEW r, NEW n, n <= Allowance, r.phase \notin {"model", "tests"}
  PROVE  Accounted(row, r, n)
BY DEF Accounted

LEMMA EditsAccount ==
  ASSUME DocInv, TriesInv, NEW t \in Tickets, Edits(t)
  PROVE  TriesInv'
<1>1. PICK row :
        /\ MadeOf(row, tickets[t]) /\ Handle(t, row)
        /\ row.attempts = tickets[t].attempts
        /\ row.model = tickets[t].model \/ tickets[t].model = OffChain
        /\ row.status = "in_progress" =>
             tickets[t].status = "in_progress" \/ "move" \in PoOps
  BY DEF Edits
<1>2. row \in Row /\ row.status # "absent"
  BY <1>1 DEF MadeOf, Good
<1>3. tickets'[t] = Saved(row) /\ Only(t)
  BY <1>1 DEF Handle, Write, DocInv, RowsInv, Only
<1>4. run' = run /\ tries' = tries
  BY <1>1 DEF Handle
<1>5. /\ Spent(tickets[t]) \in Nat /\ Spent(row) \in Nat
      /\ Spent(tickets[t]) <= Spent(row) /\ tries[t] \in Nat
  BY <1>1, <1>2, SpentGrows DEF DocInv, RowsInv
<1> DEFINE s == Saved(row)
<1>6. /\ Spent(s) = Spent(row) /\ s.status # "absent"
      /\ s.status = "in_progress" => row.status = "in_progress"
  BY <1>2, SavedStatus
<1> HIDE DEF s
<1>7. Accounted(tickets[t], run[t], tries[t])
  BY DEF TriesInv
<1>8. tries[t] <= Spent(tickets[t]) => tries[t] <= Spent(s)
  BY <1>5, <1>6
<1>9. Accounted(s, run[t], tries[t])
  BY <1>1, <1>6, <1>7, <1>8 DEF Accounted
<1> QED BY <1>3, <1>4, <1>9, AccountOfOne DEF s

LEMMA RestartsAccount ==
  ASSUME DocInv, TriesInv, NEW t \in Tickets, NEW row \in Row,
         row.status # "absent", Write(t, row), tries' = [tries EXCEPT ![t] = 0],
         UNCHANGED run
  PROVE  TriesInv'
<1> DEFINE s == Saved(row)
<1>1. tickets'[t] = s /\ Only(t) /\ tries'[t] = 0 /\ run'[t] \in Run
  BY DEF Write, DocInv, RowsInv, RunsInv, Only
<1>2. s \in Row /\ s.status # "absent"
  BY SavedFields, SavedStatus
<1> HIDE DEF s
<1> QED BY <1>1, <1>2, FreshAccount, AccountOfOne

LEMMA CreateAccount ==
  ASSUME BudgetKept, DocInv, TriesInv, NEW t \in Tickets,
         NEW m \in GivenModels, CreateTicket(t, m)
  PROVE  TriesInv'
<1> DEFINE e == [NoRow EXCEPT !.status = "ready", !.model = m]
<1>1. tickets[t].status = "absent" /\ Handle(t, e)
  BY DEF CreateTicket, Exists
<1>2. Saved(e).status = "ready"
  BY DEF Saved, NoRow
<1> HIDE DEF e
<1>3. tickets'[t] = Saved(e) /\ Only(t) /\ run' = run /\ tries' = tries
  BY <1>1 DEF Handle, Write, DocInv, RowsInv, Only
<1>4. Accounted(tickets[t], run[t], tries[t])
  BY DEF TriesInv
<1>5. run[t].phase \in {"model", "tests"} => "move" \notin PoOps
  BY <1>1, <1>4 DEF Accounted, BudgetKept
<1>6. Accounted(tickets'[t], run'[t], tries'[t])
  BY <1>2, <1>3, <1>4, <1>5 DEF Accounted
<1> QED BY <1>3, <1>6, AccountOfOne

LEMMA DeleteAccount ==
  ASSUME BudgetKept, DocInv, TriesInv, NEW t \in Tickets, NEW force \in BOOLEAN,
         Delete(t, force)
  PROVE  TriesInv'
<1>1. "delete" \in PoOps /\ "move" \notin PoOps /\ Handle(t, NoRow)
  BY DEF Delete, Asks, BudgetKept
<1>2. Saved(NoRow).status = "absent"
  BY DEF Saved, NoRow
<1>3. tickets'[t] = Saved(NoRow) /\ Only(t) /\ run' = run /\ tries' = tries
  BY <1>1 DEF Handle, Write, DocInv, RowsInv, Only
<1>4. Accounted(tickets[t], run[t], tries[t])
  BY DEF TriesInv
<1>5. Accounted(tickets'[t], run'[t], tries'[t])
  BY <1>1, <1>2, <1>3, <1>4 DEF Accounted
<1> QED BY <1>3, <1>5, AccountOfOne

LEMMA SplitAccount ==
  ASSUME BudgetKept, DocInv, TriesInv, NEW t \in Tickets, Split(t)
  PROVE  TriesInv'
<1> DEFINE old == tickets[t]
           child == [old EXCEPT !.status = "backlog", !.needsApproval = TRUE,
                                !.outcome = "pending", !.verdict = "pending"]
           parent == [old EXCEPT !.status = "split", !.needsApproval = FALSE]
<1>1. old \in Row
  BY DEF DocInv, RowsInv
<1>2. child.status = "backlog"
  BY <1>1 DEF Row
<1>3. /\ parent.status = "split" /\ parent.attempts = old.attempts
      /\ parent.model = old.model
  BY <1>1 DEF Row
<1>4. PICK children \in SUBSET Tickets :
        /\ \A c \in children : ~Exists(c)
        /\ tickets' = [c \in Tickets |-> CASE c \in children -> child
                                           [] c = t -> parent
                                           [] OTHER -> tickets[c]]
  BY DEF Split
<1>5. run' = run /\ tries' = tries /\ Exists(t)
  BY DEF Split, Asks
<1> HIDE DEF child, parent
<1>6. Spent(parent) = Spent(tickets[t])
  BY <1>3, SpentSame
<1>7. ASSUME NEW u \in Tickets
      PROVE  Accounted(tickets'[u], run'[u], tries'[u])
  <2>1. Accounted(tickets[u], run[u], tries[u])
    BY DEF TriesInv
  <2>2. CASE u \in children
    <3>1. ~Exists(u) /\ u # t
      BY <1>4, <1>5, <2>2
    <3>2. tickets'[u] = child
      BY <1>4, <2>2, <3>1
    <3>3. tickets[u].status = "absent"
      BY <3>1 DEF Exists
    <3>4. run[u].phase \in {"model", "tests"} => "move" \notin PoOps
      BY <2>1, <3>3 DEF Accounted, BudgetKept
    <3> QED BY <1>2, <1>5, <2>1, <3>2, <3>4 DEF Accounted
  <2>3. CASE u \notin children /\ u = t
    <3>1. tickets'[u] = parent
      BY <1>4, <2>3
    <3> QED BY <1>3, <1>5, <1>6, <2>1, <2>3, <3>1 DEF Accounted
  <2>4. CASE u \notin children /\ u # t
    BY <1>4, <1>5, <2>1, <2>4
  <2> QED BY <2>2, <2>3, <2>4
<1> QED BY <1>7 DEF TriesInv

LEMMA CancelAccount ==
  ASSUME DocInv, TriesInv, NEW t \in Tickets, Cancel(t)
  PROVE  TriesInv'
<1>1. CASE ~Registered(t)
  <2>1. Restarts(t)
    BY <1>1, CancelRestarts
  <2> QED BY <2>1, RestartsAccount DEF Restarts, Restart, MadeOf, Good
<1>2. CASE Registered(t)
  <2>1. run' = [run EXCEPT ![t].cancelled = TRUE] /\ UNCHANGED <<tickets, audit, tries>>
    BY <1>2 DEF Cancel
  <2>2. run[t] \in Run
    BY DEF DocInv, RunsInv
  <2>3. run'[t].phase = run[t].phase /\ run'[t].snap = run[t].snap /\ Only(t)
    BY <2>1, <2>2 DEF Run, DocInv, RunsInv, Only
  <2>4. Accounted(tickets[t], run[t], tries[t])
    BY DEF TriesInv
  <2>5. Accounted(tickets'[t], run'[t], tries'[t])
    BY <2>1, <2>3, <2>4 DEF Accounted
  <2> QED BY <2>3, <2>5, AccountOfOne
<1> QED BY <1>1, <1>2

LEMMA StartRunAccount ==
  ASSUME DocInv, TriesInv, NEW t \in Tickets, NEW auto, StartRun(t, auto), DocInv'
  PROVE  TriesInv'
<1> DEFINE e == [tickets[t] EXCEPT !.status = "in_progress"]
<1>1. tickets[t] \in Row
  BY DEF DocInv, RowsInv
<1>2. e \in Row /\ e.status = "in_progress"
  BY <1>1, StatusFields DEF Statuses
<1>3. Write(t, e) /\ tries' = [tries EXCEPT ![t] = 0]
  BY DEF StartRun
<1> HIDE DEF e
<1>4. tickets'[t] = Saved(e) /\ tries'[t] = 0 /\ run'[t] \in Run
  BY <1>3 DEF Write, DocInv, RowsInv, RunsInv
<1>5. Only(t)
  BY <1>3 DEF Write, DocInv, RowsInv, RunsInv, Only, StartRun
<1>6. Saved(e) \in Row /\ Saved(e).status # "absent"
  BY <1>2, SavedFields, SavedStatus
<1> QED BY <1>4, <1>5, <1>6, FreshAccount, AccountOfOne

LEMMA RecordUsageAccount ==
  ASSUME DocInv, TriesInv, NEW t \in Tickets, RecordUsage(t)
  PROVE  TriesInv'
<1> DEFINE snap == run[t].snap
           s == Saved(snap)
<1>1. /\ snap \in Row /\ snap.status = "in_progress" /\ run[t].phase = "model"
      /\ Handle(t, snap)
  BY DEF RecordUsage, DocInv, RunsInv, RunInv, RowInv, Good
<1>2. Spent(s) = Spent(snap) /\ s.status # "absent"
  BY <1>1, SavedStatus
<1>3. tickets'[t] = s /\ Only(t) /\ run' = run /\ tries' = tries
  BY <1>1 DEF Handle, Write, DocInv, RowsInv, Only
<1> HIDE DEF s
<1>4. Accounted(tickets[t], run[t], tries[t])
  BY DEF TriesInv
<1>5. Accounted(s, run[t], tries[t])
  BY <1>1, <1>2, <1>4 DEF Accounted
<1> QED BY <1>3, <1>5, AccountOfOne

\* An execution that ends keeps what it has spent.
LEMMA EndAccount ==
  ASSUME DocInv, TriesInv, NEW t \in Tickets, EndRun(t), tries' = tries,
         \A u \in Tickets : u # t => tickets'[u] = tickets[u]
  PROVE  TriesInv'
<1>1. run'[t].phase = "idle" /\ Only(t)
  BY DEF EndRun, NoRun, DocInv, RunsInv, Only
<1>2. tries'[t] <= Allowance
  BY DEF TriesInv, Accounted
<1>3. Accounted(tickets'[t], run'[t], tries'[t])
  BY <1>1, <1>2, OverAccount
<1> QED BY <1>1, <1>3, AccountOfOne

LEMMA BeginTestsAccount ==
  ASSUME DocInv, TriesInv, NEW t \in Tickets, BeginTests(t)
  PROVE  TriesInv'
<1>1. CASE ~CanTransition(tickets[t].status, "testing")
  BY <1>1, EndAccount DEF BeginTests
<1>2. CASE CanTransition(tickets[t].status, "testing") /\ run[t].cancelled
  BY <1>2, EndAccount, WriteOther DEF BeginTests, Cancelled
<1>3. CASE CanTransition(tickets[t].status, "testing") /\ ~run[t].cancelled
  <2> DEFINE old == tickets[t]
             e == [old EXCEPT !.status = "testing"]
  <2>1. old \in Row /\ run[t] \in Run /\ run[t].phase = "model"
    BY DEF DocInv, RowsInv, RunsInv, BeginTests
  <2>2. old.status = "in_progress"
    BY <1>3 DEF CanTransition, LegalTransitions
  <2>3. e \in Row /\ e.status = "testing" /\ SameBody(e, old)
    BY <2>1, StatusFields DEF Statuses
  <2>4. /\ Write(t, e) /\ tries' = tries
        /\ run' = [run EXCEPT ![t].phase = "tests", ![t].snap = e]
    BY <1>3 DEF BeginTests
  <2> HIDE DEF e
  <2>5. /\ tickets'[t] = Saved(e) /\ Only(t)
        /\ run'[t].phase = "tests" /\ run'[t].snap = e
    BY <2>1, <2>4 DEF Write, DocInv, RowsInv, RunsInv, Only, Run
  <2>6. Saved(e).status # "absent"
    BY <2>3, SavedStatus
  <2>7. Spent(e) = Spent(old)
    BY <2>3, SpentSame DEF SameBody
  <2>8. Accounted(old, run[t], tries[t])
    BY DEF TriesInv
  <2>9. tries[t] <= Spent(e) /\ tries[t] <= Allowance
    BY <2>1, <2>2, <2>7, <2>8 DEF Accounted
  <2>10. Accounted(tickets'[t], run'[t], tries'[t])
    BY <2>4, <2>5, <2>6, <2>9 DEF Accounted
  <2> QED BY <2>5, <2>10, AccountOfOne
<1> QED BY <1>1, <1>2, <1>3

LEMMA TestsFailAccount ==
  ASSUME DocInv, TriesInv, NEW t \in Tickets, NEW outcome \in {"test_failed", "error"},
         TestsFail(t, outcome)
  PROVE  TriesInv'
<1>1. PICK row, r :
        /\ FailedRow(row, run[t].snap)
        /\ Write(t, row) /\ run' = [run EXCEPT ![t] = r]
        /\ r.phase \in {"model", "tests"} =>
             r.phase = "model" /\ r.snap = row /\ row.status = "in_progress"
        /\ tries' = [tries EXCEPT ![t] = @ + 1]
  BY TestsFailStep
<1> DEFINE snap == run[t].snap
           s == Saved(row)
           n == tries[t]
<1>2. snap \in Row /\ run[t].phase = "tests" /\ n \in Nat
  BY DEF DocInv, RunsInv, RunInv, RowInv, Good, TestsFail
<1>3. row \in Row /\ row.status # "absent"
  BY <1>1 DEF FailedRow, RowInv, Good
<1>4. Accounted(tickets[t], run[t], tries[t])
  BY DEF TriesInv
<1>5. /\ tickets'[t] = s /\ run'[t] = r /\ tries'[t] = n + 1 /\ Only(t)
  BY <1>1 DEF Write, DocInv, RowsInv, RunsInv, Only
<1>6. n <= Spent(snap) /\ Spent(snap) \in Nat /\ Spent(snap) + 1 <= Allowance
  BY <1>2, <1>4, SpentBound DEF Accounted
<1>7. Spent(s) = Spent(row) /\ s.status # "absent"
  BY <1>3, SavedStatus
<1>8. row.status = "in_progress" => Spent(row) = Spent(snap) + 1
  BY <1>1, <1>2, SpentFailed
<1>9. Allowance \in Nat
  BY LifecycleAssumption DEF Allowance, LifecycleAssumption
<1> HIDE DEF snap, s, n
<1>10. n + 1 <= Allowance
  BY <1>2, <1>6, <1>9
<1>11. row.status = "in_progress" => n + 1 <= Spent(row)
  BY <1>2, <1>6, <1>8
<1>12. Accounted(s, r, n + 1)
  BY <1>1, <1>7, <1>10, <1>11 DEF Accounted
<1> QED BY <1>5, <1>12, AccountOfOne

LEMMA SaveAuditedAccount ==
  ASSUME DocInv, TriesInv, NEW t \in Tickets, NEW row, Good(row),
         row.status # "absent", SaveAudited(t, row)
  PROVE  TriesInv'
BY RestartsAccount DEF SaveAudited, Good

LEMMA PoAccount ==
  ASSUME BudgetKept, DocInv, TriesInv, NEW t \in Tickets, PoStep(t)
  PROVE  TriesInv'
<1>1. CASE \/ Approve(t) \/ Accept(t) \/ Reject(t) \/ Abandon(t)
           \/ \E target \in Targets : Escalate(t, target)
           \/ \E target \in Statuses : MoveTicket(t, target)
  BY <1>1, EditsAccount, ApproveEdits, AcceptEdits, RejectEdits, AbandonEdits,
     EscalateEdits, MoveTicketEdits
<1>2. CASE \/ Retry(t) \/ Rerun(t) \/ RejectDiff(t)
           \/ \E m \in GivenModels : AssignModel(t, m)
  <2>1. Restarts(t)
    BY <1>2, RetryRestarts, RerunRestarts, RejectDiffRestarts, AssignModelRestarts
  <2> QED BY <2>1, RestartsAccount DEF Restarts, Restart, MadeOf, Good
<1>3. CASE (\E m \in GivenModels : CreateTicket(t, m)) \/ Split(t) \/ Cancel(t)
  BY <1>3, CreateAccount, SplitAccount, CancelAccount
<1>4. CASE Execute(t)
  BY <1>4, ExecuteKeeps, StartRunAccount DEF Execute
<1>5. CASE \E force \in BOOLEAN : Delete(t, force)
  BY <1>5, DeleteAccount
<1> QED BY <1>1, <1>2, <1>3, <1>4, <1>5 DEF PoStep

LEMMA RunAccount ==
  ASSUME DocInv, TriesInv, NEW t \in Tickets,
         \/ Dispatch(t) \/ RecordUsage(t) \/ RunStep(t) \/ RunError(t) \/ Recover(t)
  PROVE  TriesInv'
<1>1. CASE Dispatch(t)
  BY <1>1, DispatchKeeps, StartRunAccount DEF Dispatch
<1>2. CASE RecordUsage(t)
  BY <1>2, RecordUsageAccount
<1>3. CASE RunError(t)
  BY <1>3, EndAccount DEF RunError
<1>4. CASE Recover(t)
  <2>1. /\ run' = run /\ tries' = tries /\ run[t].phase \notin {"model", "tests"}
        /\ \A u \in Tickets : u # t => tickets'[u] = tickets[u]
    BY <1>4, WriteOther DEF Recover, Handle, Registered
  <2>2. tries[t] <= Allowance /\ Only(t)
    BY <2>1 DEF TriesInv, Accounted, Only
  <2>3. Accounted(tickets'[t], run'[t], tries'[t])
    BY <2>1, <2>2, OverAccount
  <2> QED BY <2>2, <2>3, AccountOfOne
<1>5. CASE RunStep(t)
  <2>1. CASE ObserveCancel(t) \/ RunOfDeleted(t) \/ TestsPass(t)
    BY <2>1, EndAccount, WriteOther DEF ObserveCancel, Cancelled, RunOfDeleted, TestsPass
  <2>2. CASE BeginTests(t)
    BY <2>2, BeginTestsAccount
  <2>3. CASE \E outcome \in {"test_failed", "error"} : TestsFail(t, outcome)
    BY <2>3, TestsFailAccount
  <2>4. CASE \E verdict \in {"approved", "rejected"} : FinishRunEscalation(t, verdict)
    BY <2>4, EndAccount, WriteOther DEF FinishRunEscalation
  <2> QED BY <1>5, <2>1, <2>2, <2>3, <2>4 DEF RunStep
<1> QED BY <1>1, <1>2, <1>3, <1>4, <1>5

LEMMA SameAccount ==
  ASSUME TriesInv, UNCHANGED <<tickets, run, tries>>
  PROVE  TriesInv'
BY DEF TriesInv

LEMMA AuditAccount ==
  ASSUME DocInv, TriesInv, NEW t \in Tickets,
         \/ StartReview(t) \/ StartEscalation(t) \/ AuditStep(t)
         \/ FailReview(t) \/ FailEscalation(t)
  PROVE  TriesInv'
<1>1. CASE StartReview(t) \/ StartEscalation(t)
  BY <1>1, SameAccount DEF StartReview, StartEscalation, StartAudit
<1>2. CASE AuditStep(t)
  <2>1. CASE \E verdict \in {"approved", "rejected"} : FinishReview(t, verdict)
    BY <2>1, FinishReviewSaves, SaveAuditedAccount
  <2>2. CASE \E verdict \in {"approved", "rejected"} : FinishEscalation(t, verdict)
    BY <2>2, FinishEscalationSaves, SaveAuditedAccount
  <2>3. CASE AuditOfDeleted(t)
    BY <2>3, SameAccount DEF AuditOfDeleted
  <2> QED BY <1>2, <2>1, <2>2, <2>3 DEF AuditStep
<1>3. CASE FailReview(t)
  BY <1>3, FailReviewSaves, SaveAuditedAccount
<1>4. CASE FailEscalation(t)
  BY <1>4, EndAccount, SameAccount DEF FailEscalation
<1> QED BY <1>1, <1>2, <1>3, <1>4

LEMMA RequestAccount ==
  ASSUME DocInv, AskInv, TriesInv, NEW t \in Tickets, RequestStep(t)
  PROVE  TriesInv'
<1>1. CASE UNCHANGED <<tickets, run, tries>>
  BY <1>1, SameAccount
<1>2. CASE StorePr(t) \/ AcceptStored(t)
  BY <1>2, StorePrEdits, AcceptEdits, EditsAccount
<1>3. CASE DiffApproved(t) \/ BranchMerged(t) \/ MergeReverted(t)
  <2>1. PICK row : MadeOf(row, command[t].snap) /\ SaveCommanded(t, row)
    BY <1>3, CommandSaves
  <2>2. row \in Row /\ row.status # "absent"
    BY <2>1 DEF MadeOf, Good
  <2> QED BY <2>1, <2>2, RestartsAccount DEF SaveCommanded
<1> QED BY <1>1, <1>2, <1>3
    DEF RequestStep, ApproveDiff, Merge, Revert, Begin, CommandFails, OpenPr,
        AcceptByPr, Push, PullFails

LEMMA CrashAccount ==
  ASSUME DocInv, TriesInv, Crash
  PROVE  TriesInv'
<1>1. /\ tries' = tries /\ tickets' = tickets
      /\ \A t \in Tickets : run'[t].phase = "idle"
  BY DEF Crash, NoRun
<1>2. \A t \in Tickets : tries[t] <= Allowance
  BY DEF TriesInv, Accounted
<1> QED BY <1>1, <1>2, OverAccount DEF TriesInv

\* The retry budget bounds the work of a run, whatever else happens to its
\* ticket, unless the PO recreates the ticket under it and moves the new one to
\* where the run goes on.
THEOREM BudgetBounds ==
  ASSUME BudgetKept
  PROVE  Spec => []TriesBounded
<1>1. Init => TriesInv
  <2> SUFFICES ASSUME Init, NEW t \in Tickets
               PROVE  Accounted(tickets[t], run[t], tries[t])
    BY DEF TriesInv
  <2>1. tries[t] = 0 /\ run[t].phase = "idle"
    BY DEF Init, NoRun
  <2>2. 0 <= Allowance
    BY LifecycleAssumption DEF Allowance, LifecycleAssumption
  <2> QED BY <2>1, <2>2, OverAccount
<1>2. DocInv /\ AskInv /\ TriesInv /\ [Next]_vars => TriesInv'
  <2> SUFFICES ASSUME DocInv, AskInv, TriesInv, [Next]_vars
               PROVE  TriesInv'
    OBVIOUS
  <2>1. CASE Crash
    BY <2>1, CrashAccount
  <2>2. CASE UNCHANGED vars
    BY <2>2, SameAccount DEF vars
  <2>3. ASSUME NEW t \in Tickets, PoStep(t)
        PROVE  TriesInv'
    BY <2>3, PoAccount
  <2>4. ASSUME NEW t \in Tickets,
               \/ Dispatch(t) \/ RecordUsage(t) \/ RunStep(t) \/ RunError(t)
               \/ Recover(t)
        PROVE  TriesInv'
    BY <2>4, RunAccount
  <2>5. ASSUME NEW t \in Tickets,
               \/ StartReview(t) \/ StartEscalation(t) \/ AuditStep(t)
               \/ FailReview(t) \/ FailEscalation(t)
        PROVE  TriesInv'
    BY <2>5, AuditAccount
  <2>6. ASSUME NEW t \in Tickets, RequestStep(t)
        PROVE  TriesInv'
    BY <2>6, RequestAccount
  <2> QED BY <2>1, <2>2, <2>3, <2>4, <2>5, <2>6 DEF Next
<1>3. TriesInv => TriesBounded
  BY DEF TriesInv, Accounted, TriesBounded, Allowance
<1> QED BY <1>1, <1>2, <1>3, DocAlways, PTL DEF Spec

-----------------------------------------------------------------------------
(* The second gate.                                                         *)

\* Nothing restarts a ticket or writes its status but the pipeline, its gates and
\* the split: neither the endpoints that take a ticket back nor a merge or a
\* revert, whose copy no gate was asked of.
SecondGateKept ==
  PoOps \subseteq {"split", "approve", "diff_approve", "accept", "pr", "assign_model"}

Approved(row) == row.outcome = "success" /\ row.verdict = "approved"

\* An approving verdict is of an audit: of the result, or of a ticket that is
\* blocked for want of one.
GatedRow(row) ==
  /\ ~row.abandoned
  /\ row.verdict = "approved" =>
       row.status \in {"blocked", "awaiting_acceptance", "done", "split"}
  /\ row.status = "blocked" => row.outcome # "success"

\* While somebody holds a copy of a ticket it cannot pass the second gate, and
\* while it passes nobody begins to hold one.
GatedTicket(row, r, a, c, p) ==
  /\ GatedRow(row) /\ GatedRow(r.snap) /\ GatedRow(a.snap) /\ GatedRow(c.snap)
  /\ r.phase # "idle" => ~Approved(row)
  /\ a.phase # "idle" => ~Approved(row)
  /\ r.phase \in {"model", "tests"} => row.status \in {"in_progress", "testing"}
  /\ r.phase = "escalate" \/ a.phase = "escalation" =>
       row.status \in {"blocked", "split"}
  /\ a.phase = "review" => row.status \in {"review", "split"}
  /\ r.phase \in {"model", "tests"} => a.phase = "idle"
  /\ r.phase # "idle" => a.phase # "review"
  /\ c.op # "none" =>
       /\ c.op = "diff_approve" /\ r.phase = "idle" /\ a.phase = "idle"
       /\ ~Approved(row) /\ row.status \in {"diff_pending", "split"}
  /\ p.phase # "idle" =>
       /\ Shippable(p.snap) /\ row.status \in {"awaiting_acceptance", "done", "split"}
       /\ r.phase = "idle" /\ a.phase = "idle" /\ c.op = "none"

Gated(t) == GatedTicket(tickets[t], run[t], audit[t], command[t], pull[t])

GatedInv == \A t \in Tickets : Gated(t)

OnlyDocs(t) ==
  \A u \in Tickets : u # t =>
    /\ tickets'[u] = tickets[u] /\ run'[u] = run[u] /\ audit'[u] = audit[u]
    /\ command'[u] = command[u] /\ pull'[u] = pull[u]

\* While its pull request is being pushed, only a split takes a ticket away.
StaysShippable(t) ==
  pull[t].phase = "pushed" /\ Shippable(tickets[t]) /\ ~Shippable(tickets'[t]) =>
    tickets'[t].status = "split"

GatedStep(t) == OnlyDocs(t) /\ Gated(t)' /\ StaysShippable(t)

LEMMA SavedAlive ==
  ASSUME NEW row, ~row.abandoned
  PROVE  Saved(row) = row
BY DEF Saved

LEMMA GatedNothing ==
  /\ NoRun.phase = "idle" /\ GatedRow(NoRun.snap)
  /\ NoAudit.phase = "idle" /\ GatedRow(NoAudit.snap)
  /\ NoCommand.op = "none" /\ GatedRow(NoCommand.snap)
  /\ NoPull.phase = "idle"
BY DEF NoRun, NoAudit, NoCommand, NoPull, NoRow, GatedRow

LEMMA PhasesOf ==
  ASSUME DocInv, AskInv, NEW t \in Tickets
  PROVE  /\ run[t].phase \in {"idle", "model", "tests", "escalate"}
         /\ audit[t].phase \in {"idle", "review", "escalation"}
         /\ command[t].op \in {"none", "diff_approve", "merge", "revert"}
         /\ pull[t].phase \in {"idle", "pushed", "stored"}
BY DEF DocInv, RunsInv, AuditsInv, AskInv, Run, Audit, Command, Pull

\* What the endpoints leave to the second gate: an edit keeps the result and the
\* audit, and moves a ticket out of the backlog or past the gate.
GateEdit(row, old) ==
  /\ GatedRow(row)
  /\ Approved(row) <=> Approved(old)
  /\ \/ row.status = old.status \/ old.status = "backlog"
     \/ old.status = "awaiting_acceptance" /\ row.status = "done"
  /\ Shippable(old) => Shippable(row)

\* Such an edit by a request that pushes nothing new.
LEMMA GateEditStep ==
  ASSUME DocInv, AskInv, GatedInv, NEW t \in Tickets, NEW row, NEW q,
         GateEdit(row, tickets[t]), Write(t, row),
         UNCHANGED <<run, audit, command>>, pull' = [pull EXCEPT ![t] = q],
         q.phase = "idle" \/ (pull[t].phase # "idle" /\ q.snap = pull[t].snap)
  PROVE  GatedStep(t)
<1>1. Saved(row) = row
  BY SavedAlive DEF GateEdit, GatedRow
<1>2. /\ tickets'[t] = row /\ OnlyDocs(t) /\ run'[t] = run[t] /\ audit'[t] = audit[t]
      /\ command'[t] = command[t] /\ pull'[t] = q
  BY <1>1 DEF Write, OnlyDocs, DocInv, RowsInv, AskInv
<1>3. GatedTicket(tickets[t], run[t], audit[t], command[t], pull[t])
  BY DEF GatedInv, Gated
<1>4. GatedTicket(row, run[t], audit[t], command[t], q)
  <2>1. CASE row.status = tickets[t].status
    BY <1>3, <2>1 DEF GatedTicket, GateEdit
  <2>2. CASE row.status # tickets[t].status
    <3>1. \/ tickets[t].status = "backlog"
          \/ tickets[t].status = "awaiting_acceptance" /\ row.status = "done"
      BY <2>2 DEF GateEdit
    <3>2. run[t].phase = "idle" /\ audit[t].phase = "idle" /\ command[t].op = "none"
      BY <1>3, <3>1, PhasesOf DEF GatedTicket
    <3>3. q.phase # "idle" => row.status = "done" /\ Shippable(q.snap)
      BY <1>3, <3>1 DEF GatedTicket
    <3> QED BY <1>3, <3>2, <3>3 DEF GatedTicket, GateEdit
  <2> QED BY <2>1, <2>2
<1>5. StaysShippable(t)
  BY <1>2 DEF StaysShippable, GateEdit
<1>6. Gated(t)'
  BY <1>2, <1>4 DEF Gated
<1> QED BY <1>2, <1>5, <1>6 DEF GatedStep

\* An edit that leaves the requests alone.
LEMMA GateHandled ==
  ASSUME DocInv, AskInv, GatedInv, NEW t \in Tickets, NEW row,
         GateEdit(row, tickets[t]), Write(t, row),
         UNCHANGED <<run, audit, command, pull>>
  PROVE  GatedStep(t)
<1>1. pull' = [pull EXCEPT ![t] = pull[t]]
  BY DEF AskInv
<1> QED BY <1>1, GateEditStep

\* An acceptance is refused, or is of a ticket that passed its audit.
LEMMA GateAccepted ==
  ASSUME NEW old \in Row, GatedRow(old), RowInv(old)
  PROVE  GateEdit(Accepted(old), old)
<1> DEFINE e == [old EXCEPT !.accepted = TRUE]
           m == Moved(e, "done")
<1>1. /\ e \in Row /\ e.status = old.status /\ e.outcome = old.outcome
      /\ e.verdict = old.verdict /\ e.abandoned = old.abandoned /\ e.accepted
  BY DEF Row
<1>2. Accepted(old) = m
  BY DEF Accepted
<1> HIDE DEF e
<1>3. /\ m \in Row /\ SameBody(m, e)
      /\ m.status = IF ~CanTransition(e.status, "done") THEN e.status
                    ELSE IF e.abandoned THEN "abandoned" ELSE "done"
  BY <1>1, MovedFields DEF Statuses
<1> HIDE DEF m
<1>4. CanTransition(old.status, "done") <=> old.status = "awaiting_acceptance"
  BY DEF CanTransition, LegalTransitions
<1>5. /\ m.outcome = old.outcome /\ m.verdict = old.verdict /\ m.accepted
      /\ m.abandoned = old.abandoned
      /\ \/ old.status = "awaiting_acceptance" /\ m.status = "done"
         \/ old.status # "awaiting_acceptance" /\ m.status = old.status
  BY <1>1, <1>3, <1>4 DEF SameBody, GatedRow
<1> HIDE DEF m
<1>6. GateEdit(m, old)
  BY <1>5 DEF GateEdit, GatedRow, Approved, Shippable
<1> QED BY <1>2, <1>6

LEMMA GateEndpoints ==
  ASSUME DocInv, AskInv, GatedInv, NEW t \in Tickets, UNCHANGED requests,
         Approve(t) \/ Accept(t) \/ \E m \in GivenModels : AssignModel(t, m)
  PROVE  GatedStep(t)
<1> DEFINE old == tickets[t]
<1> SUFFICES \E row : /\ GateEdit(row, old) /\ Write(t, row)
                      /\ UNCHANGED <<run, audit>>
  BY GateHandled DEF requests
<1>1. old \in Row /\ GatedRow(old) /\ RowInv(old)
  BY DEF DocInv, RowsInv, GatedInv, Gated, GatedTicket
<1>2. CASE Approve(t)
  <2>0. PICK k \in {old.model} \cup (IF old.model = OffChain THEN {1} ELSE {}) :
          Handle(t, Moved([old EXCEPT !.needsApproval = FALSE, !.model = k], "ready"))
    BY <1>2 DEF Approve
  <2> DEFINE e == [old EXCEPT !.needsApproval = FALSE, !.model = k]
             m == Moved(e, "ready")
  <2>1. k \in OffChain .. Models
    BY <1>1, LifecycleAssumption DEF LifecycleAssumption, OffChain, Row
  <2>2. /\ e \in Row /\ e.status = old.status /\ e.outcome = old.outcome
        /\ e.verdict = old.verdict /\ e.accepted = old.accepted
        /\ e.abandoned = old.abandoned
    BY <1>1, <2>1 DEF Row
  <2>3. Write(t, m) /\ UNCHANGED <<run, audit>>
    BY <2>0 DEF Handle
  <2> HIDE DEF e
  <2>4. /\ m \in Row /\ SameBody(m, e)
        /\ m.status = IF ~CanTransition(e.status, "ready") THEN e.status
                      ELSE IF e.abandoned THEN "abandoned" ELSE "ready"
    BY <2>2, MovedFields DEF Statuses
  <2>5. CanTransition(old.status, "ready") => old.status = "backlog"
    BY DEF CanTransition, LegalTransitions
  <2> HIDE DEF m, old
  <2>6. GateEdit(m, old)
    BY <1>1, <2>2, <2>4, <2>5 DEF GateEdit, GatedRow, Approved, SameBody, Shippable
  <2> QED BY <2>3, <2>6
<1>3. CASE Accept(t)
  BY <1>1, <1>3, GateAccepted DEF Accept, Handle
<1>4. CASE \E m \in GivenModels : AssignModel(t, m)
  <2>1. PICK m \in GivenModels : AssignModel(t, m)
    BY <1>4
  <2> DEFINE e == [old EXCEPT !.model = m]
  <2>2. /\ e.status = old.status /\ e.outcome = old.outcome
        /\ e.verdict = old.verdict /\ e.accepted = old.accepted
        /\ e.abandoned = old.abandoned
    BY <1>1 DEF Row
  <2>3. Write(t, e) /\ UNCHANGED <<run, audit>>
    BY <2>1 DEF AssignModel
  <2> HIDE DEF e, old
  <2>4. GateEdit(e, old)
    BY <1>1, <2>2 DEF GateEdit, GatedRow, Approved, Shippable
  <2> QED BY <2>3, <2>4
<1> QED BY <1>2, <1>3, <1>4

\* The gate is asked: the ticket succeeded and was audited, so that nobody holds
\* a copy of it.
LEMMA GatePush ==
  ASSUME DocInv, AskInv, GatedInv, NEW t \in Tickets, NEW accepts \in BOOLEAN,
         Push(t, accepts)
  PROVE  GatedStep(t)
<1> DEFINE old == tickets[t]
           q == [phase |-> "pushed", accepts |-> accepts, snap |-> old]
<1>1. Gated(t) /\ GatedRow(old) /\ PrEligible(old) /\ pull[t].phase = "idle"
  BY DEF GatedInv, Gated, GatedTicket, Push
<1>2. q.phase = "pushed" /\ q.snap = old
  OBVIOUS
<1>3. /\ pull' = [pull EXCEPT ![t] = q]
      /\ UNCHANGED <<tickets, run, audit, tries, command>>
  BY DEF Push
<1> HIDE DEF q
<1>4. /\ tickets'[t] = old /\ OnlyDocs(t) /\ run'[t] = run[t] /\ audit'[t] = audit[t]
      /\ command'[t] = command[t] /\ pull'[t] = q
  BY <1>3 DEF OnlyDocs, AskInv
<1> HIDE DEF old
<1>5. /\ Approved(old) /\ Shippable(old)
      /\ old.status \in {"awaiting_acceptance", "done", "split"}
  BY <1>1 DEF PrEligible, GatedRow, Approved, Shippable
<1>6. run[t].phase = "idle" /\ audit[t].phase = "idle" /\ command[t].op = "none"
  BY <1>1, <1>5 DEF Gated, GatedTicket, old
<1>7. GatedTicket(old, run[t], audit[t], command[t], q)
  BY <1>1, <1>2, <1>5, <1>6 DEF Gated, GatedTicket, old
<1> QED BY <1>4, <1>7 DEF GatedStep, StaysShippable, Gated, old

\* Its answer is stored, with the acceptance if that was asked for, or lost.
LEMMA GateStore ==
  ASSUME DocInv, AskInv, GatedInv, NEW t \in Tickets,
         StorePr(t) \/ AcceptStored(t) \/ PullFails(t)
  PROVE  GatedStep(t)
<1> DEFINE old == tickets[t]
<1>1. old \in Row /\ GatedRow(old) /\ RowInv(old) /\ pull[t] \in Pull
  BY DEF DocInv, RowsInv, AskInv, GatedInv, Gated, GatedTicket
<1>2. CASE StorePr(t)
  <2> DEFINE e == [old EXCEPT !.pr = TRUE]
             stored == [pull[t] EXCEPT !.phase = "stored"]
             q == IF pull[t].accepts THEN stored ELSE NoPull
  <2>1. /\ e.status = old.status /\ e.outcome = old.outcome
        /\ e.verdict = old.verdict /\ e.accepted = old.accepted
        /\ e.abandoned = old.abandoned
    BY <1>1 DEF Row
  <2>2. stored.snap = pull[t].snap
    BY <1>1 DEF Pull
  <2>3. /\ Write(t, e) /\ UNCHANGED <<run, audit, command>>
        /\ pull' = [pull EXCEPT ![t] = q] /\ pull[t].phase # "idle"
    BY <1>2 DEF StorePr, Handle, AskInv
  <2> HIDE DEF e, stored
  <2>4. q.phase = "idle" \/ q.snap = pull[t].snap
    BY <2>2, GatedNothing
  <2>5. GateEdit(e, old)
    BY <1>1, <2>1 DEF GateEdit, GatedRow, Approved, Shippable
  <2> HIDE DEF q
  <2> QED BY <2>3, <2>4, <2>5, GateEditStep
<1>3. CASE AcceptStored(t)
  <2>1. GateEdit(Accepted(old), old)
    BY <1>1, GateAccepted
  <2>2. /\ Write(t, Accepted(old)) /\ UNCHANGED <<run, audit, command>>
        /\ pull' = [pull EXCEPT ![t] = NoPull]
    BY <1>3 DEF AcceptStored, Handle
  <2> QED BY <2>1, <2>2, GateEditStep, GatedNothing
<1>4. CASE PullFails(t)
  <2>1. /\ tickets'[t] = old /\ OnlyDocs(t) /\ run'[t] = run[t]
        /\ audit'[t] = audit[t] /\ command'[t] = command[t] /\ pull'[t] = NoPull
    BY <1>4 DEF PullFails, OnlyDocs, AskInv
  <2>2. GatedTicket(old, run[t], audit[t], command[t], NoPull)
    BY GatedNothing DEF GatedInv, Gated, GatedTicket
  <2> QED BY <2>1, <2>2 DEF GatedStep, StaysShippable, Gated
<1> QED BY <1>2, <1>3, <1>4

\* The commit of a diff reads a ticket nobody else holds, and leaves it with the
\* auditor.
LEMMA GateBegin ==
  ASSUME DocInv, AskInv, GatedInv, NEW t \in Tickets, ApproveDiff(t)
  PROVE  GatedStep(t)
<1> DEFINE old == tickets[t]
           c == [op |-> "diff_approve", snap |-> old]
<1>1. /\ GatedTicket(old, run[t], audit[t], command[t], pull[t])
      /\ old.status = "diff_pending"
  BY DEF GatedInv, Gated, ApproveDiff
<1>2. c.op = "diff_approve" /\ c.snap = old
  OBVIOUS
<1>3. /\ command' = [command EXCEPT ![t] = c]
      /\ UNCHANGED <<tickets, run, audit, tries, pull>>
  BY DEF ApproveDiff, Begin
<1> HIDE DEF c
<1>4. /\ tickets'[t] = old /\ OnlyDocs(t) /\ run'[t] = run[t] /\ audit'[t] = audit[t]
      /\ command'[t] = c /\ pull'[t] = pull[t]
  BY <1>3 DEF OnlyDocs, AskInv
<1> HIDE DEF old
<1>5. /\ run[t].phase = "idle" /\ audit[t].phase = "idle" /\ pull[t].phase = "idle"
      /\ ~Approved(old)
  BY <1>1, PhasesOf DEF GatedTicket, GatedRow, Approved
<1>6. GatedTicket(old, run[t], audit[t], c, pull[t])
  BY <1>1, <1>2, <1>5 DEF GatedTicket
<1> QED BY <1>4, <1>6 DEF GatedStep, StaysShippable, Gated, old

LEMMA GateCommandEnds ==
  ASSUME DocInv, AskInv, GatedInv, NEW t \in Tickets, DiffApproved(t) \/ CommandFails(t)
  PROVE  GatedStep(t)
<1>1. GatedTicket(tickets[t], run[t], audit[t], command[t], pull[t])
  BY DEF GatedInv, Gated
<1>2. CASE CommandFails(t)
  <2>1. /\ tickets'[t] = tickets[t] /\ OnlyDocs(t) /\ run'[t] = run[t]
        /\ audit'[t] = audit[t] /\ command'[t] = NoCommand /\ pull'[t] = pull[t]
    BY <1>2 DEF CommandFails, OnlyDocs, AskInv
  <2>2. GatedTicket(tickets[t], run[t], audit[t], NoCommand, pull[t])
    BY <1>1, GatedNothing DEF GatedTicket
  <2> QED BY <2>1, <2>2 DEF GatedStep, StaysShippable, Gated
<1>3. CASE DiffApproved(t)
  <2>1. PICK row : /\ SaveCommanded(t, row) /\ row.verdict = "pending"
                   /\ row.abandoned = command[t].snap.abandoned
                   /\ row.status = "review"
    BY <1>3, DiffApprovedSaves
  <2>2. command[t].op # "none"
    BY <1>3 DEF DiffApproved
  <2>3. GatedRow(row) /\ ~Approved(row)
    BY <1>1, <2>1 DEF GatedTicket, GatedRow, Approved
  <2>4. Saved(row) = row
    BY <2>3, SavedAlive DEF GatedRow
  <2>5. /\ tickets'[t] = row /\ OnlyDocs(t) /\ run'[t] = run[t]
        /\ audit'[t] = audit[t] /\ command'[t] = NoCommand /\ pull'[t] = pull[t]
    BY <2>1, <2>4 DEF SaveCommanded, Write, OnlyDocs, DocInv, RowsInv, AskInv
  <2>6. run[t].phase = "idle" /\ audit[t].phase = "idle" /\ pull[t].phase = "idle"
    BY <1>1, <2>2 DEF GatedTicket
  <2>7. GatedTicket(row, run[t], audit[t], NoCommand, pull[t])
    BY <1>1, <2>3, <2>6, GatedNothing DEF GatedTicket
  <2> QED BY <2>5, <2>6, <2>7 DEF GatedStep, StaysShippable, Gated
<1> QED BY <1>2, <1>3

LEMMA GateCreate ==
  ASSUME DocInv, AskInv, GatedInv, NEW t \in Tickets, NEW m \in GivenModels,
         CreateTicket(t, m), UNCHANGED requests
  PROVE  GatedStep(t)
<1> DEFINE e == [NoRow EXCEPT !.status = "ready", !.model = m]
<1>1. e.status = "ready" /\ ~e.abandoned /\ e.verdict = "pending"
  BY DEF NoRow
<1>2. /\ Write(t, e) /\ UNCHANGED <<run, audit, command, pull>>
      /\ tickets[t].status = "absent"
  BY DEF CreateTicket, Handle, Exists, requests
<1> HIDE DEF e
<1>3. Saved(e) = e
  BY <1>1, SavedAlive
<1>4. /\ tickets'[t] = e /\ OnlyDocs(t) /\ run'[t] = run[t] /\ audit'[t] = audit[t]
      /\ command'[t] = command[t] /\ pull'[t] = pull[t]
  BY <1>2, <1>3 DEF Write, OnlyDocs, DocInv, RowsInv
<1>5. GatedTicket(tickets[t], run[t], audit[t], command[t], pull[t])
  BY DEF GatedInv, Gated
<1>6. /\ run[t].phase = "idle" /\ audit[t].phase = "idle"
      /\ command[t].op = "none" /\ pull[t].phase = "idle"
  BY <1>2, <1>5, PhasesOf DEF GatedTicket
<1>7. GatedTicket(e, run[t], audit[t], command[t], pull[t])
  BY <1>1, <1>5, <1>6 DEF GatedTicket, GatedRow
<1> QED BY <1>4, <1>6, <1>7 DEF GatedStep, StaysShippable, Gated

\* A split leaves the other tickets alone but for the children, which nobody
\* holds and which have no result.
LEMMA GateSplit ==
  ASSUME DocInv, AskInv, GatedInv, NEW t \in Tickets, Split(t), UNCHANGED requests,
         NEW u \in Tickets
  PROVE  Gated(u)' /\ StaysShippable(u)
<1> DEFINE old == tickets[t]
           child == [old EXCEPT !.status = "backlog", !.needsApproval = TRUE,
                                !.outcome = "pending", !.verdict = "pending"]
           parent == [old EXCEPT !.status = "split", !.needsApproval = FALSE]
<1>1. old \in Row /\ GatedRow(old)
  BY DEF DocInv, RowsInv, GatedInv, Gated, GatedTicket
<1>2. /\ child.status = "backlog" /\ child.verdict = "pending"
      /\ child.abandoned = old.abandoned
  BY <1>1 DEF Row
<1>3. /\ parent.status = "split" /\ parent.verdict = old.verdict
      /\ parent.outcome = old.outcome /\ parent.abandoned = old.abandoned
  BY <1>1 DEF Row
<1>4. PICK children \in SUBSET Tickets :
        /\ \A c \in children : ~Exists(c)
        /\ tickets' = [c \in Tickets |-> CASE c \in children -> child
                                           [] c = t -> parent
                                           [] OTHER -> tickets[c]]
  BY DEF Split
<1>5. UNCHANGED <<run, audit, command, pull>> /\ Exists(t)
  BY DEF Split, Asks, requests
<1> HIDE DEF child, parent
<1>6. GatedTicket(tickets[u], run[u], audit[u], command[u], pull[u])
  BY DEF GatedInv, Gated
<1>7. GatedRow(child) /\ GatedRow(parent)
  BY <1>1, <1>2, <1>3 DEF GatedRow
<1>8. CASE u \in children
  <2>1. tickets[u].status = "absent" /\ u # t
    BY <1>4, <1>5, <1>8 DEF Exists
  <2>2. tickets'[u] = child
    BY <1>4, <1>8, <2>1
  <2>3. /\ run[u].phase = "idle" /\ audit[u].phase = "idle"
        /\ command[u].op = "none" /\ pull[u].phase = "idle"
    BY <1>6, <2>1, PhasesOf DEF GatedTicket
  <2>4. GatedTicket(child, run[u], audit[u], command[u], pull[u])
    BY <1>6, <1>7, <2>3 DEF GatedTicket
  <2> QED BY <1>5, <2>2, <2>3, <2>4 DEF StaysShippable, Gated
<1>9. CASE u \notin children /\ u = t
  <2>1. tickets'[u] = parent
    BY <1>4, <1>9
  <2>2. Approved(parent) <=> Approved(tickets[u])
    BY <1>3, <1>9 DEF Approved
  <2>3. run[u].phase \notin {"model", "tests"}
    <3>1. tickets[u].status \notin {"in_progress", "testing"}
      BY <1>9 DEF Split, Live
    <3> QED BY <1>6, <3>1 DEF GatedTicket
  <2>4. GatedTicket(parent, run[u], audit[u], command[u], pull[u])
    BY <1>3, <1>6, <1>7, <2>2, <2>3 DEF GatedTicket
  <2> QED BY <1>3, <1>5, <2>1, <2>4 DEF StaysShippable, Gated
<1>10. CASE u \notin children /\ u # t
  <2>1. tickets'[u] = tickets[u]
    BY <1>4, <1>10
  <2> QED BY <1>5, <1>6, <2>1 DEF StaysShippable, Gated
<1> QED BY <1>8, <1>9, <1>10

\* The steps of the runs and the audits leave the requests alone.
OnlyRows(t) ==
  \A u \in Tickets : u # t =>
    tickets'[u] = tickets[u] /\ run'[u] = run[u] /\ audit'[u] = audit[u]

\* They leave the row alone, or are about a ticket nobody pushes.
LEMMA GateRowStep ==
  ASSUME UNCHANGED requests, NEW t \in Tickets, NEW row, NEW r, NEW a,
         tickets'[t] = row, run'[t] = r, audit'[t] = a, OnlyRows(t),
         GatedTicket(row, r, a, command[t], pull[t]),
         row = tickets[t] \/ pull[t].phase = "idle"
  PROVE  GatedStep(t)
BY DEF requests, OnlyRows, OnlyDocs, GatedStep, Gated, StaysShippable

LEMMA GateDispatch ==
  ASSUME DocInv, AskInv, GatedInv, UNCHANGED requests,
         NEW t \in Tickets, Dispatch(t)
  PROVE  GatedStep(t)
<1> DEFINE old == tickets[t]
           e == [old EXCEPT !.status = "in_progress"]
           r == [phase |-> "model", auto |-> TRUE, cancelled |-> FALSE, snap |-> e]
<1>1. /\ old \in Row /\ run[t].phase = "idle"
      /\ GatedTicket(old, run[t], audit[t], command[t], pull[t])
  BY DEF DocInv, RowsInv, GatedInv, Gated, Dispatch, StartRun
<1>2. e \in Row /\ e.status = "in_progress" /\ SameBody(e, old)
  BY <1>1, StatusFields DEF Statuses
<1>3. Write(t, e) /\ run' = [run EXCEPT ![t] = r] /\ audit' = audit
  BY DEF Dispatch, StartRun
<1>4. old.status \in {"ready", "in_progress"}
  BY DEF Dispatch
<1> HIDE DEF e
<1>5. r.phase = "model" /\ r.snap = e
  OBVIOUS
<1> HIDE DEF r, old
<1>6. audit[t].phase = "idle" /\ command[t].op = "none" /\ pull[t].phase = "idle"
  BY <1>1, <1>4, PhasesOf DEF GatedTicket
<1>7. GatedRow(e) /\ ~Approved(e)
  BY <1>1, <1>2, <1>4 DEF GatedTicket, GatedRow, SameBody, Approved
<1>8. Saved(e) = e
  BY <1>7, SavedAlive DEF GatedRow
<1>9. tickets'[t] = e /\ OnlyRows(t) /\ run'[t] = r /\ audit'[t] = audit[t]
  BY <1>3, <1>8 DEF Write, OnlyRows, DocInv, RowsInv, RunsInv
<1>10. GatedTicket(e, r, audit[t], command[t], pull[t])
  BY <1>1, <1>2, <1>5, <1>6, <1>7 DEF GatedTicket
<1> QED BY <1>6, <1>9, <1>10, GateRowStep

LEMMA GateRecordUsage ==
  ASSUME DocInv, AskInv, GatedInv, UNCHANGED requests,
         NEW t \in Tickets, RecordUsage(t)
  PROVE  GatedStep(t)
<1> DEFINE snap == run[t].snap
<1>1. /\ snap.status = "in_progress" /\ run[t].phase = "model"
      /\ Write(t, snap) /\ UNCHANGED <<run, audit>>
  BY DEF RecordUsage, DocInv, RunsInv, RunInv, Handle
<1>2. GatedTicket(tickets[t], run[t], audit[t], command[t], pull[t])
  BY DEF GatedInv, Gated
<1>3. GatedRow(snap) /\ ~Approved(snap) /\ pull[t].phase = "idle"
  BY <1>1, <1>2, PhasesOf DEF GatedTicket, GatedRow, Approved
<1>4. Saved(snap) = snap
  BY <1>3, SavedAlive DEF GatedRow
<1>5. tickets'[t] = snap /\ OnlyRows(t) /\ run'[t] = run[t] /\ audit'[t] = audit[t]
  BY <1>1, <1>4 DEF Write, OnlyRows, DocInv, RowsInv
<1>6. GatedTicket(snap, run[t], audit[t], command[t], pull[t])
  BY <1>1, <1>2, <1>3 DEF GatedTicket
<1> QED BY <1>3, <1>5, <1>6, GateRowStep

\* A run that ends without a word.
LEMMA GateOver ==
  ASSUME DocInv, AskInv, GatedInv, UNCHANGED requests,
         NEW t \in Tickets, EndRun(t), UNCHANGED <<tickets, audit>>
  PROVE  GatedStep(t)
<1>1. /\ tickets'[t] = tickets[t] /\ OnlyRows(t) /\ run'[t] = NoRun
      /\ audit'[t] = audit[t]
  BY DEF EndRun, OnlyRows, DocInv, RunsInv
<1>2. GatedTicket(tickets[t], run[t], audit[t], command[t], pull[t])
  BY DEF GatedInv, Gated
<1>3. GatedTicket(tickets[t], NoRun, audit[t], command[t], pull[t])
  BY <1>2, GatedNothing DEF GatedTicket
<1> QED BY <1>1, <1>3, GateRowStep

LEMMA GateAuditOver ==
  ASSUME DocInv, AskInv, GatedInv, UNCHANGED requests,
         NEW t \in Tickets, EndAudit(t), UNCHANGED <<tickets, run>>
  PROVE  GatedStep(t)
<1>1. /\ tickets'[t] = tickets[t] /\ OnlyRows(t) /\ run'[t] = run[t]
      /\ audit'[t] = NoAudit
  BY DEF EndAudit, OnlyRows, DocInv, AuditsInv
<1>2. GatedTicket(tickets[t], run[t], audit[t], command[t], pull[t])
  BY DEF GatedInv, Gated
<1>3. GatedTicket(tickets[t], run[t], NoAudit, command[t], pull[t])
  BY <1>2, GatedNothing DEF GatedTicket
<1> QED BY <1>1, <1>3, GateRowStep

LEMMA GateBeginTests ==
  ASSUME SecondGateKept, DocInv, AskInv, GatedInv, UNCHANGED requests,
         NEW t \in Tickets, BeginTests(t)
  PROVE  GatedStep(t)
<1>1. CASE ~CanTransition(tickets[t].status, "testing")
  BY <1>1, GateOver DEF BeginTests
<1>2. CASE CanTransition(tickets[t].status, "testing")
  <2> DEFINE old == tickets[t]
             e == [old EXCEPT !.status = "testing"]
  <2>1. /\ old \in Row /\ run[t] \in Run /\ run[t].phase = "model"
        /\ GatedTicket(old, run[t], audit[t], command[t], pull[t]) /\ ~run[t].cancelled
    BY DEF DocInv, RowsInv, RunsInv, RunInv, BeginTests, GatedInv, Gated, SecondGateKept
  <2>2. old.status = "in_progress"
    BY <1>2 DEF CanTransition, LegalTransitions
  <2>3. e \in Row /\ e.status = "testing" /\ SameBody(e, old)
    BY <2>1, StatusFields DEF Statuses
  <2>4. /\ Write(t, e) /\ audit' = audit
        /\ run' = [run EXCEPT ![t].phase = "tests", ![t].snap = e]
    BY <1>2, <2>1 DEF BeginTests
  <2> HIDE DEF e
  <2>5. GatedRow(e) /\ ~Approved(e)
    BY <2>1, <2>2, <2>3 DEF GatedTicket, GatedRow, SameBody, Approved
  <2>6. Saved(e) = e
    BY <2>5, SavedAlive DEF GatedRow
  <2>7. /\ tickets'[t] = e /\ OnlyRows(t) /\ audit'[t] = audit[t]
        /\ run'[t].phase = "tests" /\ run'[t].snap = e
    BY <2>1, <2>4, <2>6 DEF Write, OnlyRows, DocInv, RowsInv, RunsInv, Run
  <2>8. command[t].op = "none" /\ pull[t].phase = "idle"
    BY <2>1, PhasesOf DEF GatedTicket
  <2>9. GatedTicket(e, run'[t], audit[t], command[t], pull[t])
    BY <2>1, <2>3, <2>5, <2>7, <2>8 DEF GatedTicket
  <2> QED BY <2>7, <2>8, <2>9, GateRowStep
<1> QED BY <1>1, <1>2

LEMMA GateTestsPass ==
  ASSUME DocInv, AskInv, GatedInv, UNCHANGED requests,
         NEW t \in Tickets, TestsPass(t)
  PROVE  GatedStep(t)
<1> DEFINE snap == run[t].snap
           e == [snap EXCEPT !.outcome = "success"]
           m == Moved(Saved(e), "diff_pending")
<1>1. /\ snap \in Row /\ snap.status = "testing" /\ run[t].phase = "tests"
      /\ GatedTicket(tickets[t], run[t], audit[t], command[t], pull[t])
  BY DEF DocInv, RunsInv, RunInv, RowInv, Good, TestsPass, GatedInv, Gated
<1>2. /\ e \in Row /\ e.status = "testing" /\ e.verdict = snap.verdict
      /\ e.abandoned = snap.abandoned /\ e.accepted = snap.accepted
  BY <1>1 DEF Row
<1>3. Write(t, m) /\ EndRun(t) /\ audit' = audit
  BY DEF TestsPass
<1> HIDE DEF e
<1>4. /\ GatedRow(snap) /\ audit[t].phase = "idle"
      /\ command[t].op = "none" /\ pull[t].phase = "idle"
  BY <1>1, PhasesOf DEF GatedTicket
<1> HIDE DEF snap
<1>5. ~e.abandoned /\ Saved(e) = e
  BY <1>2, <1>4, SavedAlive DEF GatedRow
<1>6. m = Moved(e, "diff_pending")
  BY <1>5
<1> HIDE DEF m
<1>7. /\ m \in Row /\ SameBody(m, e)
      /\ m.status = IF ~CanTransition(e.status, "diff_pending") THEN e.status
                    ELSE IF e.abandoned THEN "abandoned" ELSE "diff_pending"
  BY <1>2, <1>6, MovedFields DEF Statuses
<1>8. GatedRow(m)
  BY <1>1, <1>2, <1>4, <1>5, <1>7
  DEF GatedRow, SameBody, CanTransition, LegalTransitions
<1>9. Saved(m) = m
  BY <1>8, SavedAlive DEF GatedRow
<1>10. tickets'[t] = m /\ OnlyRows(t) /\ run'[t] = NoRun /\ audit'[t] = audit[t]
  BY <1>3, <1>9 DEF Write, EndRun, OnlyRows, DocInv, RowsInv, RunsInv
<1>11. GatedTicket(m, NoRun, audit[t], command[t], pull[t])
  BY <1>1, <1>4, <1>8, GatedNothing DEF GatedTicket
<1> QED BY <1>4, <1>10, <1>11, GateRowStep

LEMMA GateTestsFail ==
  ASSUME DocInv, AskInv, GatedInv, UNCHANGED requests, NEW t \in Tickets,
         NEW outcome \in {"test_failed", "error"}, TestsFail(t, outcome)
  PROVE  GatedStep(t)
<1>1. PICK row, r :
        /\ FailedRow(row, run[t].snap) /\ RunInv(r)
        /\ Write(t, row) /\ run' = [run EXCEPT ![t] = r]
        /\ r.phase \in {"model", "tests"} =>
             r.phase = "model" /\ r.snap = row /\ row.status = "in_progress"
        /\ r.phase = "escalate" => r.snap = row
        /\ r.phase = "idle" => r = NoRun
        /\ UNCHANGED audit
  BY TestsFailStep
<1> DEFINE snap == run[t].snap
<1>2. /\ snap.status = "testing" /\ run[t].phase = "tests"
      /\ GatedTicket(tickets[t], run[t], audit[t], command[t], pull[t])
  BY DEF DocInv, RunsInv, RunInv, TestsFail, GatedInv, Gated
<1>3. /\ GatedRow(snap) /\ audit[t].phase = "idle"
      /\ command[t].op = "none" /\ pull[t].phase = "idle"
  BY <1>2, PhasesOf DEF GatedTicket
<1> HIDE DEF snap
<1>4. /\ row.verdict = snap.verdict /\ row.outcome # "success"
      /\ row.status \in {"in_progress", "blocked"} /\ ~row.abandoned
  BY <1>1 DEF FailedRow, RowInv, snap
<1>5. GatedRow(row) /\ ~Approved(row)
  BY <1>2, <1>3, <1>4 DEF GatedRow, Approved
<1>6. Saved(row) = row
  BY <1>4, SavedAlive
<1>7. tickets'[t] = row /\ OnlyRows(t) /\ run'[t] = r /\ audit'[t] = audit[t]
  BY <1>1, <1>6 DEF Write, OnlyRows, DocInv, RowsInv, RunsInv
<1>8. r.phase \in {"idle", "model", "tests", "escalate"}
  BY <1>1 DEF RunInv, Run
<1>9. GatedRow(r.snap)
  BY <1>1, <1>5, <1>8, GatedNothing
<1>10. r.phase = "escalate" => row.status = "blocked"
  BY <1>1 DEF RunInv
<1>11. GatedTicket(row, r, audit[t], command[t], pull[t])
  <2>1. GatedRow(audit[t].snap) /\ GatedRow(command[t].snap)
    BY <1>2 DEF GatedTicket
  <2> QED BY <1>1, <1>3, <1>5, <1>8, <1>9, <1>10, <2>1 DEF GatedTicket
<1> QED BY <1>3, <1>7, <1>11, GateRowStep

LEMMA GateRecover ==
  ASSUME DocInv, AskInv, GatedInv, UNCHANGED requests,
         NEW t \in Tickets, Recover(t)
  PROVE  GatedStep(t)
<1> DEFINE old == tickets[t]
           e == [old EXCEPT !.status = "in_progress", !.outcome = "pending"]
<1>1. /\ old \in Row /\ old.status = "testing"
      /\ run[t].phase \notin {"model", "tests"}
      /\ GatedTicket(old, run[t], audit[t], command[t], pull[t])
  BY DEF DocInv, RowsInv, Recover, Registered, GatedInv, Gated
<1>2. /\ e.status = "in_progress" /\ e.verdict = old.verdict
      /\ e.abandoned = old.abandoned /\ e.accepted = old.accepted
  BY <1>1 DEF Row
<1>3. Write(t, e) /\ UNCHANGED <<run, audit>>
  BY DEF Recover, Handle
<1> HIDE DEF e, old
<1>4. /\ run[t].phase = "idle" /\ audit[t].phase = "idle"
      /\ command[t].op = "none" /\ pull[t].phase = "idle"
  BY <1>1, PhasesOf DEF GatedTicket
<1>5. GatedRow(e)
  BY <1>1, <1>2 DEF GatedTicket, GatedRow
<1>6. Saved(e) = e
  BY <1>5, SavedAlive DEF GatedRow
<1>7. tickets'[t] = e /\ OnlyRows(t) /\ run'[t] = run[t] /\ audit'[t] = audit[t]
  BY <1>3, <1>6 DEF Write, OnlyRows, DocInv, RowsInv
<1>8. GatedTicket(e, run[t], audit[t], command[t], pull[t])
  BY <1>1, <1>4, <1>5 DEF GatedTicket
<1> QED BY <1>4, <1>7, <1>8, GateRowStep

LEMMA GateStartAudit ==
  ASSUME DocInv, AskInv, GatedInv, UNCHANGED requests,
         NEW t \in Tickets, StartReview(t) \/ StartEscalation(t)
  PROVE  GatedStep(t)
<1>1. PICK phase \in {"review", "escalation"} :
        /\ StartAudit(t, phase)
        /\ tickets[t].status = IF phase = "review" THEN "review" ELSE "blocked"
  BY DEF StartReview, StartEscalation
<1> DEFINE a == [phase |-> phase, snap |-> tickets[t]]
<1>2. a.phase = phase /\ a.snap = tickets[t]
  OBVIOUS
<1>3. audit' = [audit EXCEPT ![t] = a] /\ UNCHANGED <<tickets, run>>
  BY <1>1 DEF StartAudit
<1> HIDE DEF a
<1>4. GatedTicket(tickets[t], run[t], audit[t], command[t], pull[t])
  BY DEF GatedInv, Gated
<1>5. /\ tickets'[t] = tickets[t] /\ OnlyRows(t) /\ run'[t] = run[t]
      /\ audit'[t] = a
  BY <1>3 DEF OnlyRows, DocInv, AuditsInv
<1>6. /\ command[t].op = "none" /\ pull[t].phase = "idle"
      /\ run[t].phase \in {"idle", "model", "tests", "escalate"}
  BY <1>1, <1>4, PhasesOf DEF GatedTicket
<1>7. GatedTicket(tickets[t], run[t], a, command[t], pull[t])
  BY <1>1, <1>2, <1>4, <1>6 DEF GatedTicket, GatedRow, Approved
<1> QED BY <1>5, <1>6, <1>7, GateRowStep

LEMMA GateSaveAudited ==
  ASSUME DocInv, AskInv, GatedInv, UNCHANGED requests,
         NEW t \in Tickets, NEW row, SaveAudited(t, row),
         audit[t].phase # "idle", GatedRow(row),
         \/ run[t].phase = "idle"
         \/ audit[t].phase = "escalation" /\ row.status = "blocked"
  PROVE  GatedStep(t)
<1>1. GatedTicket(tickets[t], run[t], audit[t], command[t], pull[t])
  BY DEF GatedInv, Gated
<1>2. Saved(row) = row
  BY SavedAlive DEF GatedRow
<1>3. /\ tickets'[t] = row /\ OnlyRows(t) /\ run'[t] = run[t]
      /\ audit'[t] = NoAudit
  BY <1>2 DEF SaveAudited, EndAudit, Write, OnlyRows, DocInv, RowsInv, AuditsInv
<1>4. command[t].op = "none" /\ pull[t].phase = "idle"
  BY <1>1, PhasesOf DEF GatedTicket
<1>5. GatedTicket(row, run[t], NoAudit, command[t], pull[t])
  BY <1>1, <1>4, GatedNothing DEF GatedTicket, GatedRow, Approved
<1> QED BY <1>3, <1>4, <1>5, GateRowStep

LEMMA GateAudit ==
  ASSUME DocInv, AskInv, GatedInv, UNCHANGED requests,
         NEW t \in Tickets, AuditStep(t) \/ FailReview(t)
  PROVE  GatedStep(t)
<1>1. GatedTicket(tickets[t], run[t], audit[t], command[t], pull[t])
  BY DEF GatedInv, Gated
<1>2. AuditInv(audit[t])
  BY DEF DocInv, AuditsInv
<1>3. CASE \E verdict \in {"approved", "rejected"} : FinishReview(t, verdict)
  <2>1. PICK verdict \in {"approved", "rejected"} : FinishReview(t, verdict)
    BY <1>3
  <2>2. audit[t].phase = "review" /\ run[t].phase = "idle"
    BY <1>1, <2>1 DEF FinishReview, GatedTicket
  <2>3. PICK row :
          /\ Good(row) /\ SaveAudited(t, row)
          /\ row.outcome = audit[t].snap.outcome
          /\ row.verdict = verdict
          /\ row.accepted = audit[t].snap.accepted
          /\ row.abandoned = audit[t].snap.abandoned
          /\ row.status = IF verdict = "approved"
                          THEN "awaiting_acceptance" ELSE "backlog"
    BY <2>1, FinishReviewSaves
  <2>4. GatedRow(row)
    BY <1>1, <2>3 DEF GatedTicket, GatedRow
  <2> QED BY <2>2, <2>3, <2>4, GateSaveAudited
<1>4. CASE \E verdict \in {"approved", "rejected"} : FinishEscalation(t, verdict)
  <2>1. PICK verdict \in {"approved", "rejected"} : FinishEscalation(t, verdict)
    BY <1>4
  <2>2. audit[t].phase = "escalation"
    BY <2>1 DEF FinishEscalation
  <2>3. PICK row :
          /\ SaveAudited(t, row) /\ row.status = "blocked"
          /\ row.outcome = audit[t].snap.outcome
          /\ row.accepted = audit[t].snap.accepted
          /\ row.abandoned = audit[t].snap.abandoned
    BY <2>1, FinishEscalationSaves
  <2>4. GatedRow(row)
    BY <1>1, <1>2, <2>2, <2>3 DEF GatedTicket, GatedRow, AuditInv
  <2> QED BY <2>2, <2>3, <2>4, GateSaveAudited
<1>5. CASE FailReview(t)
  <2>1. audit[t].phase = "review" /\ run[t].phase = "idle"
    BY <1>1, <1>5 DEF FailReview, GatedTicket
  <2>2. PICK row :
          /\ SaveAudited(t, row) /\ row.status = "review"
          /\ row.verdict = "pending"
          /\ row.accepted = audit[t].snap.accepted
          /\ row.abandoned = audit[t].snap.abandoned
    BY <1>5, FailReviewSaves
  <2>3. GatedRow(row)
    BY <1>1, <2>2 DEF GatedTicket, GatedRow
  <2> QED BY <2>1, <2>2, <2>3, GateSaveAudited
<1>6. CASE AuditOfDeleted(t)
  BY <1>6, GateAuditOver DEF AuditOfDeleted
<1> QED BY <1>3, <1>4, <1>5, <1>6 DEF AuditStep

LEMMA GateRunEscalation ==
  ASSUME DocInv, AskInv, GatedInv, UNCHANGED requests,
         NEW t \in Tickets, NEW verdict \in {"approved", "rejected"},
         FinishRunEscalation(t, verdict)
  PROVE  GatedStep(t)
<1> DEFINE snap == run[t].snap
           row == Handled(snap, verdict)
<1>1. /\ RowInv(snap) /\ snap.status = "blocked" /\ run[t].phase = "escalate"
      /\ GatedTicket(tickets[t], run[t], audit[t], command[t], pull[t])
  BY DEF DocInv, RunsInv, RunInv, FinishRunEscalation, GatedInv, Gated
<1>2. /\ row.status = "blocked" /\ row.outcome = snap.outcome
      /\ row.accepted = snap.accepted /\ row.abandoned = snap.abandoned
  BY <1>1, HandledGood
<1>3. Write(t, row) /\ EndRun(t) /\ audit' = audit
  BY DEF FinishRunEscalation
<1> HIDE DEF row
<1>4. /\ GatedRow(row) /\ ~Approved(row)
      /\ command[t].op = "none" /\ pull[t].phase = "idle"
  BY <1>1, <1>2, PhasesOf DEF GatedTicket, GatedRow, Approved
<1>5. Saved(row) = row
  BY <1>4, SavedAlive DEF GatedRow
<1>6. tickets'[t] = row /\ OnlyRows(t) /\ run'[t] = NoRun /\ audit'[t] = audit[t]
  BY <1>3, <1>5 DEF Write, EndRun, OnlyRows, DocInv, RowsInv, RunsInv
<1>7. GatedTicket(row, NoRun, audit[t], command[t], pull[t])
  BY <1>1, <1>2, <1>4, GatedNothing DEF GatedTicket
<1> QED BY <1>4, <1>6, <1>7, GateRowStep

LEMMA GateCrash ==
  ASSUME GatedInv, Crash, NEW u \in Tickets
  PROVE  Gated(u)' /\ StaysShippable(u)
<1>1. /\ tickets'[u] = tickets[u] /\ run'[u] = NoRun /\ audit'[u] = NoAudit
      /\ command'[u] = NoCommand /\ pull'[u] = NoPull
  BY DEF Crash
<1>2. GatedRow(tickets[u])
  BY DEF GatedInv, Gated, GatedTicket
<1>3. GatedTicket(tickets[u], NoRun, NoAudit, NoCommand, NoPull)
  BY <1>2, GatedNothing DEF GatedTicket
<1> QED BY <1>1, <1>3 DEF StaysShippable, Gated

\* Every step keeps the second gate, for the ticket it is about and for the
\* others.
LEMMA GateStep ==
  ASSUME SecondGateKept, DocInv, AskInv, GatedInv, [Next]_vars, NEW u \in Tickets
  PROVE  Gated(u)' /\ StaysShippable(u)
<1> DEFINE Goal == Gated(u)' /\ StaysShippable(u)
<1>1. ASSUME NEW t \in Tickets, GatedStep(t)
      PROVE  Goal
  <2>1. CASE u = t
    BY <1>1, <2>1 DEF GatedStep
  <2>2. CASE u # t
    BY <1>1, <2>2 DEF GatedStep, OnlyDocs, GatedInv, Gated, StaysShippable
  <2> QED BY <2>1, <2>2
<1>2. CASE UNCHANGED vars
  BY <1>2 DEF GatedInv, Gated, StaysShippable, vars, requests
<1>3. CASE Crash
  BY <1>3, GateCrash
<1>4. ASSUME NEW t \in Tickets, PoStep(t), UNCHANGED requests
      PROVE  Goal
  <2>1. CASE Approve(t) \/ Accept(t) \/ \E m \in GivenModels : AssignModel(t, m)
    BY <1>1, <1>4, <2>1, GateEndpoints
  <2>2. CASE \E m \in GivenModels : CreateTicket(t, m)
    BY <1>1, <1>4, <2>2, GateCreate
  <2>3. CASE Split(t)
    BY <1>4, <2>3, GateSplit
  <2>4. CASE \/ Reject(t) \/ Abandon(t) \/ Retry(t) \/ Rerun(t) \/ Cancel(t)
             \/ RejectDiff(t) \/ Execute(t)
             \/ \E target \in Targets : Escalate(t, target)
             \/ \E target \in Statuses : MoveTicket(t, target)
             \/ \E force \in BOOLEAN : Delete(t, force)
    BY <2>4 DEF SecondGateKept, Reject, Abandon, Retry, Rerun, Cancel, RejectDiff,
                Execute, Escalate, MoveTicket, Delete, Asks
  <2> QED BY <1>4, <2>1, <2>2, <2>3, <2>4 DEF PoStep
<1>5. ASSUME NEW t \in Tickets, UNCHANGED requests,
             \/ Dispatch(t) \/ RecordUsage(t) \/ RunStep(t) \/ RunError(t)
             \/ Recover(t)
      PROVE  Goal
  <2>1. CASE Dispatch(t) \/ RecordUsage(t) \/ Recover(t)
    BY <1>1, <1>5, <2>1, GateDispatch, GateRecordUsage, GateRecover
  <2>2. CASE RunError(t) \/ RunOfDeleted(t)
    BY <1>1, <1>5, <2>2, GateOver DEF RunError, RunOfDeleted
  <2>3. CASE ObserveCancel(t)
    BY <2>3 DEF ObserveCancel, DocInv, RunsInv, RunInv, SecondGateKept
  <2>4. CASE BeginTests(t) \/ TestsPass(t)
    BY <1>1, <1>5, <2>4, GateBeginTests, GateTestsPass
  <2>5. CASE \E outcome \in {"test_failed", "error"} : TestsFail(t, outcome)
    BY <1>1, <1>5, <2>5, GateTestsFail
  <2>6. CASE \E verdict \in {"approved", "rejected"} : FinishRunEscalation(t, verdict)
    BY <1>1, <1>5, <2>6, GateRunEscalation
  <2> QED BY <1>5, <2>1, <2>2, <2>3, <2>4, <2>5, <2>6 DEF RunStep
<1>6. ASSUME NEW t \in Tickets, UNCHANGED requests,
             \/ StartReview(t) \/ StartEscalation(t) \/ AuditStep(t)
             \/ FailReview(t) \/ FailEscalation(t)
      PROVE  Goal
  <2>1. CASE StartReview(t) \/ StartEscalation(t)
    BY <1>1, <1>6, <2>1, GateStartAudit
  <2>2. CASE AuditStep(t) \/ FailReview(t)
    BY <1>1, <1>6, <2>2, GateAudit
  <2>3. CASE FailEscalation(t)
    BY <1>1, <1>6, <2>3, GateOver, GateAuditOver DEF FailEscalation
  <2> QED BY <1>6, <2>1, <2>2, <2>3
<1>7. ASSUME NEW t \in Tickets, RequestStep(t)
      PROVE  Goal
  <2>1. CASE OpenPr(t) \/ AcceptByPr(t)
    BY <1>1, <2>1, GatePush DEF OpenPr, AcceptByPr
  <2>2. CASE StorePr(t) \/ AcceptStored(t) \/ PullFails(t)
    BY <1>1, <2>2, GateStore
  <2>3. CASE ApproveDiff(t)
    BY <1>1, <2>3, GateBegin
  <2>4. CASE DiffApproved(t) \/ CommandFails(t)
    BY <1>1, <2>4, GateCommandEnds
  <2>5. CASE Merge(t) \/ Revert(t)
    BY <2>5 DEF SecondGateKept, Merge, Revert, Begin, Asks
  <2>6. CASE BranchMerged(t) \/ MergeReverted(t)
    BY <2>6 DEF SecondGateKept, BranchMerged, MergeReverted, AskInv, CommandInv
  <2> QED BY <1>7, <2>1, <2>2, <2>3, <2>4, <2>5, <2>6 DEF RequestStep
<1> QED BY <1>2, <1>3, <1>4, <1>5, <1>6, <1>7 DEF Next

LEMMA GatedAlways ==
  ASSUME SecondGateKept
  PROVE  Spec => []GatedInv
<1>1. Init => GatedInv
  <2>1. GatedTicket(NoRow, NoRun, NoAudit, NoCommand, NoPull)
    BY GatedNothing DEF GatedTicket, GatedRow, NoRow
  <2> QED BY <2>1 DEF Init, GatedInv, Gated
<1>2. DocInv /\ AskInv /\ GatedInv /\ [Next]_vars => GatedInv'
  BY GateStep DEF GatedInv
<1> QED BY <1>1, <1>2, DocAlways, PTL DEF Spec

\* A pull request is pushed only for a ticket that succeeded, was audited and waits
\* for its acceptance or was accepted, and nothing but a split takes it away
\* while the provider is being called, for any number of copies, integrations
\* that come and go, and crashes, as long as no endpoint takes a ticket back
\* that was accepted, or whose acceptance was refused, and none merges.
THEOREM GateTwo ==
  ASSUME SecondGateKept
  PROVE  Spec => PrOnlyWhenAccepted
<1>1. ASSUME DocInv, AskInv, GatedInv, [Next]_vars, NEW t \in Tickets,
             pull[t].phase = "pushed"
      PROVE  /\ Shippable(pull[t].snap)
             /\ (Shippable(tickets[t]) /\ ~Shippable(tickets'[t])) =>
                  tickets'[t].status = "split"
  <2>1. Shippable(pull[t].snap)
    BY <1>1 DEF GatedInv, Gated, GatedTicket
  <2>2. StaysShippable(t)
    BY <1>1, GateStep
  <2> QED BY <1>1, <2>1, <2>2 DEF StaysShippable
<1>2. DocInv /\ AskInv /\ GatedInv /\ [Next]_vars =>
        [\A t \in Tickets : pull[t].phase = "pushed" =>
           /\ Shippable(pull[t].snap)
           /\ (Shippable(tickets[t]) /\ ~Shippable(tickets'[t])) =>
                tickets'[t].status = "split"]_vars
  BY <1>1
<1> QED BY <1>2, GatedAlways, DocAlways, PTL DEF Spec, PrOnlyWhenAccepted

-----------------------------------------------------------------------------
(* The card of a ticket on the web board.                                   *)

UiStatuses ==
  {"Backlog", "Ready", "In_Progress", "Diff_review", "Review", "Awaiting_acceptance",
   "Done", "Blocked", "Abandoned", "Split"}

LEMMA StatusIsShown ==
  ASSUME NEW s \in Statuses
  PROVE  UiStatus(s) \in UiStatuses
BY DEF Statuses, UiStatus, UiStatuses

\* A move asks for the status its column stands for.
LEMMA ColumnsAreAsked ==
  BackendStatus("Ready") = "ready" /\ BackendStatus("In_Progress") = "in_progress"
<1>1. "ready" \in Statuses /\ UiStatus("ready") = "Ready"
  BY DEF Statuses, UiStatus
<1>2. \A s \in Statuses: UiStatus(s) = "Ready" => s = "ready"
  BY DEF Statuses, UiStatus
<1>3. BackendStatus("Ready") = "ready"
  BY <1>1, <1>2 DEF BackendStatus
<1>4. BackendStatus("In_Progress") = "in_progress"
  BY DEF BackendStatus
<1>5. QED BY <1>3, <1>4

\* A card is in one column.
LEMMA OneColumn ==
  ASSUME NEW card, card.status \in UiStatuses
  PROVE  Cardinality({column \in Columns: InColumn(card, column)}) = 1
<1> DEFINE in == CASE card.status = "Diff_review" -> "Review"
                   [] card.status = "Blocked" -> "In_Progress"
                   [] card.status \in {"Abandoned", "Split"} -> "Done"
                   [] OTHER -> card.status
<1>1. in \in Columns /\ InColumn(card, in)
  BY DEF UiStatuses, Columns, InColumn, IsTerminal
<1>2. \A column \in Columns: InColumn(card, column) => column = in
  BY DEF UiStatuses, Columns, InColumn, IsTerminal
<1>3. {column \in Columns: InColumn(card, column)} = {in}
  BY <1>1, <1>2
<1>4. QED BY <1>3, FS_Singleton

\* A card of a ticket that waits for the Product Owner is in one column, under the
\* filters of attention and of active tickets, and Enter decides no other gate; a
\* card is dragged, or moved from the detail, only where the state machine lets
\* its ticket go.  (That the offers of a card are served is an ENABLED.)
THEOREM BoardShowsGates == Spec => [](DropsAreLegal /\ GatesAreShown)
<1>1. ASSUME TypeOK, NEW t \in Tickets, Exists(t)
      PROVE  /\ tickets[t].status \in Statuses /\ tickets[t].needsApproval \in BOOLEAN
             /\ UiTicket(tickets[t]).status = UiStatus(tickets[t].status)
             /\ UiTicket(tickets[t]).status \in UiStatuses
             /\ UiTicket(tickets[t]).needsApproval = tickets[t].needsApproval
  <2>1. tickets[t] \in Row
    BY <1>1 DEF TypeOK
  <2>2. tickets[t].status \in Statuses /\ tickets[t].needsApproval \in BOOLEAN
    BY <1>1, <2>1 DEF Row, Exists
  <2>3. QED BY <2>2, StatusIsShown DEF UiTicket
<1>2. TypeOK => DropsAreLegal
  <2> SUFFICES ASSUME TypeOK, NEW t \in Tickets, Exists(t),
                      NEW ui \in Columns, MayMove(UiTicket(tickets[t]), ui)
               PROVE  CanTransition(tickets[t].status, BackendStatus(ui))
    BY DEF DropsAreLegal
  <2>1. \/ UiStatus(tickets[t].status) = "Backlog" /\ ui = "Ready"
        \/ UiStatus(tickets[t].status) = "Ready" /\ ui = "In_Progress"
    BY <1>1 DEF MayMove, ManualMoves
  <2>2. \/ tickets[t].status = "backlog" /\ ui = "Ready"
        \/ tickets[t].status = "ready" /\ ui = "In_Progress"
    BY <1>1, <2>1 DEF UiStatus, Statuses
  <2>3. QED BY <2>2, ColumnsAreAsked DEF CanTransition, LegalTransitions
<1>3. TypeOK => GatesAreShown
  <2> SUFFICES ASSUME TypeOK, NEW t \in Tickets, Exists(t), NEW card, card = UiTicket(tickets[t])
               PROVE  /\ Cardinality({column \in Columns: InColumn(card, column)}) = 1
                      /\ MatchesBoardFilters(card, "active", TRUE) <=> GateActions(card) # {}
                      /\ EnterActions(card) \subseteq GateActions(card)
    BY DEF GatesAreShown
  <2>1. card.status \in UiStatuses /\ card.needsApproval \in BOOLEAN
    BY <1>1
  <2>2. GateActions(card) # {} <=> NeedsMyAttention(card)
    BY <2>1 DEF GateActions, NeedsMyAttention, UnderGateOne
  <2>3. NeedsMyAttention(card) => ~IsTerminal(card.status)
    BY <2>1 DEF NeedsMyAttention, UnderGateOne, IsTerminal
  <2>4. MatchesBoardFilters(card, "active", TRUE) <=> NeedsMyAttention(card)
    BY <2>3 DEF MatchesBoardFilters
  <2>5. EnterActions(card) \subseteq GateActions(card)
    BY <2>1 DEF EnterActions, GateActions, UnderGateOne
  <2>6. QED BY <2>1, <2>2, <2>4, <2>5, OneColumn
<1>4. QED BY <1>2, <1>3, TypeCorrect, PTL
=============================================================================
