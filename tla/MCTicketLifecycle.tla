------------------------- MODULE MCTicketLifecycle -------------------------
(* TicketLifecycle for TLC: the endpoints each run lets the Product Owner use. *)
EXTENDS WebTicket

CONSTANTS t1, t2

\* The pipeline and the endpoints that pull a ticket out of it.  Not move and
\* revert: they write a status the pipeline did not earn.
Pipeline == {"accept", "reject", "rerun", "escalate", "cancel",
             "diff_approve", "diff_reject", "execute"}

\* What can restart a run or take its ticket away.
Rework == {"retry", "rerun", "cancel", "diff_reject", "escalate", "execute",
           "delete"}

\* Everything that writes a status, asked of an abandoned ticket or of one about
\* to be, with the git commands that save a copy, and the model changed under a
\* run.
Revival == {"abandon", "rerun", "escalate", "move", "assign_model",
            "diff_approve", "merge", "revert"}

\* Both gates, for a ticket and the child it is split into.  Not merge and revert:
\* the copy they save, and the status a revert writes, bring a ticket before the
\* second gate, or take it away, without an audit.
Gates == {"split", "approve", "diff_approve", "accept", "pr", "assign_model"}
=============================================================================
