----------------------------- MODULE WebDetail -----------------------------
(***************************************************************************)
(* The panel of one ticket (TicketDetail.tsx) while the ticket under it is  *)
(* replaced by polls, the log socket and answers, and while the user types, *)
(* arms a confirmation, or opens another ticket from it.                    *)
(*                                                                          *)
(* Ids are numbered per project, and the panel knows its ticket by the id   *)
(* alone: it shows whatever ticket of that number the page has loaded, and  *)
(* calls the server for the one of the project the page is turned to.       *)
(*                                                                          *)
(* The effects of a render run before the next event, so they belong to the *)
(* action that causes the render.  Only the ticket shown is in the state: a *)
(* ticket that is opened, or polled, comes as whatever it is by then.       *)
(***************************************************************************)
EXTENDS Naturals, WebBase

CONSTANTS
    Tickets,     \* tickets of the board
    NoTicket,    \* the panel is closed
    MaxText      \* bound: versions of a ticket's description and tests

ASSUME DetailAssumption == NoTicket \notin Tickets /\ MaxText \in Nat

VARIABLES
    turnedTo,    \* selectedProjectId
    shown,       \* selectedTicketId
    card,        \* the ticket it stands for
    mock,        \* usingMockData
    panel,       \* the transient state of the panel
    typed,       \* history: the text the user last left in the edit form
    typedOn,     \* history: the ticket the form was opened on
    armedOn,     \* history: the ticket the first click of a confirmation was on
    adrift,      \* history: the page turned to another project under the panel,
                 \* or the panel showed a ticket of another project than the page's
    summary,     \* acceptanceSummary: the ticket it is of, if any
    loading,     \* acceptanceLoading
    fetch        \* requests of getAcceptanceSummary: one stands for all alike

requestVars == <<summary, loading, fetch>>
meantVars == <<typed, typedOn, armedOn>>
detailVars == <<turnedTo, shown, card, mock, panel, meantVars, adrift, requestVars>>

\* The stages of a ticket the panel tells apart: "open" before any review,
\* "gate2" with a branch to merge, "merged" with a merge that can be undone.
Stages == {"open", "blocked", "diff", "gate2", "merged"}
Texts == 0..MaxText
Cards == [stage: Stages, text: Texts]

\* Deletion and escalation are asked about alike; so are answers of both kinds.
Questions == {"delete", "merge", "revert"}

PanelRecord ==
    [confirm: Questions \cup {"none"}, rejecting: BOOLEAN, diffRejecting: BOOLEAN,
     editing: BOOLEAN, draft: Texts]

\* A ticket, with its project.
Intended == [ticket: Tickets \cup {NoTicket}, project: Projects]
Nowhere == [ticket |-> NoTicket, project |-> DefaultProject]

\* The ticket the panel makes its calls for.
Here == [ticket |-> shown, project |-> turnedTo]

FetchRecord == [ticket: Tickets, active: BOOLEAN]

\* The state of a panel that was just reset for a ticket: the draft is the
\* ticket's own text.
Fresh(c) == [confirm |-> "none", rejecting |-> FALSE, diffRejecting |-> FALSE,
             editing |-> FALSE, draft |-> c.text]

DetailTypeOK ==
    /\ turnedTo \in Projects
    /\ shown \in Tickets \cup {NoTicket}
    /\ card \in Cards
    /\ mock \in BOOLEAN
    /\ panel \in PanelRecord
    /\ typed \in Texts
    /\ {typedOn, armedOn} \subseteq Intended
    /\ adrift \in BOOLEAN
    /\ summary \in Tickets \cup {NoTicket}
    /\ loading \in BOOLEAN
    /\ fetch \subseteq FetchRecord

DetailInit ==
    /\ turnedTo = DefaultProject
    /\ shown = NoTicket
    /\ card \in [stage: {"open"}, text: {0}]
    /\ mock \in BOOLEAN
    /\ panel = Fresh(card)
    /\ typed = 0
    /\ typedOn = Nowhere /\ armedOn = Nowhere
    /\ adrift = FALSE
    /\ summary = NoTicket
    /\ loading = FALSE
    /\ fetch = {}

-----------------------------------------------------------------------------
(* The effects.                                                             *)

\* The effect of the acceptance summary, keyed on the ticket, its stage and
\* usingMockData: its cleanup makes the request before it inactive, which then
\* neither shows its answer nor ends the loading.
QuietFetches == {[q EXCEPT !.active = FALSE]: q \in fetch}

ChecklistFor(t, c, m) ==
    CASE c.stage # "gate2" ->
            summary' = NoTicket /\ fetch' = QuietFetches /\ UNCHANGED loading
      [] c.stage = "gate2" /\ m ->
            summary' = t /\ fetch' = QuietFetches /\ UNCHANGED loading
      [] OTHER ->
            /\ fetch' = QuietFetches \cup {[ticket |-> t, active |-> TRUE]}
            /\ loading' = TRUE
            /\ UNCHANGED summary

\* Slip: every new object is taken for a new text.
SlipDraftFor(p, c) == [p EXCEPT !.draft = c.text]

\* The draft follows the ticket unless the form is open; what a reset closes is
\* open no longer.
DraftFor(p, c) == IF p.editing THEN p ELSE [p EXCEPT !.draft = c.text]

-----------------------------------------------------------------------------
(* The ticket under the panel.                                              *)

\* A card of the board, or a notification of the inbox, is clicked.  The list it
\* is looked up in may still be that of the project the page turned away from.
OpenTicket(t, c) ==
    /\ shown = NoTicket
    /\ shown' = t
    /\ card' = c
    /\ panel' = Fresh(c)
    /\ adrift' \in BOOLEAN
    /\ ChecklistFor(t, c, mock)
    /\ UNCHANGED <<turnedTo, mock, meantVars>>

\* A dependency, a child or the parent is opened from the panel: the same panel
\* shows another ticket, and its transient state is reset.
OpenFrom(t, c) ==
    /\ shown \notin {NoTicket, t}
    /\ shown' = t
    /\ card' = c
    /\ panel' = Fresh(c)
    /\ typed' = 0
    /\ typedOn' = Nowhere /\ armedOn' = Nowhere
    /\ adrift' \in BOOLEAN
    /\ ChecklistFor(t, c, mock)
    /\ UNCHANGED <<turnedTo, mock>>

\* Closed by the user, or because the ticket left the board: the panel is
\* unmounted, and what is under way for it answers to nobody.
CloseTicket ==
    /\ shown # NoTicket
    /\ shown' = NoTicket
    /\ panel' = Fresh(card)
    /\ summary' = NoTicket
    /\ loading' = FALSE
    /\ fetch' = {}
    /\ typed' = 0
    /\ typedOn' = Nowhere /\ armedOn' = Nowhere
    /\ adrift' = FALSE
    /\ UNCHANGED <<turnedTo, card, mock>>

\* A poll, a log line or an answer replaces the ticket: new objects each time, and
\* perhaps the ticket of its number in another project.  The panel keeps its
\* transient state, and does not ask again for the checklist at the same stage.
Replace(c) ==
    /\ shown # NoTicket
    /\ card' = c
    /\ panel' = DraftFor(panel, c)
    /\ adrift' \in {adrift, TRUE}
    /\ IF c.stage = card.stage THEN UNCHANGED requestVars
       ELSE ChecklistFor(shown, c, mock)
    /\ UNCHANGED <<turnedTo, shown, mock, meantVars>>

\* The page turns to another project: the user's choice while no panel is open,
\* or a project created meanwhile (its answer turns the page) under an open one,
\* whose effects do not ask for the project.
Turn(o) ==
    /\ o # turnedTo
    /\ turnedTo' = o
    /\ adrift' = (shown # NoTicket)
    /\ UNCHANGED <<shown, card, mock, panel, meantVars, requestVars>>

\* The board falls back to demo data, or recovers from it.
MockTurns ==
    /\ mock' = ~mock
    /\ IF shown = NoTicket THEN UNCHANGED requestVars
       ELSE ChecklistFor(shown, card, ~mock)
    /\ UNCHANGED <<turnedTo, shown, card, panel, meantVars, adrift>>

\* getAcceptanceSummary answers, or fails.  It is asked without a project: the
\* server takes the only ticket of that number, and fails when there are several.
Summarised(q, ok) ==
    /\ fetch' = fetch \ {q}
    /\ IF q.active
       THEN /\ summary' = IF ok THEN q.ticket ELSE NoTicket
            /\ loading' = FALSE
       ELSE UNCHANGED <<summary, loading>>
    /\ UNCHANGED <<turnedTo, shown, card, mock, panel, meantVars, adrift>>

-----------------------------------------------------------------------------
(* The user at the panel.                                                   *)

\* Acting on the panel leaves the ticket and the requests alone.
AtPanel ==
    shown # NoTicket /\ UNCHANGED <<turnedTo, shown, card, mock, adrift, requestVars>>

Edit ==
    /\ AtPanel
    /\ ~panel.editing
    /\ card.stage \in {"open", "blocked", "diff"}
    /\ panel' = [panel EXCEPT !.editing = TRUE]
    /\ typed' = panel.draft
    /\ typedOn' = Here
    /\ UNCHANGED armedOn

TypeDraft(text) ==
    /\ AtPanel
    /\ panel.editing
    /\ panel' = [panel EXCEPT !.draft = text]
    /\ typed' = text
    /\ UNCHANGED <<typedOn, armedOn>>

\* Save & rerun, or Cancel: the draft follows the ticket again.
EndEdit ==
    /\ AtPanel
    /\ panel.editing
    /\ panel' = [panel EXCEPT !.editing = FALSE, !.draft = card.text]
    /\ typed' = 0
    /\ typedOn' = Nowhere
    /\ UNCHANGED armedOn

\* The forms of the two refusals; the clarification of a blocked ticket opens
\* that of the second gate, which is not on the page then.
AskFeedback ==
    /\ AtPanel
    /\ \/ /\ card.stage \in {"gate2", "blocked"}
          /\ panel' = [panel EXCEPT !.rejecting = TRUE]
       \/ /\ card.stage = "diff"
          /\ panel' = [panel EXCEPT !.diffRejecting = TRUE]
    /\ UNCHANGED meantVars

\* Send back, or Cancel.
EndFeedback ==
    /\ AtPanel
    /\ \/ /\ card.stage = "gate2" /\ panel.rejecting
          /\ panel' = [panel EXCEPT !.rejecting = FALSE]
       \/ /\ card.stage = "diff" /\ panel.diffRejecting
          /\ panel' = [panel EXCEPT !.diffRejecting = FALSE]
    /\ UNCHANGED meantVars

\* What the first click may arm, and what the second may confirm: the question
\* about a merge stays while there is a branch to merge.
Armable(op) ==
    CASE op = "merge" -> card.stage = "gate2"
      [] op = "revert" -> card.stage = "merged"
      [] OTHER -> TRUE

Confirmable(op) ==
    /\ panel.confirm = op
    /\ op = "merge" => card.stage # "merged"
    /\ op = "revert" => card.stage = "merged"

Arm(op) ==
    /\ AtPanel
    /\ panel.confirm # op
    /\ Armable(op)
    /\ panel' = [panel EXCEPT !.confirm = op]
    /\ armedOn' = Here
    /\ UNCHANGED <<typed, typedOn>>

Disarm ==
    /\ AtPanel
    /\ panel.confirm # "none"
    /\ panel' = [panel EXCEPT !.confirm = "none"]
    /\ armedOn' = Nowhere
    /\ UNCHANGED <<typed, typedOn>>

\* The second click makes the call, for the ticket the panel is of by now.
Confirm(op) ==
    /\ AtPanel
    /\ Confirmable(op)
    /\ panel' = [panel EXCEPT !.confirm = "none"]
    /\ armedOn' = Nowhere
    /\ UNCHANGED <<typed, typedOn>>

-----------------------------------------------------------------------------
DetailNext ==
    \/ \E t \in Tickets, c \in Cards: OpenTicket(t, c) \/ OpenFrom(t, c)
    \/ CloseTicket
    \/ \E c \in Cards: Replace(c)
    \/ \E o \in Projects: Turn(o)
    \/ MockTurns
    \/ \E q \in fetch, ok \in BOOLEAN: Summarised(q, ok)
    \/ Edit \/ EndEdit \/ (\E text \in Texts: TypeDraft(text))
    \/ AskFeedback \/ EndFeedback
    \/ \E op \in Questions: Arm(op) \/ Confirm(op)
    \/ Disarm

DetailSpec == DetailInit /\ [][DetailNext]_detailVars

-----------------------------------------------------------------------------
(* What was begun on one ticket is for it still: for the ticket of its      *)
(* number always, and for the one of its project unless the page turned to  *)
(* another project under the panel, or had not caught up with a turn.       *)
StaysWith(meant) ==
    meant.ticket = shown /\ (adrift \/ meant.project = turnedTo)

(* "never clobber the user's edits while they are actively editing": what   *)
(* the form holds is what the user left in it, for the ticket it was opened *)
(* on, however often the ticket is replaced, and a form that is not open    *)
(* shows the text of the ticket on the panel.                               *)
DraftIsMine ==
    IF panel.editing THEN panel.draft = typed /\ StaysWith(typedOn)
    ELSE panel.draft = card.text

(* The checklist the user accepts by is that of the number on the panel:    *)
(* answers for tickets shown before come too late to be seen.               *)
ChecklistIsOfTicket ==
    (shown # NoTicket /\ card.stage = "gate2" /\ ~loading)
        => summary \in {shown, NoTicket}

(* A deletion, an escalation, a merge and its undoing are confirmed on the  *)
(* ticket they were asked for: a question never survives a change of number,*)
(* and changes its project only by a turn under the panel.                  *)
ConfirmedWhereAsked == panel.confirm # "none" => StaysWith(armedOn)

(* The checklist of the second gate says it is loading only while it is     *)
(* asked for: whatever was asked and given up before, an answer to come     *)
(* ends it.                                                                 *)
LoadingIsAsked ==
    (loading /\ shown # NoTicket /\ card.stage = "gate2" /\ ~mock)
        => [ticket |-> shown, active |-> TRUE] \in fetch
=============================================================================
