----------------------------- MODULE WebShell -----------------------------
(***************************************************************************)
(* What lies over the page (App.tsx): the pages of the sidebar, the ticket  *)
(* panel, the composer, the form for a single ticket (NewTicketModal.tsx),  *)
(* a requirement, and the setup guide (OnboardingWizard.tsx), with the key  *)
(* that closes the topmost one.                                             *)
(*                                                                          *)
(* The buttons of the form are disabled while it saves; the key is not, and *)
(* the answer then closes whatever form is open.                            *)
(***************************************************************************)
EXTENDS Naturals, WebBase

CONSTANTS
    MaxForm,   \* bound: forms opened
    MaxMade    \* bound: tickets made of one form

ASSUME FormsAssumption == MaxForm \in Nat /\ MaxMade \in Nat

VARIABLES
    currentPage,
    overlays,      \* the ticket panel, the composer, a requirement
    newTicket,          \* the form for a ticket, counted as they are opened
    made,          \* the server: tickets made of each form
    making,        \* the calls that make them
    guide,         \* the setup guide: open, who opened it, dismissed
    setup,         \* needsSetup once the tickets are loaded, and seedingDemo
    escaped,       \* history: forms closed by the key while they were saved
    lost           \* history: forms whose answer was lost

shellVars ==
    <<currentPage, overlays, newTicket, made, making, guide, setup, escaped, lost>>

Pages == {"home", "activity", "insights", "benchmark", "decisions", "inbox",
          "requirements", "models"}
Panels == {"ticket", "composer", "requirement"}
Forms == 1..MaxForm
NoForm == [no |-> 0, open |-> FALSE, filled |-> FALSE, isSaving |-> FALSE]
MakeRecord == [form: 0..MaxForm, at: {"sent", "answered", "failed"}]
NoMake == [form |-> 0, at |-> "sent"]

ShellTypeOK ==
    /\ currentPage \in Pages
    /\ overlays \subseteq Panels
    /\ newTicket \in [no: 0..MaxForm, open: BOOLEAN, filled: BOOLEAN, isSaving: BOOLEAN]
    /\ made \in [Forms -> 0..MaxMade]
    /\ making \in [Calls -> MakeRecord]
    /\ guide \in [open: BOOLEAN, by: {"page", "user"}, dismissed: BOOLEAN]
    /\ setup \in [needed: BOOLEAN, seeding: BOOLEAN]
    /\ escaped \subseteq Forms /\ lost \subseteq Forms

\* The page is loaded; whether the guide was dismissed is in the browser's store.
ShellInit ==
    /\ currentPage = "home"
    /\ overlays = {}
    /\ newTicket = NoForm
    /\ made = [i \in Forms |-> 0]
    /\ making = [c \in Calls |-> NoMake]
    /\ guide \in [open: {FALSE}, by: {"page"}, dismissed: BOOLEAN]
    /\ setup = [needed |-> FALSE, seeding |-> FALSE]
    /\ escaped = {} /\ lost = {}

Unmade == UNCHANGED <<newTicket, made, making, escaped, lost>>

-----------------------------------------------------------------------------
(* Pages and panels.  The guide lies over everything else, the form and the *)
(* requirement over the page.                                               *)

Blocked == guide.open \/ newTicket.open \/ overlays # {}

\* NavSidebar, the insights page, the benchmark report
Navigate(page) ==
    /\ ~Blocked
    /\ page \in Pages \ {currentPage}
    /\ page = "benchmark" => currentPage = "insights"
    /\ currentPage' = page
    /\ UNCHANGED <<overlays, guide, setup>> /\ Unmade

\* A ticket of the board, of the chat or, over the board, of another page.
OpenTicketPanel ==
    /\ ~Blocked
    /\ currentPage \in {"home", "activity", "decisions", "inbox"}
    /\ currentPage' = "home"
    /\ overlays' = overlays \cup {"ticket"}
    /\ UNCHANGED <<guide, setup>> /\ Unmade

OpenRequirement ==
    /\ ~guide.open /\ ~newTicket.open /\ "composer" \notin overlays
    /\ "ticket" \in overlays \/ currentPage \in {"home", "requirements", "decisions", "inbox"}
    /\ overlays' = overlays \cup {"requirement"}
    /\ UNCHANGED <<currentPage, guide, setup>> /\ Unmade

\* AddWorkMenu on the board, and the requirements page.
OpenNewRequirement ==
    /\ ~Blocked
    /\ currentPage \in {"home", "requirements"}
    /\ overlays' = overlays \cup {"composer"}
    /\ UNCHANGED <<currentPage, guide, setup>> /\ Unmade

CloseOverlay(panel) ==
    /\ panel \in overlays /\ ~guide.open
    /\ overlays' = overlays \ {panel}
    /\ UNCHANGED <<currentPage, guide, setup>> /\ Unmade

-----------------------------------------------------------------------------
(* The form.                                                                *)

OpenForm ==
    /\ ~Blocked /\ currentPage = "home" /\ newTicket.no < MaxForm
    /\ newTicket' = [NoForm EXCEPT !.no = newTicket.no + 1, !.open = TRUE]
    /\ UNCHANGED <<currentPage, overlays, made, making, guide, setup, escaped, lost>>

FillForm ==
    /\ newTicket.open /\ ~guide.open
    /\ newTicket' = [newTicket EXCEPT !.filled = TRUE]
    /\ UNCHANGED <<currentPage, overlays, made, making, guide, setup, escaped, lost>>

\* handleSubmit: the project needs a path, and the form its fields.
SubmitForm(c) ==
    /\ newTicket.open /\ newTicket.filled /\ ~newTicket.isSaving /\ ~guide.open
    /\ making[c] = NoMake
    /\ making' = [making EXCEPT ![c] = [form |-> newTicket.no, at |-> "sent"]]
    /\ newTicket' = [newTicket EXCEPT !.isSaving = TRUE]
    /\ UNCHANGED <<currentPage, overlays, made, guide, setup, escaped, lost>>

\* The cross, Cancel and the backdrop.
CancelForm ==
    /\ newTicket.open /\ ~newTicket.isSaving /\ ~guide.open
    /\ newTicket' = [newTicket EXCEPT !.open = FALSE]
    /\ UNCHANGED <<currentPage, overlays, made, making, guide, setup, escaped, lost>>

MakeTicket(c) ==
    /\ making[c].form # 0 /\ making[c].at = "sent"
    /\ made[making[c].form] < MaxMade
    /\ made' = [made EXCEPT ![making[c].form] = @ + 1]
    /\ making' = [making EXCEPT ![c].at = "answered"]
    /\ UNCHANGED <<currentPage, overlays, newTicket, guide, setup, escaped, lost>>

RefuseTicket(c) ==
    /\ making[c].form # 0 /\ making[c].at # "failed"
    /\ making' = [making EXCEPT ![c].at = "failed"]
    /\ lost' = IF making[c].at = "answered" THEN lost \cup {making[c].form} ELSE lost
    /\ UNCHANGED <<currentPage, overlays, newTicket, made, guide, setup, escaped>>

\* onClose is the page's: it closes the form that is open.
TicketMade(c) ==
    /\ making[c].at = "answered"
    /\ newTicket' = [newTicket EXCEPT !.open = FALSE]
    /\ making' = [making EXCEPT ![c] = NoMake]
    /\ UNCHANGED <<currentPage, overlays, made, guide, setup, escaped, lost>>

TicketFailed(c) ==
    /\ making[c].at = "failed"
    /\ newTicket' = IF making[c].form = newTicket.no THEN [newTicket EXCEPT !.isSaving = FALSE] ELSE newTicket
    /\ making' = [making EXCEPT ![c] = NoMake]
    /\ UNCHANGED <<currentPage, overlays, made, guide, setup, escaped, lost>>

-----------------------------------------------------------------------------
(* closeTopOverlay, by the key, on the board only.  The requirement and the *)
(* guide, which lie on top, are not among what it closes.                   *)

Escape ==
    /\ currentPage = "home"
    /\ overlays' = CASE "ticket" \in overlays -> overlays \ {"ticket"}
                     [] OTHER -> overlays \ {"composer"}
    /\ IF overlays \cap {"ticket", "composer"} = {} /\ newTicket.open
       THEN /\ newTicket' = [newTicket EXCEPT !.open = FALSE]
            /\ escaped' = IF newTicket.isSaving THEN escaped \cup {newTicket.no} ELSE escaped
       ELSE UNCHANGED <<newTicket, escaped>>
    /\ UNCHANGED <<currentPage, made, making, guide, setup, lost>>

-----------------------------------------------------------------------------
(* The guide.  The effect opens it when what it depends on changes.         *)

FeedbackPrompted(s, g) ==
    IF s.needed /\ ~g.dismissed
    THEN [g EXCEPT !.open = TRUE, !.by = IF g.open THEN g.by ELSE "page"] ELSE g

\* The repository path, the models and the load of the tickets come and go.
SetupChanges ==
    /\ setup' = [setup EXCEPT !.needed = ~@]
    /\ guide' = FeedbackPrompted(setup', guide)
    /\ UNCHANGED <<currentPage, overlays>> /\ Unmade

OpenGuide ==
    /\ ~Blocked
    /\ guide' = [guide EXCEPT !.open = TRUE, !.by = "user"]
    /\ UNCHANGED <<currentPage, overlays, setup>> /\ Unmade

CloseGuide ==
    /\ guide.open
    /\ guide' = [guide EXCEPT !.open = FALSE]
    /\ UNCHANGED <<currentPage, overlays, setup>> /\ Unmade

\* "Open Settings" and "New requirement" close it.
GuideToModels ==
    /\ guide.open /\ setup.needed
    /\ guide' = [guide EXCEPT !.open = FALSE]
    /\ currentPage' = "models"
    /\ UNCHANGED <<overlays, setup>> /\ Unmade

GuideToRequirement ==
    /\ guide.open /\ ~setup.needed
    /\ guide' = [guide EXCEPT !.open = FALSE]
    /\ overlays' = overlays \cup {"composer"}
    /\ UNCHANGED <<currentPage, setup>> /\ Unmade

Dismissed == [guide EXCEPT !.open = FALSE, !.dismissed = TRUE]

DismissGuide ==
    /\ guide.open
    /\ guide' = Dismissed
    /\ UNCHANGED <<currentPage, overlays, setup>> /\ Unmade

SeedFromGuide ==
    /\ guide.open /\ ~setup.seeding
    /\ setup' = [setup EXCEPT !.seeding = TRUE]
    /\ UNCHANGED <<currentPage, overlays, guide>> /\ Unmade

\* Once seeded the demo requirement is shown and the guide dismissed.
GuideSeeded ==
    /\ setup.seeding
    /\ setup' = [setup EXCEPT !.seeding = FALSE]
    /\ \/ overlays' = overlays \cup {"requirement"} /\ guide' = Dismissed
       \/ UNCHANGED <<overlays, guide>>
    /\ UNCHANGED currentPage /\ Unmade

-----------------------------------------------------------------------------
ShellNext ==
    \/ \E page \in Pages: Navigate(page)
    \/ OpenTicketPanel \/ OpenRequirement \/ OpenNewRequirement
    \/ \E panel \in Panels: CloseOverlay(panel)
    \/ OpenForm \/ FillForm \/ CancelForm \/ Escape
    \/ \E c \in Calls:
          \/ SubmitForm(c) \/ MakeTicket(c) \/ RefuseTicket(c)
          \/ TicketMade(c) \/ TicketFailed(c)
    \/ SetupChanges \/ OpenGuide \/ CloseGuide \/ GuideToModels \/ GuideToRequirement
    \/ DismissGuide \/ SeedFromGuide \/ GuideSeeded

ShellSpec == ShellInit /\ [][ShellNext]_shellVars

-----------------------------------------------------------------------------
(* However often it is submitted again after an error, a form makes one     *)
(* ticket at most, unless an answer was lost.                               *)
OneTicketPerForm == \A i \in Forms \ lost: made[i] <= 1

(* A form that is being saved is on display, with its button disabled,      *)
(* until the answer comes; only the key closes it before.                   *)
SavingStaysOpen ==
    escaped = {} =>
        \A c \in Calls: making[c].form # 0 =>
            newTicket.no = making[c].form /\ newTicket.open /\ newTicket.isSaving

(* The page does not open the guide by itself once it was dismissed, by the *)
(* user or because the demo was seeded; the user opens it again at will.    *)
DismissedStaysAway == guide.dismissed /\ guide.open => guide.by = "user"
=============================================================================
