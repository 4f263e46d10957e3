---------------------------- MODULE WebProjects ----------------------------
(***************************************************************************)
(* The projects of the page: the switcher with its two panels               *)
(* (ProjectSwitcher.tsx), and the handlers of App.tsx that create, change,  *)
(* delete and seed projects and turn the page to one.                       *)
(*                                                                          *)
(* The settings panel holds the fields of the project that was selected as  *)
(* it was opened, and acts on the one that is selected when a button of it  *)
(* is pressed.  Answers that come late turn the selection under the panel.  *)
(***************************************************************************)
EXTENDS Naturals, WebBase

CONSTANTS
    ProjectIds,    \* the ids projects can have
    DemoProject    \* the project that seeding creates

ASSUME DemoProjectAssumption ==
    DefaultProject \in ProjectIds /\ DemoProject \in ProjectIds \ {DefaultProject}

VARIABLES
    existing,     \* the server's projects
    projects,     \* the projects the page lists
    selectedId,   \* selectedProjectId
    switcher,     \* the panel of the switcher
    seeding,      \* seedingDemo
    order,        \* the calls
    stray         \* history: calls that change the list crossed, or one was lost

projectsVars ==
    <<existing, projects, selectedId, switcher, seeding, order, stray>>

\* "of", "askedOn": history, the project whose fields were loaded and the one
\* the deletion was asked about; "turned": history, an answer changed the
\* selection under the open panel.
SwitcherRecord ==
    [panel: {"none", "add", "settings"}, of: ProjectIds,
     confirmDelete: BOOLEAN, askedOn: ProjectIds, turned: BOOLEAN,
     isSaving: BOOLEAN]

\* "meant": history, the project the user was shown; "list": the projects an
\* answer carries.
OrderRecord ==
    [kind: {"none", "create", "save", "delete", "seed"}, project: ProjectIds,
     meant: ProjectIds, at: {"sent", "again", "answered", "refused"}, list: SUBSET ProjectIds]

NoOrder == [kind |-> "none", project |-> DefaultProject, meant |-> DefaultProject,
            at |-> "sent", list |-> {}]

NoPanel(s) == [s EXCEPT !.panel = "none", !.of = DefaultProject,
                        !.confirmDelete = FALSE, !.askedOn = DefaultProject,
                        !.turned = FALSE]

ClosedSwitcher ==
    [panel |-> "none", of |-> DefaultProject, confirmDelete |-> FALSE,
     askedOn |-> DefaultProject, turned |-> FALSE, isSaving |-> FALSE]

ProjectsTypeOK ==
    /\ existing \subseteq ProjectIds
    /\ projects \subseteq ProjectIds
    /\ selectedId \in ProjectIds
    /\ switcher \in SwitcherRecord
    /\ seeding \in BOOLEAN
    /\ order \in [Calls -> OrderRecord]
    /\ stray \in BOOLEAN

ProjectsInit ==
    /\ existing = {DefaultProject}
    /\ projects = existing
    /\ selectedId \in existing
    /\ switcher = ClosedSwitcher
    /\ seeding = FALSE
    /\ order = [c \in Calls |-> NoOrder]
    /\ stray = FALSE

-----------------------------------------------------------------------------
(* The server.  Seeding makes the demo project when it is not there; the    *)
(* page then asks for the list of projects.  The default project cannot be  *)
(* deleted.                                                                 *)

ServeOrder(c) ==
    LET q == order[c] IN
    /\ q.kind # "none"
    /\ q.at = "sent"
    /\ CASE q.kind = "create" -> q.project \notin existing
         [] q.kind = "seed" -> TRUE
         [] q.kind = "save" -> q.project \in existing
         [] OTHER -> q.project \in existing \ {DefaultProject}
    /\ existing' = CASE q.kind \in {"create", "seed"} -> existing \cup {q.project}
                     [] q.kind = "delete" -> existing \ {q.project}
                     [] OTHER -> existing
    /\ order' = [order EXCEPT ![c].at = IF q.kind = "seed" THEN "again" ELSE "answered"]
    /\ UNCHANGED <<projects, selectedId, switcher, seeding, stray>>

ServeListing(c) ==
    /\ order[c].at = "again"
    /\ order' = [order EXCEPT ![c].at = "answered", ![c].list = existing]
    /\ UNCHANGED <<existing, projects, selectedId, switcher, seeding, stray>>

RefuseOrder(c) ==
    /\ order[c].kind # "none"
    /\ order[c].at \in {"sent", "again", "answered"}
    /\ order' = [order EXCEPT ![c].at = "refused", ![c].list = {}]
    /\ stray' = (stray \/ order[c].at # "sent")
    /\ UNCHANGED <<existing, projects, selectedId, switcher, seeding>>

-----------------------------------------------------------------------------
(* The switcher.                                                            *)

OnlySwitcher ==
    UNCHANGED <<existing, projects, selectedId, seeding, order, stray>>

\* The select closes the panels first.
SelectProject(p) ==
    /\ p \in projects \ {selectedId}
    /\ switcher' = NoPanel(switcher)
    /\ selectedId' = p
    /\ UNCHANGED <<existing, projects, seeding, order, stray>>

\* The gear opens the panel on the fields of the selected project, or closes it.
OpenSettings ==
    /\ selectedId \in projects
    /\ switcher' = IF switcher.panel = "settings" THEN NoPanel(switcher)
                   ELSE [NoPanel(switcher) EXCEPT !.panel = "settings",
                                               !.of = selectedId]
    /\ OnlySwitcher

OpenAdd ==
    /\ switcher' = IF switcher.panel = "add" THEN NoPanel(switcher)
                   ELSE [NoPanel(switcher) EXCEPT !.panel = "add"]
    /\ OnlySwitcher

\* Cancel, Escape, or a press anywhere else.
ClosePanels ==
    /\ switcher.panel # "none"
    /\ switcher' = NoPanel(switcher)
    /\ OnlySwitcher

AtSettings == switcher.panel = "settings" /\ selectedId \in projects

AskDelete ==
    /\ AtSettings
    /\ selectedId # DefaultProject
    /\ ~switcher.isSaving
    /\ switcher' = [switcher EXCEPT !.confirmDelete = TRUE, !.askedOn = selectedId]
    /\ OnlySwitcher

-----------------------------------------------------------------------------
(* The calls.  One button of the panels waits at a time.                    *)

Order(c, kind, p, meant) ==
    /\ order[c] = NoOrder
    /\ order' = [order EXCEPT ![c] =
                    [NoOrder EXCEPT !.kind = kind, !.project = p, !.meant = meant]]
    /\ stray' = (stray \/ \E d \in Calls: order[d].kind \notin {"none", "save"})
    /\ UNCHANGED <<existing, projects, selectedId>>

PanelWaits ==
    /\ ~switcher.isSaving
    /\ switcher' = [switcher EXCEPT !.isSaving = TRUE]
    /\ UNCHANGED seeding

\* What the panel was about, but for answers that turned the page under it.
Meant(p) == IF switcher.turned THEN selectedId ELSE p

CreateProject(c, p) ==
    /\ switcher.panel = "add"
    /\ p # DemoProject
    /\ PanelWaits
    /\ Order(c, "create", p, p)

SaveProject(c) ==
    /\ AtSettings
    /\ PanelWaits
    /\ Order(c, "save", selectedId, Meant(switcher.of))

DeleteProject(c) ==
    /\ AtSettings
    /\ switcher.confirmDelete
    /\ PanelWaits
    /\ Order(c, "delete", selectedId, Meant(switcher.askedOn))

\* "Try the demo project" of the setup guide.
SeedDemo(c) ==
    /\ ~seeding
    /\ seeding' = TRUE
    /\ Order(c, "seed", DemoProject, DemoProject)
    /\ UNCHANGED switcher

-----------------------------------------------------------------------------
(* Answers.                                                                 *)

OrderDone(c) == order' = [order EXCEPT ![c] = NoOrder] /\ UNCHANGED stray

\* An answer turns the page to a project, whatever panel is open.
Turned(s, p) == IF s.panel = "settings" /\ p # selectedId
                THEN [s EXCEPT !.turned = TRUE] ELSE s

Answered(c, kind) == order[c].kind = kind /\ order[c].at = "answered" /\ OrderDone(c)

Created(c) ==
    LET p == order[c].project
        s == [switcher EXCEPT !.isSaving = FALSE] IN
    /\ Answered(c, "create")
    /\ projects' = projects \cup {p}
    /\ selectedId' = p
    /\ switcher' = IF s.panel = "add" THEN NoPanel(s) ELSE Turned(s, p)
    /\ UNCHANGED <<existing, seeding>>

ProjectSaved(c) ==
    /\ Answered(c, "save")
    /\ switcher' = LET s == [switcher EXCEPT !.isSaving = FALSE] IN
                   IF s.panel = "settings" THEN NoPanel(s) ELSE s
    /\ UNCHANGED <<existing, projects, selectedId, seeding>>

\* The selection moves to the first project left when the one selected is gone.
Deleted(c) ==
    /\ Answered(c, "delete")
    /\ projects' = projects \ {order[c].project}
    /\ IF selectedId = order[c].project
       THEN selectedId' \in (IF projects' = {} THEN {DefaultProject} ELSE projects')
       ELSE UNCHANGED selectedId
    /\ switcher' = NoPanel([switcher EXCEPT !.isSaving = FALSE])
    /\ UNCHANGED <<existing, seeding>>

\* The list as the server had it then, and the page on the demo project.
Seeded(c) ==
    /\ Answered(c, "seed")
    /\ projects' = order[c].list
    /\ selectedId' = DemoProject
    /\ switcher' = Turned(switcher, DemoProject)
    /\ seeding' = FALSE
    /\ UNCHANGED existing

OrderFailed(c) ==
    /\ order[c].at = "refused"
    /\ OrderDone(c)
    /\ IF order[c].kind = "seed" THEN seeding' = FALSE /\ UNCHANGED switcher
       ELSE /\ switcher' = [switcher EXCEPT !.isSaving = FALSE]
            /\ UNCHANGED seeding
    /\ UNCHANGED <<existing, projects, selectedId>>

-----------------------------------------------------------------------------
ProjectsNext ==
    \/ \E p \in ProjectIds: SelectProject(p)
    \/ OpenSettings \/ OpenAdd \/ ClosePanels \/ AskDelete
    \/ \E c \in Calls:
          \/ ServeOrder(c) \/ ServeListing(c) \/ RefuseOrder(c)
          \/ \E p \in ProjectIds: CreateProject(c, p)
          \/ SaveProject(c) \/ DeleteProject(c) \/ SeedDemo(c)
          \/ Created(c) \/ ProjectSaved(c) \/ Deleted(c) \/ Seeded(c) \/ OrderFailed(c)

ProjectsSpec == ProjectsInit /\ [][ProjectsNext]_projectsVars

-----------------------------------------------------------------------------
(* Settings are saved for the project they were loaded for, and a project   *)
(* is deleted only if the question named it, however often the user changes *)
(* the project; only an answer that turned the page under the open panel    *)
(* mixes them up.                                                           *)
OrdersAreMeant ==
    \A c \in Calls: order[c].project = order[c].meant

(* The page is on a project it lists, and lists what the server has once    *)
(* the calls are over, whichever project was created, deleted or seeded,    *)
(* unless such calls crossed or an answer was lost.                         *)
ListAgrees ==
    (~stray /\ \A c \in Calls: order[c] = NoOrder) =>
        selectedId \in projects /\ projects = existing

(* The buttons of a panel, and that of the demo project, wait for a call    *)
(* that is under way.                                                       *)
PanelIsAsked ==
    /\ switcher.isSaving =>
           \E c \in Calls: order[c].kind \in {"create", "save", "delete"}
    /\ seeding => \E c \in Calls: order[c].kind = "seed"
=============================================================================
