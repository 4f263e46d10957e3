------------------------------ MODULE MCWebPage ------------------------------
(***************************************************************************)
(* The parts of the web page, which share no state, checked in one run: a   *)
(* behaviour looks at one part, and the others stay in their initial states.*)
(***************************************************************************)
EXTENDS WebAuth, WebDetail, WebComposer, WebSettings, WebChat, WebChatForm,
        WebWorker, WebProjects, WebActivity, WebInbox, WebViews, WebEvals,
        WebShell, WebForm, WebTemplates, WebReview, WebSso, WebBoard,
        WebGraph

CONSTANT f

\* The tickets of the graph all touch one file.
MCFiles == [t \in GraphTickets |-> {f}]

\* Only the tickets of one project are written.
MCVersions == [p \in Projects |-> IF p = DefaultProject THEN 1 ELSE 0]

VARIABLE part

partsVars ==
    <<part, authVars, detailVars, composerVars, settingsVars, chatVars,
      formVars, workerVars, projectsVars, activityVars, inboxVars, viewsVars,
      evalsVars, shellVars, webFormVars, templatesVars, reviewVars, ssoVars,
      boardVars, graphVars>>

\* What the variables of a part are while another part is looked at.
AuthAside ==
    /\ call = [c \in Calls |-> Idle] /\ token = "none" /\ flag = "none"
    /\ dialog = Closed /\ mode = "open" /\ modes = 0

DetailAside ==
    DetailInit /\ mock = FALSE

ComposerAside ==
    ComposerInit /\ chosen = DefaultProject

SettingsAside ==
    /\ group = {"webhook"} /\ stored = Defaults /\ page = Defaults
    /\ draft = Defaults /\ busy = FALSE /\ tainted = FALSE
    /\ save = [c \in Calls |-> NoSave]

ChatAside ==
    /\ owner = [m \in MsgIds |-> Nobody] /\ current = DefaultProject
    /\ chat = [shown |-> {}, last |-> 0]
    /\ sending = FALSE
    /\ talk = [c \in Calls |-> NoTalk]

FormAside ==
    FormInit /\ onProject = DefaultProject

WorkerAside ==
    WorkerInit /\ bound = Stopped /\ onBoard = DefaultProject

ProjectsAside ==
    ProjectsInit /\ selectedId = DefaultProject

ActivityAside ==
    /\ journal = <<>> /\ watched = DefaultProject
    /\ stream = <<>> /\ cursor = 0 /\ waiting = FALSE
    /\ pull = [c \in Calls |-> NoPull]

InboxAside ==
    InboxInit /\ home = DefaultProject

AnyView == CHOOSE v \in Views: TRUE

ViewsAside ==
    /\ view = AnyView
    /\ written = [p \in Projects |-> 0] /\ showing = DefaultProject
    /\ shownOf = Nothing /\ viewLoading = FALSE
    /\ glance = [c \in Calls |-> NoGlance] /\ upset = TRUE

EvalsAside ==
    /\ evals = [i \in RunIds |-> NoEval] /\ tasks = {}
    /\ picked = AnyTarget /\ runs = {} /\ starting = FALSE
    /\ inquiry = [c \in Calls |-> NoInquiry]

ShellAside ==
    ShellInit /\ guide.dismissed = TRUE

TargetAside ==
    /\ ofBoard = DefaultProject
    /\ target = [project |-> ofBoard, repo |-> ofBoard, command |-> Blank]
    /\ decomposing = FALSE /\ detecting = FALSE
    /\ probe = [c \in Calls |-> NoProbe]

TemplatesAside ==
    TemplatesInit

ReviewAside ==
    ReviewInit

SsoAside ==
    Visit(FALSE) /\ session = FALSE

BoardAside ==
    /\ server = [p \in Projects |-> [i \in Ids |-> [ver |-> 0, live |-> FALSE]]]
    /\ board = DemoTickets /\ selected = DefaultProject /\ demo = TRUE
    /\ request = [c \in Calls |-> NoRequest]

GraphAside ==
    GraphInit /\ needs = [t \in GraphTickets |-> {}]

PartsInit ==
    /\ part \in {"auth", "detail", "composer", "settings", "chat", "form",
                "worker", "projects", "activity", "inbox", "views", "evals",
                "shell", "target", "templates", "review", "sso", "board",
                "graph"}
    /\ IF part = "auth" THEN AuthInit ELSE AuthAside
    /\ IF part = "detail" THEN DetailInit ELSE DetailAside
    /\ IF part = "composer" THEN ComposerInit ELSE ComposerAside
    /\ IF part = "settings" THEN SettingsInit ELSE SettingsAside
    /\ IF part = "chat" THEN ChatInit ELSE ChatAside
    /\ IF part = "form" THEN FormInit ELSE FormAside
    /\ IF part = "worker" THEN WorkerInit ELSE WorkerAside
    /\ IF part = "projects" THEN ProjectsInit ELSE ProjectsAside
    /\ IF part = "activity" THEN ActivityInit ELSE ActivityAside
    /\ IF part = "inbox" THEN InboxInit ELSE InboxAside
    /\ IF part = "views" THEN ViewsInit ELSE ViewsAside
    /\ IF part = "evals" THEN EvalsInit ELSE EvalsAside
    /\ IF part = "shell" THEN ShellInit ELSE ShellAside
    /\ IF part = "target" THEN WebFormInit ELSE TargetAside
    /\ IF part = "templates" THEN TemplatesInit ELSE TemplatesAside
    /\ IF part = "review" THEN ReviewInit ELSE ReviewAside
    /\ IF part = "sso" THEN SsoInit ELSE SsoAside
    /\ IF part = "board" THEN BoardInit ELSE BoardAside
    /\ IF part = "graph" THEN GraphInit ELSE GraphAside

Only(p) ==
    /\ part = p /\ UNCHANGED part
    /\ IF p = "auth" THEN TRUE ELSE UNCHANGED authVars
    /\ IF p = "detail" THEN TRUE ELSE UNCHANGED detailVars
    /\ IF p = "composer" THEN TRUE ELSE UNCHANGED composerVars
    /\ IF p = "settings" THEN TRUE ELSE UNCHANGED settingsVars
    /\ IF p = "chat" THEN TRUE ELSE UNCHANGED chatVars
    /\ IF p = "form" THEN TRUE ELSE UNCHANGED formVars
    /\ IF p = "worker" THEN TRUE ELSE UNCHANGED workerVars
    /\ IF p = "projects" THEN TRUE ELSE UNCHANGED projectsVars
    /\ IF p = "activity" THEN TRUE ELSE UNCHANGED activityVars
    /\ IF p = "inbox" THEN TRUE ELSE UNCHANGED inboxVars
    /\ IF p = "views" THEN TRUE ELSE UNCHANGED viewsVars
    /\ IF p = "evals" THEN TRUE ELSE UNCHANGED evalsVars
    /\ IF p = "shell" THEN TRUE ELSE UNCHANGED shellVars
    /\ IF p = "target" THEN TRUE ELSE UNCHANGED webFormVars
    /\ IF p = "templates" THEN TRUE ELSE UNCHANGED templatesVars
    /\ IF p = "review" THEN TRUE ELSE UNCHANGED reviewVars
    /\ IF p = "sso" THEN TRUE ELSE UNCHANGED ssoVars
    /\ IF p = "board" THEN TRUE ELSE UNCHANGED boardVars
    /\ IF p = "graph" THEN TRUE ELSE UNCHANGED graphVars

PartsNext ==
    \/ Only("auth") /\ AuthNext
    \/ Only("detail") /\ DetailNext
    \/ Only("composer") /\ ComposerNext
    \/ Only("settings") /\ SettingsNext
    \/ Only("chat") /\ ChatNext
    \/ Only("form") /\ FormNext
    \/ Only("worker") /\ WorkerNext
    \/ Only("projects") /\ ProjectsNext
    \/ Only("activity") /\ ActivityNext
    \/ Only("inbox") /\ InboxNext
    \/ Only("views") /\ ViewsNext
    \/ Only("evals") /\ EvalsNext
    \/ Only("shell") /\ ShellNext
    \/ Only("target") /\ WebFormNext
    \/ Only("templates") /\ TemplatesNext
    \/ Only("review") /\ ReviewNext
    \/ Only("sso") /\ SsoNext
    \/ Only("board") /\ BoardNext
    \/ Only("graph") /\ GraphNext

PartsSpec == PartsInit /\ [][PartsNext]_partsVars

\* What tells two states apart: the part looked at.  The others do not move.
PartView ==
    <<part, CASE part = "auth" -> authVars
              [] part = "detail" -> detailVars
              [] part = "composer" -> composerVars
              [] part = "settings" -> settingsVars
              [] part = "chat" -> chatVars
              [] part = "form" -> formVars
              [] part = "worker" -> workerVars
              [] part = "projects" -> projectsVars
              [] part = "activity" -> activityVars
              [] part = "inbox" -> inboxVars
              [] part = "views" -> viewsVars
              [] part = "evals" -> evalsVars
              [] part = "shell" -> shellVars
              [] part = "target" -> webFormVars
              [] part = "templates" -> templatesVars
              [] part = "review" -> reviewVars
              [] part = "sso" -> ssoVars
              [] part = "board" -> boardVars
              [] part = "graph" -> graphVars>>

-----------------------------------------------------------------------------
(* Types: each part keeps its own. *)
PageTypeOK ==
    CASE part = "auth" -> AuthTypeOK
      [] part = "detail" -> DetailTypeOK
      [] part = "composer" -> ComposerTypeOK
      [] part = "settings" -> SettingsTypeOK
      [] part = "chat" -> ChatTypeOK
      [] part = "form" -> FormTypeOK
      [] part = "worker" -> WorkerTypeOK
      [] part = "projects" -> ProjectsTypeOK
      [] part = "activity" -> ActivityTypeOK
      [] part = "inbox" -> InboxTypeOK
      [] part = "views" -> ViewsTypeOK
      [] part = "evals" -> EvalsTypeOK
      [] part = "shell" -> ShellTypeOK
      [] part = "target" -> WebFormTypeOK
      [] part = "templates" -> TemplatesTypeOK
      [] part = "review" -> ReviewTypeOK
      [] part = "sso" -> SsoTypeOK
      [] part = "board" -> BoardTypeOK
      [] part = "graph" -> GraphTypeOK

(* A press counts once: a requirement makes its tickets once, one message   *)
(* is answered at a time and carries its files alone, one start of the pool *)
(* is listened to, a form makes one ticket.                                 *)
DoneOnce == MadeOnce /\ OneTurn /\ FilesGoOnce /\ OneRebind /\ OneTicketPerForm

(* What the page shows is so, or was: cards, previews, messages, events,    *)
(* settings, projects, templates and errors are the server's, in its order, *)
(* and the graph calls ready what a worker may claim.                       *)
ShownIsReal ==
    /\ CardsAreReal /\ GraphTellsClaims /\ PreviewIsSaved /\ AnswersAreWritten
    /\ StreamInOrder /\ SettingsAgree /\ ListAgrees
    /\ SavedIsOffered /\ SelectedIsOffered /\ ErrorIsTrue

(* What the user does, and what an answer fills in, is for the ticket or    *)
(* the project it was meant for, whatever the page has turned to since.     *)
KeptToItsOwn ==
    /\ DraftIsMine /\ ChecklistIsOfTicket /\ ConfirmedWhereAsked
    /\ OrdersAreMeant /\ OpensItsProject /\ RepoIsOfTarget

(* What the user chose holds: what is approved is what is shown, what is    *)
(* made is what was left in, files are not lost, a form that is saved stays *)
(* and a guide that was dismissed stays away.                               *)
ChoicesHold ==
    /\ ApprovedIsShown /\ ChosenIsMade /\ ListedIsMade /\ FilesAreKept
    /\ SavingStaysOpen /\ DismissedStaysAway

(* Nothing waits for nobody: whatever is shown as loading, saving or busy   *)
(* waits for a call that is under way, and an open dialog for its caller.   *)
NothingHangs ==
    /\ DialogHasWaiter /\ LoadingIsAsked /\ SavingIsAsked /\ UploadingIsAsked
    /\ PanelIsAsked /\ DetectingIsAsked /\ SsoBusyIsAsked

(* A late answer does no harm: it neither takes a confirmation back, nor    *)
(* overwrites the other half of a setting, nor turns a view back, nor fills *)
(* in a form that has gone on.                                              *)
LateIsHarmless == ConfirmedForGood /\ OtherHalfKept /\ NotTurnedBack /\ DetectedForTarget
=============================================================================
