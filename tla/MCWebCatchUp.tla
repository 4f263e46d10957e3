---------------------------- MODULE MCWebCatchUp -----------------------------
(***************************************************************************)
(* The parts of the web page that poll, checked for catching up: a behaviour*)
(* looks at one part, and the others stay in their initial states.          *)
(***************************************************************************)
EXTENDS WebBoard, WebGraph, WebChat, WebWorker, WebActivity, WebViews

CONSTANT f

\* The tickets of the graph all touch one file.
MCFiles == [t \in GraphTickets |-> {f}]

\* Only the tickets of one project are written.
MCVersions == [p \in Projects |-> IF p = DefaultProject THEN 1 ELSE 0]

VARIABLE part

partsVars ==
    <<part, boardVars, graphVars, chatVars, workerVars, activityVars,
      viewsVars>>

\* What the variables of a part are while another part is looked at.
BoardAside ==
    /\ server = [p \in Projects |-> [i \in Ids |-> [ver |-> 0, live |-> FALSE]]]
    /\ board = DemoTickets /\ selected = DefaultProject /\ demo = TRUE
    /\ request = [c \in Calls |-> NoRequest]

GraphAside ==
    GraphInit /\ needs = [t \in GraphTickets |-> {}]

ChatAside ==
    /\ owner = [m \in MsgIds |-> Nobody] /\ current = DefaultProject
    /\ chat = [shown |-> {}, last |-> 0]
    /\ sending = FALSE
    /\ talk = [c \in Calls |-> NoTalk]

WorkerAside ==
    WorkerInit /\ bound = Stopped /\ onBoard = DefaultProject

ActivityAside ==
    /\ journal = <<>> /\ watched = DefaultProject
    /\ stream = <<>> /\ cursor = 0 /\ waiting = FALSE
    /\ pull = [c \in Calls |-> NoPull]

ViewsAside ==
    /\ view = CHOOSE v \in Views: TRUE
    /\ written = [p \in Projects |-> 0] /\ showing = DefaultProject
    /\ shownOf = Nothing /\ viewLoading = FALSE
    /\ glance = [c \in Calls |-> NoGlance] /\ upset = TRUE

PartsInit ==
    /\ part \in {"board", "graph", "chat", "worker", "activity", "views"}
    /\ IF part = "board" THEN BoardInit ELSE BoardAside
    /\ IF part = "graph" THEN GraphInit ELSE GraphAside
    /\ IF part = "chat" THEN ChatInit ELSE ChatAside
    /\ IF part = "worker" THEN WorkerInit ELSE WorkerAside
    /\ IF part = "activity" THEN ActivityInit ELSE ActivityAside
    /\ IF part = "views" THEN ViewsInit ELSE ViewsAside

Only(p) ==
    /\ part = p /\ UNCHANGED part
    /\ IF p = "board" THEN TRUE ELSE UNCHANGED boardVars
    /\ IF p = "graph" THEN TRUE ELSE UNCHANGED graphVars
    /\ IF p = "chat" THEN TRUE ELSE UNCHANGED chatVars
    /\ IF p = "worker" THEN TRUE ELSE UNCHANGED workerVars
    /\ IF p = "activity" THEN TRUE ELSE UNCHANGED activityVars
    /\ IF p = "views" THEN TRUE ELSE UNCHANGED viewsVars

PartsNext ==
    \/ Only("board") /\ BoardNext
    \/ Only("graph") /\ GraphNext
    \/ Only("chat") /\ ChatNext
    \/ Only("worker") /\ WorkerNext
    \/ Only("activity") /\ ActivityNext
    \/ Only("views") /\ ViewsNext

PartsSpec == PartsInit /\ [][PartsNext]_partsVars

-----------------------------------------------------------------------------
(* The fairness of the modules.  A behaviour looks at one part, so that one *)
(* condition on the step of whichever part it is says the same as one each. *)

\* Calls are answered and the page takes the answers.
CallEnds(c) ==
    \/ Only("board") /\ (Serve(c) \/ Answer(c))
    \/ Only("graph") /\ StartRefresh
    \/ Only("chat") /\ (ServeTalk(c) \/ AnswerTalk(c))
    \/ Only("worker") /\ ErrandGoesOn(c)
    \/ Only("activity") /\ PullGoesOn(c)
    \/ Only("views") /\ GlanceGoesOn(c)

\* Intervals fire; the graph is read a first time.
Polls ==
    \/ Only("board") /\ \E c \in Calls: Poll(c) /\ Polled
    \/ Only("graph") /\ ReadTickets
    \/ Only("chat") /\ ChatPolls
    \/ Only("worker") /\ StatusPolls
    \/ Only("activity") /\ ActivityPolls
    \/ Only("views") /\ ViewsPolls

\* Polls are not refused for ever.
PollAnswered ==
    \/ Only("board") /\ PollServed
    \/ Only("graph") /\ ListAnswered
    \/ Only("chat") /\ \E c \in Calls: talk[c].kind = "refresh" /\ ServeList(c)
    \/ Only("worker") /\ \E c \in Calls: errand[c].kind = "poll" /\ ServeErrand(c)
    \/ Only("activity") /\ \E c \in Calls: pull[c].kind = "poll" /\ ServePull(c)

\* Nor do their answers get lost for ever; the graph is read to its end.
PollTaken ==
    \/ Only("board") /\ \E c \in Calls: Refreshed(c)
    \/ Only("graph") /\ (ReadLeases \/ Shown)
    \/ Only("chat") /\ PollHeard
    \/ Only("activity") /\ PulledEvents

PartsFairness ==
    /\ \A c \in Calls: WF_partsVars(CallEnds(c))
    /\ SF_partsVars(Polls) /\ SF_partsVars(PollAnswered) /\ SF_partsVars(PollTaken)

PartsFairSpec == PartsSpec /\ PartsFairness

-----------------------------------------------------------------------------
(* What arrives in pieces arrives: the messages of the chat and the events  *)
(* of the activity page, each asked for from the last one received.         *)
StreamsCatchUp == ChatCatchesUp /\ ActivityCatchesUp
=============================================================================
