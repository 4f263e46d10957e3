---------------------------- MODULE WebActivity ----------------------------
(***************************************************************************)
(* The page that shows the events of the runs of a project as they come     *)
(* (ActivityPage.tsx).  How they are grouped into runs is display.          *)
(*                                                                          *)
(* Event ids grow with time over all projects.  The page keeps a cursor,    *)
(* the id of its last event, and the interval asks for what follows it.     *)
(***************************************************************************)
EXTENDS Naturals, FiniteSets, Sequences, SequencesExt, WebBase

CONSTANTS
    MaxEvent,   \* bound: events written
    FirstPage,  \* events a load gets
    NextPage,   \* events a poll gets
    DemoLast    \* the id of the last demo event

ASSUME EventsAssumption ==
    MaxEvent \in Nat /\ FirstPage \in Nat /\ NextPage \in Nat /\ DemoLast \in Nat

VARIABLES
    journal,    \* the events of the server: the project of each
    watched,    \* projectId
    stream,     \* events
    cursor,     \* lastEventIdRef
    waiting,    \* loading
    pull        \* the calls

activityVars == <<journal, watched, stream, cursor, waiting, pull>>

Sources == Projects \cup {"demo"}
Event == [id: 0..MaxEvent \cup {DemoLast}, of: Sources]

DemoEvents == <<[id |-> DemoLast, of |-> "demo"]>>

PullRecord ==
    [kind: {"none", "load", "poll"}, project: Projects, after: 0..MaxEvent \cup {DemoLast},
     at: {"sent", "answered", "failed"}, data: Seq(Event)]

NoPull == [kind |-> "none", project |-> DefaultProject, after |-> 0,
           at |-> "sent", data |-> <<>>]

Pull(kind, p, after) ==
    [NoPull EXCEPT !.kind = kind, !.project = p, !.after = after]

ActivityTypeOK ==
    /\ journal \in Seq(Projects) /\ Len(journal) <= MaxEvent
    /\ watched \in Projects
    /\ stream \in Seq(Event)
    /\ cursor \in 0..MaxEvent \cup {DemoLast}
    /\ waiting \in BOOLEAN
    /\ pull \in [Calls -> PullRecord]

\* The page is opened: its first load is under way.
ActivityInit ==
    /\ journal = <<>>
    /\ watched \in Projects
    /\ stream = <<>>
    /\ cursor = 0
    /\ waiting = TRUE
    /\ \E first \in Calls:
          pull = [c \in Calls |-> IF c = first THEN Pull("load", watched, 0) ELSE NoPull]

-----------------------------------------------------------------------------
(* The server: the oldest events of a project after an id, a page of them.  *)

LogEvent(p) ==
    /\ Len(journal) < MaxEvent
    /\ journal' = Append(journal, p)
    /\ UNCHANGED <<watched, stream, cursor, waiting, pull>>

EventAt(i) == [id |-> i, of |-> journal[i]]

\* ORDER BY id of the server, sort of the page: a set of events as a list.
InOrder(S) ==
    CHOOSE s \in [1..Cardinality(S) -> S]:
        \A i, j \in DOMAIN s: i < j => s[i].id < s[j].id

Events(p, after) ==
    InOrder({EventAt(i): i \in {n \in 1..Len(journal): journal[n] = p /\ n > after}})

Page(s, size) == SubSeq(s, 1, IF Len(s) < size THEN Len(s) ELSE size)

ServePull(c) ==
    LET q == pull[c] IN
    /\ q.kind # "none" /\ q.at = "sent"
    /\ pull' = [pull EXCEPT ![c].at = "answered", ![c].data =
                   Page(Events(q.project, q.after),
                        IF q.kind = "load" THEN FirstPage ELSE NextPage)]
    /\ UNCHANGED <<journal, watched, stream, cursor, waiting>>

FailPull(c) ==
    /\ pull[c].kind # "none" /\ pull[c].at # "failed"
    /\ pull' = [pull EXCEPT ![c].at = "failed", ![c].data = <<>>]
    /\ UNCHANGED <<journal, watched, stream, cursor, waiting>>

-----------------------------------------------------------------------------
(* The page.                                                                *)

StartPull(c, q) == pull[c] = NoPull /\ pull' = [pull EXCEPT ![c] = q]
PullDone(c) == pull' = [pull EXCEPT ![c] = NoPull]

\* The project changes: a load, over what is shown, and nothing is cancelled.
Watch(p, c) ==
    /\ p # watched
    /\ watched' = p
    /\ waiting' = TRUE
    /\ StartPull(c, Pull("load", p, 0))
    /\ UNCHANGED <<journal, stream, cursor>>

\* refreshEvents: not before there is something to follow.
PollEvents(c) ==
    /\ cursor # 0
    /\ StartPull(c, Pull("poll", watched, cursor))
    /\ UNCHANGED <<journal, watched, stream, cursor, waiting>>

LastId(s) == IF s = <<>> THEN 0 ELSE Last(s).id

\* loadInitial: the answer, or the demo events.
EventsShown(s) == stream' = s /\ cursor' = LastId(s)

EventsLoaded(c) ==
    /\ pull[c].kind = "load"
    /\ pull[c].at \in {"answered", "failed"}
    /\ EventsShown(IF pull[c].at = "failed" THEN DemoEvents ELSE pull[c].data)
    /\ waiting' = FALSE
    /\ PullDone(c)
    /\ UNCHANGED <<journal, watched>>

\* mergeEvents: what is not there yet, in the order of the ids.
Known(s) == {s[i].id: i \in DOMAIN s}
Merged(s, data) ==
    InOrder(Range(s) \cup {e \in Range(data): e.id \notin Known(s)})

EventsPolled(c) ==
    /\ pull[c].kind = "poll"
    /\ pull[c].at \in {"answered", "failed"}
    /\ IF pull[c].data = <<>> THEN UNCHANGED <<stream, cursor>>
       ELSE EventsShown(Merged(stream, pull[c].data))
    /\ PullDone(c)
    /\ UNCHANGED <<journal, watched, waiting>>

-----------------------------------------------------------------------------
ActivityNext ==
    \/ \E p \in Projects: LogEvent(p)
    \/ \E c \in Calls:
          \/ ServePull(c) \/ FailPull(c) \/ PollEvents(c)
          \/ \E p \in Projects: Watch(p, c)
          \/ EventsLoaded(c) \/ EventsPolled(c)

ActivitySpec == ActivityInit /\ [][ActivityNext]_activityVars

\* The page takes the answer of a poll; what must happen to a call that was
\* made; the interval.
PulledEvents ==
    \E c \in Calls: pull[c].at = "answered" /\ EventsPolled(c)

PullGoesOn(c) == ServePull(c) \/ FailPull(c) \/ EventsLoaded(c) \/ EventsPolled(c)

ActivityPolls == \E c \in Calls: PollEvents(c)

-----------------------------------------------------------------------------
(* The stream is in the order of the ids, without an event shown twice,     *)
(* whatever polls overlap and answer late (mergeEvents).                    *)
StreamInOrder == \A i, j \in DOMAIN stream: i < j => stream[i].id < stream[j].id

Attending(p) ==
    /\ watched = p
    /\ stream # <<>> /\ IsPrefix(stream, Events(p, 0))
    /\ \A c \in Calls: pull[c].kind = "none" \/ (pull[c].kind = "poll" /\ pull[c].project = p)

(* The page catches up: while it shows the beginning of a project's events, *)
(* and only polls are under way, it comes to show them all, a page at a     *)
(* time.  An empty stream is not polled, and a stream another project's     *)
(* late answer was merged into skips events for good.                       *)
ActivityCatchesUp ==
    \A p \in Projects: (<>[]Attending(p)) => (<>[](stream = Events(p, 0)))
=============================================================================
