----------------------------- MODULE WebInbox -----------------------------
(***************************************************************************)
(* The inbox (InboxPage.tsx): the notifications of the project of the page  *)
(* or of all, polled, marked as read one by one or all at once, and opened. *)
(* The page is connected; a load that fails shows the demo notifications.   *)
(*                                                                          *)
(* Opening an unread notification waits until the server has marked it; the *)
(* handler then leaves the inbox for the board and turns it to the          *)
(* notification's project, by what the project was when it was pressed.     *)
(***************************************************************************)
EXTENDS Naturals, WebBase

CONSTANTS
    NoteIds,    \* notifications
    DemoNotes,  \* the ids the demo notifications have
    NoOne      \* the notification does not exist

ASSUME InboxAssumption == DemoNotes \subseteq NoteIds /\ NoOne \notin Projects

VARIABLES
    noteOf,    \* the server's notifications: the project of each
    readNotes, \* those that are read
    home,      \* selectedProjectId
    scope,     \* the tab: this project, or all
    inbox,     \* notifications: those shown, and whether the demo ones are;
               \* "open": currentPage is the inbox
    marking,   \* markingId, markingAll
    look,      \* the calls
    landed,    \* the notification opened last, and whose the page took it to be
    strayed    \* history: the project changed as one was being opened

inboxVars == <<noteOf, readNotes, home, scope, inbox, marking, look, landed, strayed>>

None == 0
NoteRange == NoteIds \cup {None}

InboxRecord == [ids: SUBSET NoteIds, unread: SUBSET NoteIds, demo: BOOLEAN, open: BOOLEAN]

\* "home": the project of the page when the call began; "of": the project of
\* the notification as it was shown; "seen": the inbox that called is still
\* there.  "markAll" loads the list again.
LookRecord ==
    [kind: {"none", "load", "read", "open", "markAll"}, note: NoteRange,
     home: Projects, of: Projects, scope: {"project", "all"},
     at: {"sent", "again", "answered", "failed"},
     ids: SUBSET NoteIds, unread: SUBSET NoteIds, seen: BOOLEAN]

NoLook == [kind |-> "none", note |-> None, home |-> DefaultProject, of |-> DefaultProject,
           scope |-> "project", at |-> "sent", ids |-> {}, unread |-> {},
           seen |-> TRUE]

NoList == [ids |-> {}, unread |-> {}, demo |-> FALSE, open |-> TRUE]

NoLanding == [note |-> None, of |-> DefaultProject]

InboxTypeOK ==
    /\ noteOf \in [NoteIds -> Projects \cup {NoOne}]
    /\ readNotes \subseteq {n \in NoteIds: noteOf[n] # NoOne}
    /\ home \in Projects /\ scope \in {"project", "all"}
    /\ inbox \in InboxRecord /\ inbox.unread \subseteq inbox.ids
    /\ marking \in [note: NoteRange, all: BOOLEAN]
    /\ look \in [Calls -> LookRecord]
    /\ landed \in [note: NoteRange, of: Projects]
    /\ strayed \in BOOLEAN

InboxInit ==
    /\ noteOf = [n \in NoteIds |-> NoOne]
    /\ readNotes = {}
    /\ home \in Projects
    /\ scope = "project"
    /\ inbox = [NoList EXCEPT !.open = FALSE]
    /\ marking = [note |-> None, all |-> FALSE]
    /\ look = [c \in Calls |-> NoLook]
    /\ landed = NoLanding
    /\ strayed = FALSE

-----------------------------------------------------------------------------
(* The server.                                                              *)

OnlyServer == UNCHANGED <<home, scope, inbox, marking, landed, strayed>>

RecordNote(n, p) ==
    /\ noteOf[n] = NoOne
    /\ \A m \in NoteIds: m < n => noteOf[m] # NoOne
    /\ noteOf' = [noteOf EXCEPT ![n] = p]
    /\ UNCHANGED <<readNotes, look>> /\ OnlyServer

InScope(s, p) == {n \in NoteIds: noteOf[n] # NoOne /\ (s = "project" => noteOf[n] = p)}

InboxAnswer(c, ids, read) ==
    look' = [look EXCEPT ![c].at = "answered", ![c].ids = ids, ![c].unread = ids \ read]

ServeInbox(c) ==
    /\ look[c].kind = "load" /\ look[c].at = "sent"
    /\ InboxAnswer(c, InScope(look[c].scope, look[c].home), readNotes)
    /\ UNCHANGED <<noteOf, readNotes>> /\ OnlyServer

MarkRead(c) ==
    LET n == look[c].note IN
    /\ look[c].kind \in {"read", "open"} /\ look[c].at = "sent"
    /\ noteOf[n] # NoOne
    /\ readNotes' = readNotes \cup {n}
    /\ InboxAnswer(c, {n}, readNotes')
    /\ UNCHANGED noteOf /\ OnlyServer

MarkAllRead(c) ==
    /\ look[c].kind = "markAll" /\ look[c].at = "sent"
    /\ readNotes' = readNotes \cup InScope(look[c].scope, look[c].home)
    /\ look' = [look EXCEPT ![c].at = "again"]
    /\ UNCHANGED noteOf /\ OnlyServer

\* The load that follows "mark all".
ServeInboxAgain(c) ==
    /\ look[c].at = "again"
    /\ InboxAnswer(c, InScope(look[c].scope, look[c].home), readNotes)
    /\ UNCHANGED <<noteOf, readNotes>> /\ OnlyServer

FailLook(c) ==
    /\ look[c].kind # "none" /\ look[c].at \in {"sent", "answered"}
    /\ look' = [look EXCEPT ![c].at = "failed", ![c].ids = {}, ![c].unread = {}]
    /\ UNCHANGED <<noteOf, readNotes>> /\ OnlyServer

-----------------------------------------------------------------------------
(* The page.                                                                *)

Begin(c, kind, n, of) ==
    /\ look[c] = NoLook
    /\ look' = [look EXCEPT ![c] = [NoLook EXCEPT !.kind = kind, !.note = n, !.of = of,
                                                 !.home = home', !.scope = scope']]
LookOver(c) == look' = [look EXCEPT ![c] = NoLook]

Opening == \E d \in Calls: look[d].kind = "open"

OpenInbox(c) ==
    /\ ~inbox.open
    /\ inbox' = NoList
    /\ scope' = "project"
    /\ UNCHANGED home
    /\ Begin(c, "load", None, DefaultProject)
    /\ landed' = NoLanding
    /\ strayed' = (strayed /\ Opening)
    /\ UNCHANGED <<noteOf, readNotes, marking>>

\* The tab or the project changes, or the interval fires: a load.
LoadInbox(c) ==
    /\ inbox.open
    /\ UNCHANGED <<home, scope>>
    /\ Begin(c, "load", None, DefaultProject)
    /\ UNCHANGED <<noteOf, readNotes, inbox, marking, landed, strayed>>

ChooseScope(c, s) ==
    /\ inbox.open
    /\ s # scope /\ scope' = s
    /\ UNCHANGED home
    /\ Begin(c, "load", None, DefaultProject)
    /\ UNCHANGED <<noteOf, readNotes, inbox, marking, landed, strayed>>

ChangeProject(c, p) ==
    /\ p # home /\ home' = p
    /\ UNCHANGED scope
    /\ IF inbox.open THEN Begin(c, "load", None, DefaultProject) ELSE UNCHANGED look
    /\ landed' = NoLanding
    /\ strayed' = (strayed \/ Opening)
    /\ UNCHANGED <<noteOf, readNotes, inbox, marking>>

\* A demo notification says it is of the default project.
SaidOf(n, p) == IF inbox.demo THEN p = DefaultProject ELSE p = noteOf[n]

PressRead(c, n, p) ==
    /\ n \in inbox.unread /\ SaidOf(n, p)
    /\ marking.note # n
    /\ marking' = [marking EXCEPT !.note = n]
    /\ UNCHANGED <<home, scope>>
    /\ Begin(c, "read", n, p)
    /\ UNCHANGED <<noteOf, readNotes, inbox, landed, strayed>>

\* An unread notification is marked first.
PressUnread(c, n, p) ==
    /\ n \in inbox.unread /\ SaidOf(n, p)
    /\ marking' = [marking EXCEPT !.note = n]
    /\ UNCHANGED <<home, scope>>
    /\ Begin(c, "open", n, p)
    /\ UNCHANGED <<noteOf, readNotes, inbox, landed, strayed>>

\* handleInboxOpenTicket: "was" is the project its closure has.  The inbox
\* that is left ignores its answers.
Left(calls) ==
    [c \in Calls |-> CASE calls[c].kind = "load" -> NoLook
                      [] calls[c].kind = "none" -> NoLook
                      [] OTHER -> [calls[c] EXCEPT !.seen = FALSE]]

Land(n, of, was, calls) ==
    /\ home' = IF of # was THEN of ELSE home
    /\ landed' = [note |-> n, of |-> of]
    /\ inbox' = [NoList EXCEPT !.open = FALSE]
    /\ scope' = "project"
    /\ marking' = [note |-> None, all |-> FALSE]
    /\ look' = Left(calls)

PressOpened(n, p) ==
    /\ n \in inbox.ids \ inbox.unread /\ SaidOf(n, p)
    /\ Land(n, p, home, look)
    /\ strayed' = (strayed \/ (Opening /\ p # home))
    /\ UNCHANGED <<noteOf, readNotes>>

MarkAll(c) ==
    /\ ~marking.all
    /\ inbox.unread # {}
    /\ marking' = [marking EXCEPT !.all = TRUE]
    /\ UNCHANGED <<home, scope>>
    /\ Begin(c, "markAll", None, DefaultProject)
    /\ UNCHANGED <<noteOf, readNotes, inbox, landed, strayed>>

-----------------------------------------------------------------------------
(* Answers.                                                                 *)

ListShown(q) ==
    IF q.at = "failed" THEN [ids |-> DemoNotes, unread |-> DemoNotes, demo |-> TRUE,
                               open |-> TRUE]
    ELSE [ids |-> q.ids, unread |-> q.unread, demo |-> FALSE, open |-> TRUE]

InboxLoaded(c) ==
    /\ look[c].kind = "load" /\ look[c].at \in {"answered", "failed"}
    /\ inbox' = ListShown(look[c])
    /\ LookOver(c)
    /\ UNCHANGED <<noteOf, readNotes, home, scope, marking, landed, strayed>>

\* The item of that id is the server's now; one that went away does not come back.
ReadShown(n) ==
    IF n \in inbox.ids THEN [inbox EXCEPT !.unread = @ \ {n}] ELSE inbox

Unmarked(c) ==
    marking' = IF look[c].seen THEN [marking EXCEPT !.note = None] ELSE marking

NoteRead(c) ==
    /\ look[c].kind = "read" /\ look[c].at = "answered"
    /\ inbox' = IF look[c].seen THEN ReadShown(look[c].note) ELSE inbox
    /\ Unmarked(c)
    /\ LookOver(c)
    /\ UNCHANGED <<noteOf, readNotes, home, scope, landed, strayed>>

\* The ticket opens wherever the user is by now.
NoteOpens(c) ==
    /\ look[c].kind = "open" /\ look[c].at = "answered"
    /\ Land(look[c].note, look[c].of, look[c].home, [look EXCEPT ![c] = NoLook])
    /\ strayed' = (strayed \/ \E d \in Calls \ {c}:
                       look[d].kind = "open" /\ home' # home)
    /\ UNCHANGED <<noteOf, readNotes>>

\* A mark that fails opens nothing.
ReadFailed(c) ==
    /\ look[c].kind \in {"read", "open"} /\ look[c].at = "failed"
    /\ Unmarked(c)
    /\ LookOver(c)
    /\ UNCHANGED <<noteOf, readNotes, home, scope, inbox, landed, strayed>>

\* A mark that failed leaves the list as it is; a load that failed after it
\* shows the demo notifications.
AllRead(c) ==
    /\ look[c].kind = "markAll" /\ look[c].at \in {"answered", "failed"}
    /\ inbox' \in IF ~look[c].seen THEN {inbox}
                  ELSE {ListShown(look[c])} \cup
                         (IF look[c].at = "failed" THEN {inbox} ELSE {})
    /\ marking' = IF look[c].seen THEN [marking EXCEPT !.all = FALSE] ELSE marking
    /\ LookOver(c)
    /\ UNCHANGED <<noteOf, readNotes, home, scope, landed, strayed>>

-----------------------------------------------------------------------------
InboxNext ==
    \/ \E n \in NoteIds, p \in Projects: RecordNote(n, p) \/ PressOpened(n, p)
    \/ \E c \in Calls:
          \/ ServeInbox(c) \/ MarkRead(c) \/ MarkAllRead(c) \/ ServeInboxAgain(c) \/ FailLook(c)
          \/ OpenInbox(c) \/ LoadInbox(c) \/ MarkAll(c)
          \/ \E s \in {"project", "all"}: ChooseScope(c, s)
          \/ \E p \in Projects: ChangeProject(c, p)
          \/ \E n \in NoteIds, p \in Projects: PressRead(c, n, p) \/ PressUnread(c, n, p)
          \/ InboxLoaded(c) \/ NoteRead(c) \/ NoteOpens(c) \/ ReadFailed(c) \/ AllRead(c)

InboxSpec == InboxInit /\ [][InboxNext]_inboxVars

-----------------------------------------------------------------------------
(* A notification that was opened is on a page of its own project, however  *)
(* long the mark took, unless the project changed, by hand or because       *)
(* another one opened, while it was being opened.                           *)
OpensItsProject == landed.note # None /\ ~strayed => home = landed.of

=============================================================================
