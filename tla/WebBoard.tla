------------------------------ MODULE WebBoard ------------------------------
(***************************************************************************)
(* The ticket board of the web page (App.tsx): the list of tickets it       *)
(* shows, the calls that load, poll and change it, and the project they are *)
(* about.                                                                   *)
(*                                                                          *)
(* No call is ever cancelled and no answer is compared with the project     *)
(* shown by the time it comes: calls are answered in any order, into the    *)
(* one list there is.  Ticket ids are numbered in each project, so that two *)
(* projects have tickets of the same id, and demo data has ids of its own   *)
(* that a project may have too.  The dependency graph asked for between the *)
(* answer to a list and its display only makes that answer later.  While    *)
(* another page is shown the interval is off and nothing else changes.      *)
(***************************************************************************)
EXTENDS WebBase, Naturals

CONSTANTS
    Ids,         \* ticket ids
    Visited,     \* bound: projects the board is turned to; their tickets change
    MaxVersion   \* bound: times a ticket of each project is written

ASSUME BoardAssumption ==
    Visited \subseteq Projects /\ MaxVersion \in [Projects -> Nat] /\ Ids # {}

VARIABLES
    server,    \* server[p][i]: how often ticket i of p was written, and if it is there
    board,     \* tickets: the card shown for each id
    selected,  \* selectedProjectId
    demo,      \* usingMockData
    request    \* request[r]: a call under way

boardVars == <<server, board, selected, demo, request>>

\* A card is a version of a ticket of a project, or demo data; "guess" marks
\* the change the page shows before the server has agreed to it.
Card == [of: Projects \cup {"demo"}, ver: Nat, guess: BOOLEAN]
NoCard == [of |-> "nothing", ver |-> 0, guess |-> FALSE]
Boards == [Ids -> Card \cup {NoCard}]

Empty == [i \in Ids |-> NoCard]
DemoTickets == [i \in Ids |-> [of |-> "demo", ver |-> 0, guess |-> FALSE]]

\* "guess": move, approve, accept; "depends": the dependencies of a ticket;
\* "one": every other call that is answered with a ticket.
Lists == {"load", "refresh"}
Actions == {"guess", "depends", "one", "create", "delete"}
Kinds == Lists \cup Actions

RequestRecord ==
    [at: {"free", "sent", "served", "failed"}, kind: Kinds, project: Projects,
     id: Ids, data: Boards, kept: Boards]

BoardTypeOK ==
    /\ server \in [Projects -> [Ids -> [ver: Nat, live: BOOLEAN]]]
    /\ board \in Boards
    /\ selected \in Projects
    /\ demo \in BOOLEAN
    /\ request \in [Calls -> RequestRecord]

Free(r) == request[r].at = "free"

Ask(k, p, i, kept) ==
    [at |-> "sent", kind |-> k, project |-> p, id |-> i,
     data |-> Empty, kept |-> kept]

AnyId == CHOOSE i \in Ids: TRUE
Load(p) == Ask("load", p, AnyId, Empty)
NoRequest == [Load(CHOOSE p \in Projects: TRUE) EXCEPT !.at = "free"]

Done(r) == request' = [request EXCEPT ![r] = NoRequest]

-----------------------------------------------------------------------------
(* The server: what a list shows, and what a call does to a ticket.         *)

CardOf(p, i) == [of |-> p, ver |-> server[p][i].ver, guess |-> FALSE]

\* Slip: a list has no entry for a ticket that is gone.
SlipView(p) == [i \in {j \in Ids: server[p][j].live} |-> CardOf(p, i)]

View(p) == [i \in Ids |-> IF server[p][i].live THEN CardOf(p, i) ELSE NoCard]

Write(p, i, live) ==
    /\ p \in Visited
    /\ server[p][i].ver < MaxVersion[p]
    /\ server' = [server EXCEPT ![p][i] = [ver |-> @.ver + 1, live |-> live]]

Serves(r, data) ==
    request' = [request EXCEPT ![r].at = "served", ![r].data = data]

ServeRead(r) ==
    LET q == request[r] IN
    /\ q.at = "sent"
    /\ \/ q.kind \in Lists /\ Serves(r, View(q.project))
       \/ /\ q.kind = "one"
          /\ server[q.project][q.id].live
          /\ Serves(r, [Empty EXCEPT ![q.id] = CardOf(q.project, q.id)])
    /\ UNCHANGED <<server, board, selected, demo>>

\* A ticket is created under an id that is free, and written or deleted when
\* it is there.  The answer carries the ticket.
ServeWrite(r) ==
    LET q == request[r] IN
    /\ q.at = "sent"
    /\ q.kind \in Actions
    /\ server[q.project][q.id].live = (q.kind # "create")
    /\ Write(q.project, q.id, q.kind # "delete")
    /\ Serves(r, [Empty EXCEPT ![q.id] =
                     [CardOf(q.project, q.id) EXCEPT !.ver = @ + 1]])
    /\ UNCHANGED <<board, selected, demo>>

\* An error answer, or none: also after the server did what it was asked.  Most
\* calls leave the board as it is then.
Lose(r) ==
    /\ request[r].at \in {"sent", "served"}
    /\ IF request[r].kind \in {"load", "guess"}
       THEN request' = [request EXCEPT ![r].at = "failed", ![r].data = Empty]
       ELSE Done(r)
    /\ UNCHANGED <<server, board, selected, demo>>

\* The orchestrator and the other users.
Others(p, i, live) ==
    /\ Write(p, i, live)
    /\ UNCHANGED <<board, selected, demo, request>>

-----------------------------------------------------------------------------
(* The user.                                                                *)

\* The page opens on demo cards while its first load is under way.
BoardInit ==
    /\ server \in [Projects -> [Ids -> [ver: {0}, live: {FALSE}] \cup
                                       [ver: {0}, live: {TRUE}]]]
    /\ board = DemoTickets
    /\ \A p \in Projects \ Visited: View(p) = Empty
    /\ selected \in Visited
    /\ demo = FALSE
    /\ \E first \in Calls:
          request = [r \in Calls |->
                        IF r = first THEN Load(selected) ELSE NoRequest]

\* A project chosen in the switcher, the inbox or the composer: the effect that
\* loads the tickets runs at once.
Select(p, r) ==
    /\ Free(r)
    /\ p \in Visited \ {selected}
    /\ selected' = p
    /\ request' = [request EXCEPT ![r] = Load(p)]
    /\ UNCHANGED <<server, board, demo>>

\* The interval runs while the page is open and there is something to refresh.
Polled == ~demo /\ board # Empty

\* The interval of the board, kept by its own cards or by the chat's messages.
Poll(r) ==
    /\ Free(r)
    /\ ~demo
    /\ request' = [request EXCEPT ![r] = Ask("refresh", selected, AnyId, Empty)]
    /\ UNCHANGED <<server, board, selected, demo>>

Guess(i) == board' = [board EXCEPT ![i].guess = TRUE]

\* handleMoveTicket, handleApprove and handleAccept show the outcome first and
\* keep the list of before; only the last two are aware of demo data.
Move(i, r) ==
    /\ Free(r)
    /\ board[i] # NoCard
    /\ Guess(i)
    /\ request' = [request EXCEPT ![r] = Ask("guess", selected, i, board)]
    /\ UNCHANGED <<server, selected, demo>>

ApproveDemo(i) ==
    /\ demo
    /\ board[i] # NoCard
    /\ Guess(i)
    /\ UNCHANGED <<server, selected, demo, request>>

\* handleUpdateTicket shows the model and keeps nothing.
AssignModel(i, r) ==
    /\ Free(r)
    /\ board[i] # NoCard
    /\ Guess(i)
    /\ request' = [request EXCEPT ![r] = Ask("one", selected, i, Empty)]
    /\ UNCHANGED <<server, selected, demo>>

\* Retry, run, cancel, the diff, merge and revert, reject, escalate, abandon,
\* split, update and rerun, the pull request, assign and retry, the detail, and
\* delete: the page waits for the answer.
Act(k, i, r) ==
    /\ Free(r)
    /\ k \in {"one", "delete"}
    /\ board[i] # NoCard
    /\ request' = [request EXCEPT ![r] = Ask(k, selected, i, Empty)]
    /\ UNCHANGED <<server, board, selected, demo>>

\* handleUpdateDependsOn writes the list of before back, after two answers.
UpdateDependsOn(i, r) ==
    /\ Free(r)
    /\ ~demo
    /\ board[i] # NoCard
    /\ request' = [request EXCEPT ![r] = Ask("depends", selected, i, board)]
    /\ UNCHANGED <<server, board, selected, demo>>

\* A ticket written by hand is for the project of its form.
CreateManualTicket(p, i, r) ==
    /\ Free(r)
    /\ request' = [request EXCEPT ![r] = Ask("create", p, i, Empty)]
    /\ UNCHANGED <<server, board, selected, demo>>

-----------------------------------------------------------------------------
(* Answers.                                                                 *)

\* loadTickets: its effect runs again when usingMockData turns.
Loaded(r) ==
    /\ request[r].at = "served"
    /\ request[r].kind = "load"
    /\ board' = request[r].data
    /\ demo' = FALSE
    /\ IF demo THEN request' = [request EXCEPT ![r] = Load(selected)] ELSE Done(r)
    /\ UNCHANGED <<server, selected>>

LoadFailed(r) ==
    /\ request[r].at = "failed"
    /\ request[r].kind = "load"
    /\ board' = DemoTickets
    /\ demo' = TRUE
    /\ IF demo THEN Done(r) ELSE request' = [request EXCEPT ![r] = Load(selected)]
    /\ UNCHANGED <<server, selected>>

\* Slip: a poll merges by id, so that a deleted ticket stays.
SlipRefreshed(r) ==
    /\ request[r].at = "served"
    /\ request[r].kind = "refresh"
    /\ board' = [i \in Ids |-> IF request[r].data[i] = NoCard THEN board[i]
                               ELSE request[r].data[i]]
    /\ Done(r)
    /\ UNCHANGED <<server, selected, demo>>

Refreshed(r) ==
    /\ request[r].at = "served"
    /\ request[r].kind = "refresh"
    /\ board' = request[r].data
    /\ Done(r)
    /\ UNCHANGED <<server, selected, demo>>

\* replaceTicketsFromBackend: by id, whatever the board shows by then.
Replaced(data) == [i \in Ids |-> IF data[i] = NoCard THEN board[i] ELSE data[i]]

Replied(r) ==
    LET q == request[r] IN
    /\ q.at = "served"
    /\ q.kind \notin Lists
    /\ board' = CASE q.kind = "delete" -> [board EXCEPT ![q.id] = NoCard]
                  [] q.kind = "depends" -> [q.kept EXCEPT ![q.id] = q.data[q.id]]
                  [] OTHER -> Replaced(q.data)
    /\ Done(r)
    /\ UNCHANGED <<server, selected, demo>>

\* The move that failed takes the whole list back to what it was.
Refused(r) ==
    /\ request[r].at = "failed"
    /\ request[r].kind = "guess"
    /\ board' = request[r].kept
    /\ Done(r)
    /\ UNCHANGED <<server, selected, demo>>

-----------------------------------------------------------------------------
Answer(r) == \/ Loaded(r) \/ LoadFailed(r) \/ Refreshed(r)
             \/ Replied(r) \/ Refused(r)
Serve(r) == ServeRead(r) \/ ServeWrite(r) \/ Lose(r)

BoardNext ==
    \/ \E p \in Projects, i \in Ids, live \in BOOLEAN: Others(p, i, live)
    \/ \E i \in Ids: ApproveDemo(i)
    \/ \E r \in Calls:
          \/ ServeRead(r) \/ ServeWrite(r) \/ Lose(r)
          \/ Loaded(r) \/ LoadFailed(r) \/ Refreshed(r) \/ Replied(r) \/ Refused(r)
          \/ Poll(r)
          \/ \E p \in Projects: Select(p, r)
          \/ \E i \in Ids: Move(i, r) \/ AssignModel(i, r) \/ UpdateDependsOn(i, r)
          \/ \E i \in Ids, k \in {"one", "delete"}: Act(k, i, r)
          \/ \E p \in Projects, i \in Ids: CreateManualTicket(p, i, r)

BoardSpec == BoardInit /\ [][BoardNext]_boardVars

\* A poll is answered.
PollServed == \E r \in Calls: request[r].kind = "refresh" /\ ServeRead(r)

-----------------------------------------------------------------------------
(* Nothing on the board is invented: a card that is no guess and no demo    *)
(* data shows a ticket of its project as the server had it, whatever lists  *)
(* of before were put back and whatever answers came late.                  *)
CardsAreReal ==
    \A i \in Ids: board[i].of \in Projects =>
        board[i].ver <= server[board[i].of][i].ver

Watching(p) ==
    /\ selected = p
    /\ Polled
    /\ \A r \in Calls: Free(r) \/ request[r].kind = "refresh"

(* The board catches up: while the user only looks at a project, the poll   *)
(* makes the board what the server has, tickets another project's answer    *)
(* put there and refused moves included, and older answers do not undo it.  *)
BoardCatchesUp ==
    \A p \in Visited: (<>[]Watching(p)) => (<>[](board = View(p)))
=============================================================================
