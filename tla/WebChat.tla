------------------------------ MODULE WebChat ------------------------------
(***************************************************************************)
(* The chat beside the board: the messages App.tsx loads, polls and sends.  *)
(*                                                                          *)
(* A poll asks for the messages after the last one shown and appends what   *)
(* it gets; so does the answer to a message sent.  Message ids grow with    *)
(* time over all projects.  The list is taken as the set of what it shows   *)
(* and its last element, which is all a poll depends on; a message appended *)
(* twice is shown twice and once in the set.                                *)
(***************************************************************************)
EXTENDS Naturals, FiniteSets, WebBase

CONSTANTS
    Nobody,     \* the project of a message that was not written yet
    MaxMsg      \* bound: messages written

ASSUME NobodyAssumption == Nobody \notin Projects /\ MaxMsg \in Nat

VARIABLES
    owner,      \* owner[m]: the project of message m
    current,    \* selectedProjectId
    chat,       \* chatMessages: the messages shown and the last of them
    sending,    \* chatSending
    talk        \* talk[c]: a call

chatVars == <<owner, current, chat, sending, talk>>

MsgIds == 1..MaxMsg

\* The id of the welcome messages shown when a load fails is greater, as a
\* string, than that of any message written.
Welcome == MaxMsg + 1

TalkRecord ==
    [kind: {"none", "load", "refresh", "send"}, project: Projects,
     after: 0..Welcome, at: {"sent", "asked", "answered", "failed"},
     data: SUBSET MsgIds]

NoTalk == [kind |-> "none", project |-> CHOOSE p \in Projects: TRUE, after |-> 0,
           at |-> "sent", data |-> {}]

FreeTalk(c) == talk[c] = NoTalk

ChatTypeOK ==
    /\ owner \in [MsgIds -> Projects \cup {Nobody}]
    /\ current \in Projects
    /\ chat \in [shown: SUBSET MsgIds, last: 0..Welcome]
    /\ sending \in BOOLEAN
    /\ talk \in [Calls -> TalkRecord]

Asked(kind, p, after) ==
    [NoTalk EXCEPT !.kind = kind, !.project = p, !.after = after]

ChatInit ==
    /\ owner = [m \in MsgIds |-> Nobody]
    /\ current \in Projects
    /\ chat = [shown |-> {}, last |-> Welcome]
    /\ sending = FALSE
    /\ \E first \in Calls:
          talk = [c \in Calls |-> IF c = first THEN Asked("load", current, 0)
                                  ELSE NoTalk]

-----------------------------------------------------------------------------
(* The server.                                                              *)

Written == {m \in MsgIds: owner[m] # Nobody}
NextId == Cardinality(Written) + 1

\* A message gets the next id.
Writes(p) == NextId \in MsgIds /\ owner' = [owner EXCEPT ![NextId] = p]

\* The others, and the reports of the orchestrator.
OthersWrite(p) ==
    /\ Writes(p)
    /\ UNCHANGED <<current, chat, sending, talk>>

Messages(p, after) == {m \in Written: owner[m] = p /\ m > after}

ServeList(c) ==
    /\ talk[c].kind \in {"load", "refresh"} /\ talk[c].at = "sent"
    /\ talk' = [talk EXCEPT ![c].at = "answered", ![c].data =
                   Messages(talk[c].project, talk[c].after)]
    /\ UNCHANGED <<owner, current, chat, sending>>

\* A turn: the user's message, and some time later the agent's.
ServeTurn(c) ==
    /\ talk[c].kind = "send"
    /\ talk[c].at \in {"sent", "asked"}
    /\ Writes(talk[c].project)
    /\ talk' = [talk EXCEPT ![c].data = @ \cup {NextId}, ![c].at =
                   IF @ = "sent" THEN "asked" ELSE "answered"]
    /\ UNCHANGED <<current, chat, sending>>

RefuseTalk(c) ==
    /\ ~FreeTalk(c)
    /\ talk[c].at # "failed"
    /\ talk' = [talk EXCEPT ![c].at = "failed", ![c].data = {}]
    /\ UNCHANGED <<owner, current, chat, sending>>

-----------------------------------------------------------------------------
(* The user, and the interval.                                              *)

StartTalk(c, q) == FreeTalk(c) /\ talk' = [talk EXCEPT ![c] = q]

\* What is shown and under way stays when the project changes.
Switch(p, c) ==
    /\ p # current
    /\ current' = p
    /\ StartTalk(c, Asked("load", p, 0))
    /\ UNCHANGED <<owner, chat, sending>>

PollChat(c) ==
    /\ StartTalk(c, Asked("refresh", current, chat.last))
    /\ UNCHANGED <<owner, current, chat, sending>>

\* Slip: the form does not wait for the turn before.
SlipSubmitMessage(c) ==
    /\ StartTalk(c, Asked("send", current, 0))
    /\ sending' = TRUE
    /\ UNCHANGED <<owner, current, chat>>

\* handleSubmit: one message at a time.
SubmitMessage(c) ==
    /\ ~sending
    /\ StartTalk(c, Asked("send", current, 0))
    /\ sending' = TRUE
    /\ UNCHANGED <<owner, current, chat>>

-----------------------------------------------------------------------------
(* Answers.                                                                 *)

TalkDone(c) == talk' = [talk EXCEPT ![c] = NoTalk]

Newest(s) == CHOOSE m \in s: \A n \in s: n <= m

\* A load replaces the list; one that fails shows the welcome messages.
ChatLoaded(c) ==
    /\ talk[c].kind = "load"
    /\ talk[c].at \in {"answered", "failed"}
    /\ chat' = CASE talk[c].at = "failed" -> [shown |-> {}, last |-> Welcome]
                 [] talk[c].at # "failed" /\ talk[c].data = {} -> [shown |-> {}, last |-> 0]
                 [] OTHER -> [shown |-> talk[c].data, last |-> Newest(talk[c].data)]
    /\ TalkDone(c)
    /\ UNCHANGED <<owner, current, sending>>

\* Slip: the cursor is the newest message there is, not the newest received.
SlipAppended(data) == [shown |-> chat.shown \cup data, last |-> NextId - 1]

Appended(data) == IF data = {} THEN chat
                ELSE [shown |-> chat.shown \cup data, last |-> Newest(data)]

ChatRefreshed(c) ==
    /\ talk[c].kind = "refresh"
    /\ talk[c].at \in {"answered", "failed"}
    /\ chat' = Appended(talk[c].data)
    /\ TalkDone(c)
    /\ UNCHANGED <<owner, current, sending>>

\* The answer is appended and, after the requirements were listed again, the mark
\* is cleared; one step here.
TurnEnds(c) ==
    /\ talk[c].kind = "send"
    /\ talk[c].at \in {"answered", "failed"}
    /\ chat' = Appended(talk[c].data)
    /\ sending' = FALSE
    /\ TalkDone(c)
    /\ UNCHANGED <<owner, current>>

-----------------------------------------------------------------------------
AnswerTalk(c) == ChatLoaded(c) \/ ChatRefreshed(c) \/ TurnEnds(c)
ServeTalk(c) == ServeList(c) \/ ServeTurn(c) \/ RefuseTalk(c)

ChatNext ==
    \/ \E p \in Projects: OthersWrite(p)
    \/ \E c \in Calls:
          \/ ServeList(c) \/ ServeTurn(c) \/ RefuseTalk(c)
          \/ PollChat(c) \/ SubmitMessage(c)
          \/ \E p \in Projects: Switch(p, c)
          \/ ChatLoaded(c) \/ ChatRefreshed(c) \/ TurnEnds(c)

ChatSpec == ChatInit /\ [][ChatNext]_chatVars

\* The page takes the answer of a poll.
PollHeard ==
    \E c \in Calls: talk[c].kind = "refresh" /\ talk[c].at = "answered" /\ ChatRefreshed(c)

ChatPolls == \E c \in Calls: PollChat(c)

-----------------------------------------------------------------------------
(* One turn at a time: no message is sent while another is answered, even   *)
(* when the project was changed in between, so that turns do not mix.       *)
OneTurn ==
    Cardinality({c \in Calls: talk[c].kind = "send"}) = (IF sending THEN 1 ELSE 0)

(* What is on its way to the page was written to the project it was asked   *)
(* of, and nothing is shown that was not written.                           *)
AnswersAreWritten ==
    /\ \A c \in Calls: \A m \in talk[c].data: owner[m] = talk[c].project
    /\ chat.shown \subseteq Written

Following(p) ==
    /\ current = p
    /\ chat.last \in {0} \cup Messages(p, 0)
    /\ \A c \in Calls: talk[c].kind \in {"none", "refresh"}

(* The chat catches up: while the user only reads, the newest message of    *)
(* the project is shown, whatever older answers arrived late and whatever a *)
(* turn left out.  A list that ends in another project's message, or in the *)
(* welcome of a load that failed, is not caught up: the polls ask for what  *)
(* follows it.                                                              *)
ChatCatchesUp ==
    \A p \in Projects:
        (<>[]Following(p)) =>
            (<>[](Messages(p, 0) # {} => Newest(Messages(p, 0)) \in chat.shown))
=============================================================================
