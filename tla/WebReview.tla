------------------------------ MODULE WebReview ------------------------------
(***************************************************************************)
(* The review of the composer (RequirementComposer.tsx): the cards of a     *)
(* preview are edited, left out and approved, and what is created is put on *)
(* the board beside what a poll of the board finds.  WebComposer has the    *)
(* rows of the server; here one project is enough.                          *)
(*                                                                          *)
(* The cards stay editable while their approval is under way.  Of what was  *)
(* edited, title, type and model are sent ("title" stands for the three);   *)
(* the target files of a card are not, and are left out here.               *)
(***************************************************************************)
EXTENDS Naturals, WebBase

CONSTANTS
    ReviewCards,        \* the tickets a preview proposes
    MaxPreview    \* bound: previews that are asked for

ASSUME CardsAssumption == ReviewCards # {} /\ MaxPreview \in Nat \ {0}

VARIABLES
    stage,       \* step of the composer; "closed": there is none
    preview,     \* reqId: the preview in the composer, by number
    cards,       \* proposedTickets
    approval,    \* the confirmation under way, and what it carries
    tickets,     \* the tickets the server made, by preview and card
    listed,      \* how often each is on the board
    polled,      \* the poll of the board, and the tickets it found
    fiddled      \* history: a card was changed while its approval was out

reviewVars == <<stage, preview, cards, approval, tickets, listed, polled, fiddled>>

CardTexts == {"proposed", "edited"}
CardRecord == [included: BOOLEAN, title: CardTexts]
AsProposed == [c \in ReviewCards |-> [included |-> TRUE, title |-> "proposed"]]

\* What a card is created as: "out": it is not.
Outcomes == {"out"} \cup CardTexts
NothingMade == [c \in ReviewCards |-> "out"]
Previews == 1..MaxPreview

NoApproval == [at |-> "none", of |-> 0, load |-> NothingMade, mine |-> FALSE]

ReviewTypeOK ==
    /\ stage \in {"closed", "compose", "decomposing", "review", "created"}
    /\ preview \in 0..MaxPreview
    /\ cards \in [ReviewCards -> CardRecord]
    /\ approval \in [at: {"none", "sent", "stored", "refused", "lost"}, of: 0..MaxPreview,
                     load: [ReviewCards -> Outcomes], mine: BOOLEAN]
    /\ tickets \in [Previews -> [ReviewCards -> Outcomes]]
    /\ listed \in [Previews -> [ReviewCards -> 0..2]]
    /\ polled \in [at: {"idle", "sent", "answered"}, found: [Previews -> [ReviewCards -> BOOLEAN]]]
    /\ fiddled \in BOOLEAN

NoneFound == [n \in Previews |-> [c \in ReviewCards |-> FALSE]]

ReviewInit ==
    /\ stage = "closed" /\ preview = 0
    /\ cards = AsProposed
    /\ approval = NoApproval
    /\ tickets = [n \in Previews |-> NothingMade]
    /\ listed = [n \in Previews |-> [c \in ReviewCards |-> 0]]
    /\ polled = [at |-> "idle", found |-> NoneFound]
    /\ fiddled = FALSE

Confirming == approval.at # "none" /\ approval.mine

-----------------------------------------------------------------------------
\* A new composer proposes nothing: its number is the one of its first preview.
OpenReview ==
    /\ stage = "closed"
    /\ stage' = "compose"
    /\ UNCHANGED <<preview, cards, approval, tickets, listed, polled, fiddled>>

AskPreview ==
    /\ stage = "compose" /\ preview < MaxPreview
    /\ stage' = "decomposing"
    /\ UNCHANGED <<preview, cards, approval, tickets, listed, polled, fiddled>>

\* Every card is included again and as proposed.
PreviewArrives ==
    /\ stage = "decomposing"
    /\ stage' = "review"
    /\ preview' = preview + 1
    /\ cards' = AsProposed
    /\ fiddled' = FALSE
    /\ UNCHANGED <<approval, tickets, listed, polled>>

PreviewFails ==
    /\ stage = "decomposing"
    /\ stage' = "compose"
    /\ UNCHANGED <<preview, cards, approval, tickets, listed, polled, fiddled>>

\* updateProposed
ChangeCard(c, card) ==
    /\ stage = "review"
    /\ cards' = [cards EXCEPT ![c] = card]
    /\ fiddled' = (fiddled \/ Confirming)
    /\ UNCHANGED <<stage, preview, approval, tickets, listed, polled>>

ToggleCard(c) == ChangeCard(c, [cards[c] EXCEPT !.included = ~@])

\* The fields of a card that is left out are disabled.
EditCard(c) ==
    /\ cards[c].included
    /\ ChangeCard(c, [cards[c] EXCEPT !.title = "edited"])

BackToEdit ==
    /\ stage = "review" /\ ~Confirming
    /\ stage' = "compose"
    /\ UNCHANGED <<preview, cards, approval, tickets, listed, polled, fiddled>>

\* What is created of the cards.
Chosen(shown) == [c \in ReviewCards |-> IF shown[c].included THEN shown[c].title ELSE "out"]

\* Slip: the cards that were left out are sent along.
SlipApproveCards ==
    /\ stage = "review" /\ approval.at = "none"
    /\ approval' = [at |-> "sent", of |-> preview, mine |-> TRUE,
                    load |-> [c \in ReviewCards |-> cards[c].title]]
    /\ fiddled' = FALSE
    /\ UNCHANGED <<stage, preview, cards, tickets, listed, polled>>

\* handleApproveCreate; an earlier composer's approval may still be out, but
\* this page has one connection to spend on it.
ApproveCards ==
    /\ stage = "review" /\ approval.at = "none"
    /\ \E c \in ReviewCards: cards[c].included
    /\ approval' = [at |-> "sent", of |-> preview, load |-> Chosen(cards), mine |-> TRUE]
    /\ fiddled' = FALSE
    /\ UNCHANGED <<stage, preview, cards, tickets, listed, polled>>

\* confirm makes its tickets once: a requirement already confirmed is refused.
CreateTickets ==
    /\ approval.at = "sent"
    /\ \/ /\ tickets[approval.of] = NothingMade
          /\ tickets' = [tickets EXCEPT ![approval.of] = approval.load]
          /\ \E end \in {"stored", "lost"}: approval' = [approval EXCEPT !.at = end]
       \/ approval' = [approval EXCEPT !.at = "refused"] /\ UNCHANGED tickets
    /\ UNCHANGED <<stage, preview, cards, listed, polled, fiddled>>

\* onAddTickets appends to the board, whatever is there, also when the composer
\* was closed.
Approved ==
    /\ approval.at = "stored"
    /\ listed' = [listed EXCEPT ![approval.of] =
                     [c \in ReviewCards |-> IF approval.load[c] = "out" THEN @[c] ELSE @[c] + 1]]
    /\ stage' = IF approval.mine THEN "created" ELSE stage
    /\ approval' = NoApproval
    /\ UNCHANGED <<preview, cards, tickets, polled, fiddled>>

ApprovalFails ==
    /\ approval.at \in {"refused", "lost"}
    /\ approval' = NoApproval
    /\ UNCHANGED <<stage, preview, cards, tickets, listed, polled, fiddled>>

\* The cross closes at any time, the backdrop not while decomposing; Discard and
\* Done close too.
CloseReview ==
    /\ stage # "closed"
    /\ stage' = "closed"
    /\ approval' = IF approval.at = "none" THEN approval ELSE [approval EXCEPT !.mine = FALSE]
    /\ UNCHANGED <<preview, cards, tickets, listed, polled, fiddled>>

-----------------------------------------------------------------------------
(* The poll of the board.                                                   *)

SendPoll ==
    /\ polled.at = "idle"
    /\ polled' = [polled EXCEPT !.at = "sent"]
    /\ UNCHANGED <<stage, preview, cards, approval, tickets, listed, fiddled>>

ServePoll ==
    /\ polled.at = "sent"
    /\ polled' \in {[at |-> "answered", found |-> [n \in Previews |->
                        [c \in ReviewCards |-> tickets[n][c] # "out"]]],
                    [at |-> "idle", found |-> NoneFound]}
    /\ UNCHANGED <<stage, preview, cards, approval, tickets, listed, fiddled>>

ReviewPolled ==
    /\ polled.at = "answered"
    /\ listed' = [n \in Previews |-> [c \in ReviewCards |-> IF polled.found[n][c] THEN 1 ELSE 0]]
    /\ polled' = [at |-> "idle", found |-> NoneFound]
    /\ UNCHANGED <<stage, preview, cards, approval, tickets, fiddled>>

ReviewNext ==
    \/ OpenReview \/ AskPreview \/ PreviewArrives \/ PreviewFails
    \/ \E c \in ReviewCards: ToggleCard(c) \/ EditCard(c)
    \/ BackToEdit \/ ApproveCards \/ CreateTickets \/ Approved \/ ApprovalFails \/ CloseReview
    \/ SendPoll \/ ServePoll \/ ReviewPolled

ReviewSpec == ReviewInit /\ [][ReviewNext]_reviewVars

-----------------------------------------------------------------------------
(* What "created" shows was made as the cards say: each card that is        *)
(* included, with the title in it, and none that was left out, whatever the *)
(* cards of earlier previews said; unless a card was changed while the      *)
(* approval was out (handleApproveCreate).                                  *)
ChosenIsMade ==
    stage = "created" /\ ~fiddled => tickets[preview] = Chosen(cards)

(* No answer and no list of the board brings back what was left out: only   *)
(* what the server made is on the board.                                    *)
ListedIsMade ==
    \A n \in Previews, c \in ReviewCards: listed[n][c] > 0 => tickets[n][c] # "out"

=============================================================================
