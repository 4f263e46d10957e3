---------------------------- MODULE WebOnceProofs ----------------------------
(***************************************************************************)
(* Proofs that a press on the page counts once and that what the user chose *)
(* holds: requirements and their tickets, messages and their files, the     *)
(* starts of the pool, the form for a ticket and the guide, for any number  *)
(* of calls, files, forms and previews.                                     *)
(***************************************************************************)
EXTENDS WebOwnProofs, FiniteSetTheorems

LEMMA OnceSteps ==
  [PartsNext]_partsVars =>
    /\ [ComposerNext]_composerVars /\ [ChatNext]_chatVars /\ [FormNext]_formVars
    /\ [WorkerNext]_workerVars /\ [ShellNext]_shellVars /\ [ReviewNext]_reviewVars
BY DEF PartsNext, Only, partsVars

LEMMA OnceInits ==
  PartsInit => /\ ComposerInit \/ ComposerAside
               /\ ChatInit \/ ChatAside
               /\ FormInit \/ FormAside
               /\ WorkerInit \/ WorkerAside
               /\ ShellInit \/ ShellAside
               /\ ReviewInit \/ ReviewAside
BY DEF PartsInit

-----------------------------------------------------------------------------
(* Auto-run: one start at a time is listened to.                            *)

WorkerInv ==
  /\ errand \in [Calls -> ErrandRecord] /\ onBoard \in Projects /\ bound \in Pools
  /\ OneRebind

LEMMA WorkerStart == WorkerInit \/ WorkerAside => WorkerInv
<1>1. NoErrand \in ErrandRecord /\ NoErrand.kind = "none"
  BY DEF NoErrand, ErrandRecord, Pools
<1>2. ASSUME WorkerInit PROVE WorkerInv
  BY <1>1, <1>2 DEF WorkerInit, WorkerInv, OneRebind
<1>3. QED BY <1>2 DEF WorkerAside

\* The effect gives up the starts before, and asks for one of this project.
LEMMA Followers ==
  ASSUME NEW calls \in [Calls -> ErrandRecord], NEW status, NEW p \in Projects,
         Follow(calls, status, p), <<status, p>> # <<workerStatus, onBoard>>, onBoard' = p,
         bound' \in Pools
  PROVE  WorkerInv'
<1>1. \A c \in Calls: GivenUp(calls)[c] \in ErrandRecord
                      /\ (GivenUp(calls)[c].kind = "rebind" => ~GivenUp(calls)[c].active)
  BY DEF GivenUp, ErrandRecord
<1>2. GivenUp(calls) \in [Calls -> ErrandRecord]
  BY <1>1 DEF GivenUp
<1>3. CASE Astray(status, p)
  <2>1. PICK c \in Calls: errand' = [GivenUp(calls) EXCEPT ![c] = Errand("rebind", p)]
    BY <1>3 DEF Follow
  <2>2. Errand("rebind", p) \in ErrandRecord /\ Errand("rebind", p).pool = p
    BY DEF Errand, ErrandRecord, Pools
  <2>3. errand' \in [Calls -> ErrandRecord] /\ errand'[c].pool = p
        /\ \A d \in Calls: d # c => errand'[d] = GivenUp(calls)[d]
    BY <1>2, <2>1, <2>2
  <2>4. QED BY <1>1, <2>3 DEF WorkerInv, OneRebind
<1>4. CASE ~Astray(status, p)
  <2>1. errand' = GivenUp(calls)
    BY <1>4 DEF Follow
  <2>2. QED BY <1>1, <1>2, <2>1 DEF WorkerInv, OneRebind
<1>5. QED BY <1>3, <1>4

LEMMA WorkerStep == WorkerInv /\ [WorkerNext]_workerVars => WorkerInv'
<1> SUFFICES ASSUME WorkerInv, [WorkerNext]_workerVars PROVE WorkerInv'
  OBVIOUS
<1>1. /\ errand \in [Calls -> ErrandRecord] /\ onBoard \in Projects /\ bound \in Pools
      /\ NoErrand \in ErrandRecord /\ NoErrand.kind = "none"
      /\ \A c \in Calls: errand[c] \in ErrandRecord
  BY DEF WorkerInv, NoErrand, ErrandRecord, Pools
\* One errand changes, and begins nothing the page listens to.
<1>2. ASSUME NEW c \in Calls, NEW e \in ErrandRecord, errand' = [errand EXCEPT ![c] = e],
             UNCHANGED onBoard, bound' \in Pools,
             e.kind = "rebind" /\ e.active =>
               /\ errand[c].kind = "rebind" /\ errand[c].active
               /\ e.at = "sent" => errand[c].at = "sent" /\ e.pool = errand[c].pool
      PROVE  WorkerInv'
  <2>1. errand' \in [Calls -> ErrandRecord] /\ errand'[c] = e
        /\ \A d \in Calls: d # c => errand'[d] = errand[d]
    BY <1>1, <1>2
  <2>2. QED BY <1>1, <1>2, <2>1 DEF WorkerInv, OneRebind
<1>3. ASSUME NEW pool \in Pools, OtherTab(pool) PROVE WorkerInv'
  BY <1>3 DEF OtherTab, WorkerInv, OneRebind
<1>4. ASSUME NEW p \in Projects, ShowProject(p) PROVE WorkerInv'
  <2>1. Follow(errand, workerStatus, p) /\ onBoard' = p /\ p # onBoard /\ UNCHANGED bound
    BY <1>4 DEF ShowProject
  <2>2. <<workerStatus, p>> # <<workerStatus, onBoard>>
    BY <2>1
  <2>3. QED BY <1>1, <2>1, <2>2, Followers
<1>5. ASSUME NEW c \in Calls, ServeErrand(c) \/ RefuseErrand(c) PROVE WorkerInv'
  <2> DEFINE served == [errand[c] EXCEPT !.at = "answered", !.pool = bound']
             denied == [errand[c] EXCEPT !.at = "refused"]
  <2>1. CASE ServeErrand(c)
    <3>1. errand' = [errand EXCEPT ![c] = served] /\ UNCHANGED onBoard
      BY <1>1, <2>1 DEF ServeErrand
    <3>2. bound' \in Pools
      BY <1>1, <2>1 DEF ServeErrand, ErrandRecord, WorkerInv
    <3>3. served \in ErrandRecord /\ served.at = "answered"
          /\ served.kind = errand[c].kind /\ served.active = errand[c].active
      BY <1>1, <3>2 DEF ErrandRecord
    <3> HIDE DEF served
    <3>4. QED BY <1>2, <3>1, <3>2, <3>3
  <2>2. CASE RefuseErrand(c)
    <3>1. errand' = [errand EXCEPT ![c] = denied] /\ UNCHANGED <<onBoard, bound>>
      BY <1>1, <2>2 DEF RefuseErrand
    <3>2. denied \in ErrandRecord /\ denied.at = "refused"
          /\ denied.kind = errand[c].kind /\ denied.active = errand[c].active
      BY <1>1 DEF ErrandRecord
    <3> HIDE DEF denied
    <3>3. QED BY <1>1, <1>2, <3>1, <3>2
  <2>3. QED BY <1>5, <2>1, <2>2
<1>6. ASSUME NEW c \in Calls, PollStatus(c) \/ Toggle(c) PROVE WorkerInv'
  <2>1. PICK kind \in {"poll", "toggle"}, pool \in Pools: SendErrand(c, kind, pool)
    BY <1>1, <1>6 DEF PollStatus, Toggle, Pools
  <2> DEFINE e == Errand(kind, pool)
  <2>2. e \in ErrandRecord /\ e.kind = kind /\ errand' = [errand EXCEPT ![c] = e]
    BY <2>1 DEF Errand, ErrandRecord, SendErrand
  <2> HIDE DEF e
  <2>3. UNCHANGED <<onBoard, bound>> /\ e.kind # "rebind"
    BY <1>6, <2>2 DEF PollStatus, Toggle
  <2>4. QED BY <1>1, <1>2, <2>2, <2>3
<1>7. ASSUME NEW c \in Calls, ErrandFails(c) PROVE WorkerInv'
  <2>1. errand' = [errand EXCEPT ![c] = NoErrand] /\ UNCHANGED <<onBoard, bound>>
    BY <1>7 DEF ErrandFails, ErrandOver
  <2>2. NoErrand.kind # "rebind"
    BY <1>1
  <2>3. QED BY <1>1, <1>2, <2>1, <2>2
<1>8. ASSUME NEW c \in Calls, StatusArrives(c) PROVE WorkerInv'
  <2>1. UNCHANGED <<onBoard, bound>> /\ Follow(ErrandOver(c), workerStatus', onBoard)
    BY <1>8 DEF StatusArrives
  <2>2. ErrandOver(c) \in [Calls -> ErrandRecord]
    BY <1>1 DEF ErrandOver
  <2>3. CASE workerStatus' # workerStatus
    <3>1. <<workerStatus', onBoard>> # <<workerStatus, onBoard>>
      BY <2>3
    <3>2. QED BY <1>1, <2>1, <2>2, <3>1, Followers
  <2>4. CASE workerStatus' = workerStatus
    <3>1. errand' = [errand EXCEPT ![c] = NoErrand]
      BY <2>1, <2>4 DEF Follow, ErrandOver
    <3>2. NoErrand.kind # "rebind"
      BY <1>1
    <3>3. QED BY <1>1, <1>2, <2>1, <3>1, <3>2
  <2>5. QED BY <2>3, <2>4
<1>9. CASE UNCHANGED workerVars
  BY <1>9 DEF workerVars, WorkerInv, OneRebind
<1>10. QED BY <1>3, <1>4, <1>5, <1>6, <1>7, <1>8, <1>9 DEF WorkerNext

-----------------------------------------------------------------------------
(* The chat: one turn at a time.                                            *)

TalkFields == {"kind", "project", "after", "at", "data"}
Sends(c) == talk[c].kind = "send"

\* The cursor a poll asks from is left out of the types here.
TurnInv ==
  /\ talk = [c \in Calls |-> talk[c]]
  /\ \A c \in Calls: talk[c] = [f1 \in TalkFields |-> talk[c][f1]]
  /\ sending => \E c \in Calls: \A d \in Calls: Sends(d) <=> d = c
  /\ ~sending => \A c \in Calls: ~Sends(c)

\* A call goes on or is over: what it is stays.
LEMMA TurnGoesOn ==
  ASSUME TurnInv, NEW c \in Calls, UNCHANGED sending,
         \/ \E at, data: talk' = [talk EXCEPT ![c].at = at, ![c].data = data]
         \/ \E q: talk' = [talk EXCEPT ![c] = q] /\ ~Sends(c) /\ q.kind # "send"
                  /\ q = [f1 \in TalkFields |-> q[f1]]
  PROVE  TurnInv'
<1>1. CASE \E at, data: talk' = [talk EXCEPT ![c].at = at, ![c].data = data]
  <2>1. PICK at, data: talk' = [talk EXCEPT ![c].at = at, ![c].data = data]
    BY <1>1
  <2> DEFINE q == [talk[c] EXCEPT !.at = at, !.data = data]
  <2>2. q = [f1 \in TalkFields |-> q[f1]] /\ q.kind = talk[c].kind
    BY DEF TurnInv, TalkFields
  <2>3. talk' = [talk EXCEPT ![c] = q]
    BY <2>1 DEF TurnInv
  <2> HIDE DEF q
  <2>4. QED BY ZenonT(40), <2>2, <2>3 DEF TurnInv, Sends
<1>2. CASE \E q: talk' = [talk EXCEPT ![c] = q] /\ ~Sends(c) /\ q.kind # "send"
                 /\ q = [f1 \in TalkFields |-> q[f1]]
  <2>1. PICK q: /\ talk' = [talk EXCEPT ![c] = q] /\ ~Sends(c) /\ q.kind # "send"
                /\ q = [f1 \in TalkFields |-> q[f1]]
    BY <1>2
  <2>2. talk' = [d \in Calls |-> talk'[d]] /\ talk'[c] = q
        /\ \A d \in Calls: d # c => talk'[d] = talk[d]
    BY <2>1 DEF TurnInv
  <2>3. \A d \in Calls: talk'[d] = [f1 \in TalkFields |-> talk'[d][f1]]
    <3>1. TAKE d \in Calls
    <3>2. CASE d = c
      BY <2>1, <2>2, <3>2
    <3>3. CASE d # c
      BY <2>2, <3>3 DEF TurnInv
    <3>4. QED BY <3>2, <3>3
  <2>4. \A d \in Calls: Sends(d)' <=> Sends(d)
    BY <2>1, <2>2 DEF Sends
  <2>5. QED BY <2>2, <2>3, <2>4 DEF TurnInv
<1>3. QED BY <1>1, <1>2

LEMMA TalkValues ==
  /\ NoTalk.kind = "none" /\ NoTalk = [f1 \in TalkFields |-> NoTalk[f1]]
  /\ \A kind, p, after: Asked(kind, p, after).kind = kind
                        /\ Asked(kind, p, after) = [f1 \in TalkFields |-> Asked(kind, p, after)[f1]]
<1>1. NoTalk.kind = "none"
  BY DEF NoTalk
<1>2. \A k, p, a, at, d:
        [kind |-> k, project |-> p, after |-> a, at |-> at, data |-> d] =
          [f1 \in TalkFields |->
             [kind |-> k, project |-> p, after |-> a, at |-> at, data |-> d][f1]]
  BY DEF TalkFields
<1>3. NoTalk = [f1 \in TalkFields |-> NoTalk[f1]]
  <2> DEFINE any == CHOOSE p \in Projects: TRUE
  <2>1. NoTalk = [kind |-> "none", project |-> any, after |-> 0, at |-> "sent", data |-> {}]
    BY DEF NoTalk
  <2> HIDE DEF any
  <2>2. QED BY <1>2, <2>1
<1>4. ASSUME NEW kind, NEW p, NEW after
      PROVE  /\ Asked(kind, p, after).kind = kind
             /\ Asked(kind, p, after) = [f1 \in TalkFields |-> Asked(kind, p, after)[f1]]
  <2> DEFINE q == Asked(kind, p, after)
  <2>1. q.kind = kind
    BY <1>3 DEF Asked, TalkFields
  <2>2. q = [f1 \in TalkFields |-> q[f1]]
    BY <1>3 DEF Asked, TalkFields
  <2>3. QED BY <2>1, <2>2
<1>5. QED BY <1>1, <1>3, <1>4

LEMMA TurnStart == ChatInit \/ ChatAside => TurnInv
<1>1. ASSUME ChatInit PROVE TurnInv
  <2>1. PICK first \in Calls:
          talk = [c \in Calls |-> IF c = first THEN Asked("load", current, 0) ELSE NoTalk]
    BY <1>1 DEF ChatInit
  <2>2. QED BY <1>1, <2>1, TalkValues DEF ChatInit, TurnInv, Sends
<1>2. ASSUME ChatAside PROVE TurnInv
  BY <1>2, TalkValues DEF ChatAside, TurnInv, Sends
<1>3. QED BY <1>1, <1>2

LEMMA TurnStep == TurnInv /\ [ChatNext]_chatVars => TurnInv'
<1> SUFFICES ASSUME TurnInv, [ChatNext]_chatVars PROVE TurnInv'
  OBVIOUS
<1>1. ASSUME NEW p \in Projects, OthersWrite(p) PROVE TurnInv'
  BY <1>1 DEF OthersWrite, TurnInv, Sends
<1>2. ASSUME NEW c \in Calls, ServeList(c) \/ ServeTurn(c) \/ RefuseTalk(c) PROVE TurnInv'
  <2>1. UNCHANGED sending
    BY <1>2 DEF ServeList, ServeTurn, RefuseTalk
  <2>2. CASE ServeList(c)
    <3>1. talk' = [talk EXCEPT ![c].at = "answered", ![c].data =
                      Messages(talk[c].project, talk[c].after)]
      BY <2>2 DEF ServeList
    <3>2. QED BY <2>1, <3>1, TurnGoesOn
  <2>3. CASE ServeTurn(c)
    <3> DEFINE data == talk[c].data \cup {NextId}
               at == IF talk[c].at = "sent" THEN "asked" ELSE "answered"
    <3>1. talk' = [talk EXCEPT ![c].data = data, ![c].at = at]
      BY <2>3 DEF ServeTurn
    <3> HIDE DEF data, at
    <3>2. talk' = [talk EXCEPT ![c].at = at, ![c].data = data]
      BY <3>1 DEF TurnInv, TalkFields
    <3>3. QED BY <2>1, <3>2, TurnGoesOn
  <2>4. CASE RefuseTalk(c)
    <3>1. talk' = [talk EXCEPT ![c].at = "failed", ![c].data = {}]
      BY <2>4 DEF RefuseTalk
    <3>2. QED BY <2>1, <3>1, TurnGoesOn
  <2>5. QED BY <1>2, <2>2, <2>3, <2>4
<1>3. ASSUME NEW c \in Calls, NEW kind \in {"load", "refresh"}, NEW p, NEW after,
             StartTalk(c, Asked(kind, p, after)), UNCHANGED sending
      PROVE  TurnInv'
  <2> DEFINE q == Asked(kind, p, after)
  <2>1. talk' = [talk EXCEPT ![c] = q] /\ ~Sends(c)
    BY <1>3, TalkValues DEF StartTalk, FreeTalk, Sends
  <2>2. q.kind # "send" /\ q = [f1 \in TalkFields |-> q[f1]]
    BY TalkValues
  <2> HIDE DEF q
  <2>3. QED BY <1>3, <2>1, <2>2, TurnGoesOn
<1>4. ASSUME NEW c \in Calls, PollChat(c) PROVE TurnInv'
  BY <1>3, <1>4 DEF PollChat
<1>5. ASSUME NEW c \in Calls, NEW p \in Projects, Switch(p, c) PROVE TurnInv'
  BY <1>3, <1>5 DEF Switch
<1>6. ASSUME NEW c \in Calls, SubmitMessage(c) PROVE TurnInv'
  <2> DEFINE q == Asked("send", current, 0)
  <2>1. talk' = [talk EXCEPT ![c] = q] /\ ~sending /\ sending'
    BY <1>6 DEF SubmitMessage, StartTalk
  <2>2. q.kind = "send" /\ q = [f1 \in TalkFields |-> q[f1]]
    BY TalkValues
  <2> HIDE DEF q
  <2>3. talk' = [d \in Calls |-> talk'[d]] /\ talk'[c] = q
        /\ \A d \in Calls: d # c => talk'[d] = talk[d]
    BY <2>1 DEF TurnInv
  <2>4. \A d \in Calls: talk'[d] = [f1 \in TalkFields |-> talk'[d][f1]]
    BY <2>2, <2>3 DEF TurnInv
  <2>5. \A d \in Calls: Sends(d)' <=> d = c
    BY <2>1, <2>2, <2>3 DEF TurnInv, Sends
  <2>6. QED BY <2>1, <2>3, <2>4, <2>5 DEF TurnInv
\* A call that is over.
<1>7. ASSUME NEW c \in Calls, TalkDone(c)
      PROVE  /\ talk' = [d \in Calls |-> talk'[d]]
             /\ \A d \in Calls: /\ talk'[d] = [f1 \in TalkFields |-> talk'[d][f1]]
                                /\ Sends(d)' <=> Sends(d) /\ d # c
  <2>1. talk' = [d \in Calls |-> talk'[d]] /\ talk'[c] = NoTalk
        /\ \A d \in Calls: d # c => talk'[d] = talk[d]
    BY <1>7 DEF TalkDone, TurnInv
  <2>2. QED BY <2>1, TalkValues DEF TurnInv, Sends
<1>8. ASSUME NEW c \in Calls, ChatLoaded(c) \/ ChatRefreshed(c) PROVE TurnInv'
  <2>1. TalkDone(c) /\ UNCHANGED sending /\ ~Sends(c)
    BY <1>8 DEF ChatLoaded, ChatRefreshed, Sends
  <2>2. QED BY <1>7, <2>1 DEF TurnInv
<1>9. ASSUME NEW c \in Calls, TurnEnds(c) PROVE TurnInv'
  <2>1. TalkDone(c) /\ ~sending' /\ Sends(c)
    BY <1>9 DEF TurnEnds, Sends
  <2>2. \A d \in Calls: Sends(d) => d = c
    BY <2>1 DEF TurnInv
  <2>3. QED BY <1>7, <2>1, <2>2 DEF TurnInv
<1>10. CASE UNCHANGED chatVars
  BY <1>10 DEF chatVars, TurnInv, Sends
<1>11. QED BY <1>1, <1>2, <1>4, <1>5, <1>6, <1>8, <1>9, <1>10 DEF ChatNext

LEMMA TurnIsOne == TurnInv => OneTurn
<1> SUFFICES ASSUME TurnInv PROVE OneTurn
  OBVIOUS
<1> DEFINE senders == {c \in Calls: talk[c].kind = "send"}
<1>1. CASE sending
  <2>1. PICK c \in Calls: \A d \in Calls: Sends(d) <=> d = c
    BY <1>1 DEF TurnInv
  <2>2. senders = {c}
    BY <2>1 DEF Sends
  <2>3. QED BY <1>1, <2>2, FS_Singleton DEF OneTurn
<1>2. CASE ~sending
  <2>1. senders = {}
    BY <1>2 DEF TurnInv, Sends
  <2>2. QED BY <1>2, <2>1, FS_EmptySet DEF OneTurn
<1>3. QED BY <1>1, <1>2

-----------------------------------------------------------------------------
(* The review: what is created is what the cards say.                       *)

ApprovalRecord ==
  [at: {"none", "sent", "stored", "refused", "lost"}, of: 0..MaxPreview,
   load: [ReviewCards -> Outcomes], mine: BOOLEAN]

\* An approval that the composer waits for is of the preview shown, and as the
\* cards say unless they were changed since; one that was carried out made what
\* it says; a poll found what there is.
ReviewInv ==
  /\ preview \in 0..MaxPreview /\ cards \in [ReviewCards -> CardRecord]
  /\ approval \in ApprovalRecord
  /\ tickets \in [Previews -> [ReviewCards -> Outcomes]]
  /\ listed \in [Previews -> [ReviewCards -> Nat]]
  /\ polled.found \in [Previews -> [ReviewCards -> BOOLEAN]] /\ fiddled \in BOOLEAN
  /\ stage = "decomposing" => preview < MaxPreview
  /\ stage = "review" => preview \in Previews
  /\ approval.at # "none" => approval.of \in Previews
  /\ Confirming => /\ stage = "review" /\ approval.of = preview
                   /\ ~fiddled => approval.load = Chosen(cards)
  /\ approval.at \in {"stored", "lost"} => tickets[approval.of] = approval.load
  /\ stage = "created" => approval.at = "none" /\ preview \in Previews
  /\ \A n \in Previews, c \in ReviewCards: polled.found[n][c] => tickets[n][c] # "out"
  /\ ChosenIsMade /\ ListedIsMade

LEMMA ReviewValues ==
  /\ NothingMade \in [ReviewCards -> Outcomes] /\ \A c \in ReviewCards: NothingMade[c] = "out"
  /\ NoApproval \in ApprovalRecord /\ NoApproval.at = "none"
  /\ AsProposed \in [ReviewCards -> CardRecord]
  /\ NoneFound \in [Previews -> [ReviewCards -> BOOLEAN]]
  /\ \A n \in Previews, c \in ReviewCards: ~NoneFound[n][c]
  /\ MaxPreview \in Nat /\ 0 \in 0..MaxPreview /\ Previews \subseteq 0..MaxPreview
<1>1. MaxPreview \in Nat /\ 0 \in 0..MaxPreview /\ Previews \subseteq 0..MaxPreview
  BY CardsAssumption DEF Previews
<1>2. NothingMade \in [ReviewCards -> Outcomes] /\ \A c \in ReviewCards: NothingMade[c] = "out"
  BY DEF NothingMade, Outcomes
<1>3. NoApproval \in ApprovalRecord /\ NoApproval.at = "none"
  BY <1>1, <1>2 DEF NoApproval, ApprovalRecord
<1>4. AsProposed \in [ReviewCards -> CardRecord]
  BY DEF AsProposed, CardRecord, CardTexts
<1>5. /\ NoneFound \in [Previews -> [ReviewCards -> BOOLEAN]]
      /\ \A n \in Previews, c \in ReviewCards: ~NoneFound[n][c]
  BY DEF NoneFound
<1>6. QED BY <1>1, <1>2, <1>3, <1>4, <1>5

LEMMA ReviewStart == ReviewInit \/ ReviewAside => ReviewInv
<1> SUFFICES ASSUME ReviewInit PROVE ReviewInv
  BY DEF ReviewAside
<1>1. tickets \in [Previews -> [ReviewCards -> Outcomes]]
  BY ReviewValues DEF ReviewInit
<1>2. /\ listed \in [Previews -> [ReviewCards -> Nat]]
      /\ \A n \in Previews, c \in ReviewCards: listed[n][c] = 0
  BY DEF ReviewInit
<1>3. polled.found = NoneFound
  BY DEF ReviewInit
<1>4. /\ stage = "closed" /\ preview = 0 /\ cards = AsProposed /\ fiddled = FALSE
      /\ approval = NoApproval
  BY DEF ReviewInit
<1>5. ~Confirming /\ approval.at = "none"
  BY <1>4, ReviewValues DEF Confirming
<1>6. ChosenIsMade /\ ListedIsMade
  BY <1>2, <1>4 DEF ChosenIsMade, ListedIsMade
<1>7. QED
  BY <1>1, <1>2, <1>3, <1>4, <1>5, <1>6, ReviewValues DEF ReviewInv

LEMMA ReviewStep == ReviewInv /\ [ReviewNext]_reviewVars => ReviewInv'
<1> SUFFICES ASSUME ReviewInv, [ReviewNext]_reviewVars PROVE ReviewInv'
  OBVIOUS
<1> USE ReviewValues
<1>1. /\ approval \in ApprovalRecord /\ (approval.at = "none" \/ approval.of \in Previews)
      /\ approval.load \in [ReviewCards -> Outcomes]
      /\ cards \in [ReviewCards -> CardRecord]
      /\ tickets \in [Previews -> [ReviewCards -> Outcomes]]
      /\ listed \in [Previews -> [ReviewCards -> Nat]]
  <2>1. /\ approval \in ApprovalRecord /\ (approval.at # "none" => approval.of \in Previews)
        /\ cards \in [ReviewCards -> CardRecord]
        /\ tickets \in [Previews -> [ReviewCards -> Outcomes]]
        /\ listed \in [Previews -> [ReviewCards -> Nat]]
    BY DEF ReviewInv
  <2>2. approval.load \in [ReviewCards -> Outcomes]
    BY <2>1 DEF ApprovalRecord
  <2>3. QED BY <2>1, <2>2
\* The step turns a page and nothing else.
<1>2. ASSUME UNCHANGED <<preview, cards, approval, tickets, listed, polled, fiddled>>,
             stage' = "decomposing" => preview < MaxPreview,
             stage' \notin {"created", "review"} \/ stage' = stage,
             Confirming => stage' = stage
      PROVE  ReviewInv'
  BY <1>2 DEF ReviewInv, Confirming, ChosenIsMade, ListedIsMade, Chosen
<1>3. ASSUME OpenReview \/ AskPreview \/ PreviewFails \/ BackToEdit PROVE ReviewInv'
  <2>1. Confirming => stage = "review"
    BY DEF ReviewInv
  <2>2. QED
    BY <1>2, <1>3, <2>1 DEF OpenReview, AskPreview, PreviewFails, BackToEdit
<1>4. CASE PreviewArrives
  <2>1. stage = "decomposing" /\ preview \in 0..MaxPreview /\ preview < MaxPreview /\ ~Confirming
    BY <1>4 DEF PreviewArrives, ReviewInv
  <2>2. /\ stage' = "review" /\ preview' = preview + 1 /\ cards' = AsProposed /\ fiddled' = FALSE
        /\ UNCHANGED <<approval, tickets, listed, polled>>
    BY <1>4 DEF PreviewArrives
  <2>3. preview' \in Previews
    BY <2>1, <2>2 DEF Previews
  <2>4. ~Confirming'
    BY <2>1, <2>2 DEF Confirming
  <2>5. ChosenIsMade' /\ ListedIsMade'
    BY <2>2 DEF ReviewInv, ChosenIsMade, ListedIsMade
  <2>6. QED BY <2>2, <2>3, <2>4, <2>5 DEF ReviewInv
<1>5. ASSUME NEW c \in ReviewCards, NEW text \in CardRecord, ChangeCard(c, text) PROVE ReviewInv'
  <2>1. cards' \in [ReviewCards -> CardRecord]
    BY <1>1, <1>5 DEF ChangeCard
  <2>2. fiddled' \in BOOLEAN /\ (Confirming => fiddled')
    BY <1>5 DEF ChangeCard, ReviewInv
  <2>3. QED
    BY <1>5, <2>1, <2>2 DEF ChangeCard, ReviewInv, Confirming, ChosenIsMade, ListedIsMade
<1>6. ASSUME NEW c \in ReviewCards, ToggleCard(c) \/ EditCard(c) PROVE ReviewInv'
  <2>1. /\ [cards[c] EXCEPT !.included = ~@] \in CardRecord
        /\ [cards[c] EXCEPT !.title = "edited"] \in CardRecord
    <3>1. cards[c] \in CardRecord
      BY <1>1
    <3>2. QED BY <3>1 DEF CardRecord, CardTexts
  <2>2. QED BY <1>5, <1>6, <2>1 DEF ToggleCard, EditCard
<1>7. CASE ApproveCards
  <2>1. Chosen(cards) \in [ReviewCards -> Outcomes]
    BY <1>1 DEF Chosen, CardRecord, Outcomes
  <2> DEFINE a == [at |-> "sent", of |-> preview, load |-> Chosen(cards), mine |-> TRUE]
  <2>2. a \in ApprovalRecord /\ a.at = "sent" /\ a.of = preview /\ a.load = Chosen(cards)
    BY <2>1 DEF ApprovalRecord, ReviewInv
  <2>3. /\ approval' = a /\ stage = "review" /\ fiddled' = FALSE
        /\ UNCHANGED <<stage, preview, cards, tickets, listed, polled>>
    BY <1>7 DEF ApproveCards
  <2> HIDE DEF a
  <2>4. Chosen(cards)' = Chosen(cards)
    BY <2>3 DEF Chosen
  <2>5. QED
    BY <2>2, <2>3, <2>4 DEF ReviewInv, Confirming, ChosenIsMade, ListedIsMade
\* The approval goes on.
<1>8. ASSUME NEW a \in ApprovalRecord, approval' = a, approval.at # "none", a.at # "none",
             a.of = approval.of, a.load = approval.load, a.mine => approval.mine,
             stage' = stage \/ (stage' = "closed" /\ ~a.mine),
             a.at \in {"stored", "lost"} => tickets'[a.of] = a.load,
             tickets' \in [Previews -> [ReviewCards -> Outcomes]],
             \A n \in Previews: tickets'[n] = tickets[n] \/ tickets[n] = NothingMade,
             UNCHANGED <<preview, cards, listed, polled, fiddled>>
      PROVE  ReviewInv'
  <2>1. Chosen(cards)' = Chosen(cards)
    BY <1>8 DEF Chosen
  <2>2. \A n \in Previews, c \in ReviewCards: tickets[n][c] # "out" => tickets'[n][c] # "out"
    BY <1>8
  <2>3. stage' # "created"
    BY <1>8 DEF ReviewInv
  <2>4. QED
    BY <1>8, <2>1, <2>2, <2>3 DEF ReviewInv, Confirming, ChosenIsMade, ListedIsMade
<1>9. CASE CreateTickets
  <2>1. PICK at \in {"stored", "lost", "refused"}:
          /\ approval' = [approval EXCEPT !.at = at]
          /\ \/ /\ tickets[approval.of] = NothingMade
                /\ tickets' = [tickets EXCEPT ![approval.of] = approval.load]
             \/ at = "refused" /\ UNCHANGED tickets
    BY <1>9 DEF CreateTickets
  <2> DEFINE a == [approval EXCEPT !.at = at]
  <2>2. a \in ApprovalRecord /\ a.at = at /\ a.of = approval.of /\ a.load = approval.load
        /\ a.mine = approval.mine
    BY <1>1 DEF ApprovalRecord
  <2>3. approval' = a
    BY <2>1
  <2> HIDE DEF a
  <2>4. /\ UNCHANGED <<stage, preview, cards, listed, polled, fiddled>>
        /\ approval.at = "sent" /\ approval.of \in Previews
    BY <1>1, <1>9 DEF CreateTickets
  <2>5. /\ tickets' \in [Previews -> [ReviewCards -> Outcomes]]
        /\ a.at \in {"stored", "lost"} => tickets'[a.of] = a.load
        /\ \A n \in Previews: tickets'[n] = tickets[n] \/ tickets[n] = NothingMade
    BY <1>1, <2>1, <2>2, <2>4
  <2>6. approval.at # "none" /\ a.at # "none" /\ a.mine => approval.mine
    BY <2>2
  <2>7. QED BY <1>8, <2>2, <2>3, <2>4, <2>5
<1>10. CASE CloseReview
  <2>1. CASE approval.at = "none"
    BY <1>2, <1>10, <2>1 DEF CloseReview, Confirming
  <2>2. CASE approval.at # "none"
    <3> DEFINE a == [approval EXCEPT !.mine = FALSE]
    <3>1. a \in ApprovalRecord /\ a.at = approval.at /\ a.of = approval.of
          /\ a.load = approval.load /\ ~a.mine
      BY <1>1 DEF ApprovalRecord
    <3>2. approval' = a /\ stage' = "closed"
          /\ UNCHANGED <<preview, cards, tickets, listed, polled, fiddled>>
      BY <1>10, <2>2 DEF CloseReview
    <3> HIDE DEF a
    <3>3. /\ a.at \in {"stored", "lost"} => tickets'[a.of] = a.load
          /\ tickets' \in [Previews -> [ReviewCards -> Outcomes]]
      BY <1>1, <3>1, <3>2 DEF ReviewInv
    <3>4. QED BY <1>8, <2>2, <3>1, <3>2, <3>3
  <2>3. QED BY <2>1, <2>2
<1>11. ASSUME Approved \/ ApprovalFails PROVE ReviewInv'
  <2>1. /\ approval' = NoApproval /\ approval.at # "none"
        /\ UNCHANGED <<preview, cards, tickets, polled, fiddled>>
        /\ stage' = stage \/ (stage' = "created" /\ Confirming /\ approval.at = "stored")
    BY <1>11 DEF Approved, ApprovalFails, Confirming
  <2>2. ~Confirming' /\ Chosen(cards)' = Chosen(cards)
    BY <2>1 DEF Confirming, Chosen
  <2>3. listed' \in [Previews -> [ReviewCards -> Nat]] /\ ListedIsMade'
    <3>1. CASE Approved
      <4> DEFINE new == [c \in ReviewCards |-> IF approval.load[c] = "out" THEN listed[approval.of][c]
                                               ELSE listed[approval.of][c] + 1]
      <4>1. listed' = [listed EXCEPT ![approval.of] = new] /\ UNCHANGED tickets
        BY <3>1 DEF Approved
      <4>2. new \in [ReviewCards -> Nat]
        <5>1. listed[approval.of] \in [ReviewCards -> Nat]
          BY <1>1, <2>1
        <5>2. QED BY <5>1
      <4>3. \A c \in ReviewCards: new[c] > 0 => tickets[approval.of][c] # "out"
        BY <1>1, <2>1, <3>1 DEF Approved, ReviewInv, ListedIsMade
      <4> HIDE DEF new
      <4>4. QED BY <1>1, <2>1, <4>1, <4>2, <4>3 DEF ReviewInv, ListedIsMade
    <3>2. CASE ApprovalFails
      BY <3>2 DEF ApprovalFails, ReviewInv, ListedIsMade
    <3>3. QED BY <1>11, <3>1, <3>2
  <2>4. ChosenIsMade'
    <3>1. stage # "created"
      BY <2>1 DEF ReviewInv
    <3>2. ASSUME stage' = "created", ~fiddled
          PROVE  tickets[preview] = Chosen(cards)
      BY <2>1, <3>1, <3>2 DEF ReviewInv
    <3>3. QED BY <2>1, <2>2, <3>2 DEF ChosenIsMade
  <2>5. stage' = "created" => preview \in Previews
    BY <2>1 DEF ReviewInv, Confirming
  <2>6. QED BY <2>1, <2>2, <2>3, <2>4, <2>5 DEF ReviewInv
\* The poll.
<1>12. ASSUME UNCHANGED <<stage, preview, cards, approval, tickets, fiddled>>,
              polled'.found \in [Previews -> [ReviewCards -> BOOLEAN]],
              \A n \in Previews, c \in ReviewCards: polled'.found[n][c] => tickets[n][c] # "out",
              listed' \in [Previews -> [ReviewCards -> Nat]], ListedIsMade'
       PROVE  ReviewInv'
  <2>1. Chosen(cards)' = Chosen(cards)
    BY <1>12 DEF Chosen
  <2>2. QED BY <1>12, <2>1 DEF ReviewInv, Confirming, ChosenIsMade
<1>13. CASE SendPoll
  BY <1>12, <1>13 DEF SendPoll, ReviewInv, ListedIsMade
<1>14. CASE ServePoll
  <2> DEFINE found == [n \in Previews |-> [c \in ReviewCards |-> tickets[n][c] # "out"]]
  <2>1. polled' = [at |-> "answered", found |-> found] \/ polled' = [at |-> "idle", found |-> NoneFound]
    BY <1>14 DEF ServePoll
  <2>2. ASSUME NEW set, polled' = [at |-> "answered", found |-> set] \/ polled' = [at |-> "idle", found |-> NoneFound]
        PROVE  polled'.found = set \/ polled'.found = NoneFound
    BY <2>2
  <2>3. /\ found \in [Previews -> [ReviewCards -> BOOLEAN]]
        /\ \A n \in Previews, c \in ReviewCards: found[n][c] => tickets[n][c] # "out"
    OBVIOUS
  <2> HIDE DEF found
  <2>4. /\ polled'.found \in [Previews -> [ReviewCards -> BOOLEAN]]
        /\ \A n \in Previews, c \in ReviewCards: polled'.found[n][c] => tickets[n][c] # "out"
    BY <2>1, <2>2, <2>3
  <2>5. UNCHANGED <<stage, preview, cards, approval, tickets, fiddled, listed>>
    BY <1>14 DEF ServePoll
  <2>6. listed' \in [Previews -> [ReviewCards -> Nat]] /\ ListedIsMade'
    BY <2>5 DEF ReviewInv, ListedIsMade
  <2>7. QED BY <1>12, <2>4, <2>5, <2>6
<1>15. CASE ReviewPolled
  <2>1. /\ listed' \in [Previews -> [ReviewCards -> Nat]] /\ UNCHANGED tickets
        /\ \A n \in Previews, c \in ReviewCards: listed'[n][c] > 0 => polled.found[n][c]
    BY <1>15 DEF ReviewPolled
  <2>2. ListedIsMade' /\ polled'.found = NoneFound
    <3>1. \A n \in Previews, c \in ReviewCards: polled.found[n][c] => tickets[n][c] # "out"
      BY DEF ReviewInv
    <3>2. polled' = [at |-> "idle", found |-> NoneFound]
      BY <1>15 DEF ReviewPolled
    <3>3. QED BY <2>1, <3>1, <3>2 DEF ListedIsMade
  <2>3. UNCHANGED <<stage, preview, cards, approval, tickets, fiddled>>
    BY <1>15 DEF ReviewPolled
  <2>4. /\ polled'.found \in [Previews -> [ReviewCards -> BOOLEAN]]
        /\ \A n \in Previews, c \in ReviewCards: polled'.found[n][c] => tickets[n][c] # "out"
    BY <2>2
  <2>5. QED BY <1>12, <2>1, <2>2, <2>3, <2>4
<1>16. CASE UNCHANGED reviewVars
  <2>1. UNCHANGED <<stage, preview, cards, approval, tickets, listed, polled, fiddled>>
    BY <1>16 DEF reviewVars
  <2>2. stage = "decomposing" => preview < MaxPreview
    BY DEF ReviewInv
  <2>3. QED BY <1>2, <2>1, <2>2
<1>17. QED
  BY <1>3, <1>4, <1>6, <1>7, <1>9, <1>10, <1>11, <1>13, <1>14, <1>15, <1>16 DEF ReviewNext

-----------------------------------------------------------------------------
(* The page shell: a form makes one ticket, and stays open while it is saved. *)

TicketFormRecord == [no: 0..MaxForm, open: BOOLEAN, filled: BOOLEAN, isSaving: BOOLEAN]
GuideRecord == [open: BOOLEAN, by: {"page", "user"}, dismissed: BOOLEAN]

\* A form has at most one call under way, the form shown only while it is being
\* saved; a form that can be submitted has made nothing, unless an answer was lost.
ShellInv ==
  /\ newTicket \in TicketFormRecord /\ making \in [Calls -> MakeRecord] /\ made \in [Forms -> Nat]
  /\ guide \in GuideRecord
  /\ \A c, d \in Calls: c # d /\ making[c].form # 0 => making[c].form # making[d].form
  /\ \A c \in Calls: /\ making[c].form <= newTicket.no
                     /\ making[c].form = newTicket.no /\ newTicket.no # 0 => newTicket.isSaving
                     /\ making[c].at # "sent" => making[c].form # 0
                     /\ making[c].form \in Forms \ lost /\ making[c].at # "answered" =>
                          made[making[c].form] = 0
  /\ newTicket.no \in Forms \ lost /\ ~newTicket.isSaving => made[newTicket.no] = 0
  /\ \A i \in Forms: i > newTicket.no => made[i] = 0
  /\ newTicket.open => newTicket.no \in Forms
  /\ OneTicketPerForm /\ SavingStaysOpen /\ DismissedStaysAway

LEMMA ShellStart == ShellInit \/ ShellAside => ShellInv
<1> SUFFICES ASSUME ShellInit PROVE ShellInv
  BY DEF ShellAside
<1>1. NoForm \in TicketFormRecord /\ NoForm.no = 0 /\ ~NoForm.open
  BY FormsAssumption DEF NoForm, TicketFormRecord
<1>2. NoMake \in MakeRecord /\ NoMake.form = 0 /\ NoMake.at = "sent"
  BY FormsAssumption DEF NoMake, MakeRecord
<1>3. /\ newTicket = NoForm /\ \A c \in Calls: making[c] = NoMake
      /\ making \in [Calls -> MakeRecord] /\ made \in [Forms -> Nat]
      /\ \A i \in Forms: made[i] = 0
  BY <1>2 DEF ShellInit
<1>4. guide \in GuideRecord /\ ~guide.open
  BY DEF ShellInit, GuideRecord
<1>5. 0 \notin Forms
  BY DEF Forms
<1>6. OneTicketPerForm /\ SavingStaysOpen /\ DismissedStaysAway
  BY <1>2, <1>3, <1>4 DEF OneTicketPerForm, SavingStaysOpen, DismissedStaysAway
<1>7. QED BY <1>1, <1>2, <1>3, <1>4, <1>5, <1>6 DEF ShellInv

LEMMA ShellStep == ShellInv /\ [ShellNext]_shellVars => ShellInv'
<1> SUFFICES ASSUME ShellInv, [ShellNext]_shellVars PROVE ShellInv'
  OBVIOUS
<1>1. /\ newTicket \in TicketFormRecord /\ making \in [Calls -> MakeRecord] /\ made \in [Forms -> Nat]
      /\ guide \in GuideRecord /\ newTicket.no \in 0..MaxForm
      /\ \A c \in Calls: making[c] \in MakeRecord /\ making[c].form \in 0..MaxForm
      /\ MaxForm \in Nat /\ Forms = 1..MaxForm
      /\ NoMake \in MakeRecord /\ NoMake.form = 0 /\ NoMake.at = "sent"
  <2>1. /\ newTicket \in TicketFormRecord /\ making \in [Calls -> MakeRecord] /\ made \in [Forms -> Nat]
        /\ guide \in GuideRecord /\ \A c \in Calls: making[c] \in MakeRecord
    BY DEF ShellInv
  <2>2. newTicket.no \in 0..MaxForm /\ \A c \in Calls: making[c].form \in 0..MaxForm
    BY <2>1 DEF TicketFormRecord, MakeRecord
  <2>3. /\ MaxForm \in Nat /\ Forms = 1..MaxForm
        /\ NoMake \in MakeRecord /\ NoMake.form = 0 /\ NoMake.at = "sent"
    BY FormsAssumption DEF Forms, NoMake, MakeRecord
  <2>4. QED BY <2>1, <2>2, <2>3
\* The guide and the panels.
<1>2. ASSUME Unmade, guide' \in GuideRecord, DismissedStaysAway' PROVE ShellInv'
  BY <1>2 DEF Unmade, ShellInv, OneTicketPerForm, SavingStaysOpen
<1>3. ASSUME Unmade, UNCHANGED guide PROVE ShellInv'
  BY <1>1, <1>2, <1>3 DEF ShellInv, DismissedStaysAway
<1>4. ASSUME NEW next \in Pages, Navigate(next) PROVE ShellInv'
  BY <1>3, <1>4 DEF Navigate
<1>5. ASSUME NEW overlay \in Panels, CloseOverlay(overlay) PROVE ShellInv'
  BY <1>3, <1>5 DEF CloseOverlay
<1>6. ASSUME OpenTicketPanel \/ OpenRequirement \/ OpenNewRequirement PROVE ShellInv'
  BY <1>3, <1>6 DEF OpenTicketPanel, OpenRequirement, OpenNewRequirement
<1>7. CASE SetupChanges
  <2>1. guide' \in GuideRecord /\ DismissedStaysAway'
    BY <1>1, <1>7 DEF SetupChanges, FeedbackPrompted, GuideRecord, ShellInv, DismissedStaysAway
  <2>2. QED BY <1>2, <1>7, <2>1 DEF SetupChanges
<1>8. ASSUME OpenGuide \/ CloseGuide \/ GuideToModels \/ GuideToRequirement PROVE ShellInv'
  <2>1. /\ guide' = [guide EXCEPT !.open = TRUE, !.by = "user"] \/ guide' = [guide EXCEPT !.open = FALSE]
        /\ Unmade
    BY <1>8 DEF OpenGuide, CloseGuide, GuideToModels, GuideToRequirement
  <2>2. guide' \in GuideRecord /\ DismissedStaysAway'
    BY <1>1, <2>1 DEF GuideRecord, DismissedStaysAway
  <2>3. QED BY <1>2, <2>1, <2>2
<1>9. ASSUME DismissGuide \/ SeedFromGuide \/ GuideSeeded PROVE ShellInv'
  <2>1. (guide' = Dismissed \/ guide' = guide) /\ Unmade
    BY <1>9 DEF DismissGuide, SeedFromGuide, GuideSeeded
  <2>2. guide' \in GuideRecord /\ DismissedStaysAway'
    BY <1>1, <2>1 DEF Dismissed, GuideRecord, ShellInv, DismissedStaysAway
  <2>3. QED BY <1>2, <2>1, <2>2
\* The form alone.
<1>10. ASSUME NEW g \in TicketFormRecord, newTicket' = g, UNCHANGED <<made, making, guide, lost>>,
              g.no = newTicket.no, g.isSaving = newTicket.isSaving,
              g.open => newTicket.open, escaped' = {} => escaped = {},
              escaped' = {} /\ g.isSaving => g.open = newTicket.open
       PROVE  ShellInv'
  <2>1. SavingStaysOpen'
    BY <1>1, <1>10 DEF ShellInv, SavingStaysOpen
  <2>2. QED BY <1>10, <2>1 DEF ShellInv, OneTicketPerForm, DismissedStaysAway
<1>11. ASSUME FillForm \/ CancelForm PROVE ShellInv'
  <2> DEFINE g == [newTicket EXCEPT !.filled = TRUE]
             h == [newTicket EXCEPT !.open = FALSE]
  <2>1. /\ g \in TicketFormRecord /\ g.no = newTicket.no /\ g.isSaving = newTicket.isSaving
        /\ g.open = newTicket.open
        /\ h \in TicketFormRecord /\ h.no = newTicket.no /\ h.isSaving = newTicket.isSaving /\ ~h.open
    BY <1>1 DEF TicketFormRecord
  <2>2. /\ newTicket' = g \/ (newTicket' = h /\ ~newTicket.isSaving)
        /\ UNCHANGED <<made, making, guide, lost, escaped>>
    BY <1>11 DEF FillForm, CancelForm
  <2> HIDE DEF g, h
  <2>3. QED BY <1>10, <2>1, <2>2
<1>12. CASE Escape
  <2> DEFINE h == [newTicket EXCEPT !.open = FALSE]
  <2>1. h \in TicketFormRecord /\ h.no = newTicket.no /\ h.isSaving = newTicket.isSaving /\ ~h.open
    BY <1>1 DEF TicketFormRecord
  <2>2. /\ UNCHANGED <<made, making, guide, lost>>
        /\ \/ UNCHANGED <<newTicket, escaped>>
           \/ /\ newTicket' = h
              /\ escaped' = IF newTicket.isSaving THEN escaped \cup {newTicket.no} ELSE escaped
    BY <1>12 DEF Escape
  <2> HIDE DEF h
  <2>3. QED BY <1>1, <1>10, <2>1, <2>2
<1>13. CASE OpenForm
  <2> DEFINE g == [NoForm EXCEPT !.no = newTicket.no + 1, !.open = TRUE]
  <2>1. newTicket.no + 1 \in Forms /\ ~newTicket.open
    BY <1>1, <1>13 DEF OpenForm, Blocked
  <2>2. g \in TicketFormRecord /\ g.no = newTicket.no + 1 /\ g.open /\ ~g.isSaving
    <3>1. newTicket.no + 1 \in 0..MaxForm
      BY <1>1, <2>1
    <3>2. QED BY <3>1 DEF NoForm, TicketFormRecord
  <2>3. newTicket' = g /\ UNCHANGED <<made, making, guide, lost, escaped>>
    BY <1>13 DEF OpenForm
  <2> HIDE DEF g
  <2>4. \A c \in Calls: making[c].form <= newTicket.no
    BY DEF ShellInv
  <2>5. SavingStaysOpen'
    BY <2>1, <2>3 DEF ShellInv, SavingStaysOpen
  <2>6. QED
    BY SMTT(30), <1>1, <2>1, <2>2, <2>3, <2>4, <2>5 DEF ShellInv, OneTicketPerForm, DismissedStaysAway
\* One call changes.
<1>14. ASSUME NEW c \in Calls, NEW m \in MakeRecord, making' = [making EXCEPT ![c] = m]
       PROVE  /\ making' \in [Calls -> MakeRecord] /\ making'[c] = m
              /\ \A d \in Calls: d # c => making'[d] = making[d]
  BY <1>1, <1>14
<1>15. ASSUME NEW c \in Calls, SubmitForm(c) PROVE ShellInv'
  <2> DEFINE m == [form |-> newTicket.no, at |-> "sent"]
             g == [newTicket EXCEPT !.isSaving = TRUE]
  <2>1. m \in MakeRecord /\ m.form = newTicket.no /\ m.at = "sent"
    BY <1>1 DEF MakeRecord
  <2>2. /\ g \in TicketFormRecord /\ g.no = newTicket.no /\ g.isSaving /\ g.open = newTicket.open
    BY <1>1 DEF TicketFormRecord
  <2>3. /\ making' = [making EXCEPT ![c] = m] /\ newTicket' = g
        /\ UNCHANGED <<made, guide, lost, escaped>>
        /\ newTicket.open /\ ~newTicket.isSaving
    BY <1>15 DEF SubmitForm
  <2> HIDE DEF m, g
  <2>4. /\ making' \in [Calls -> MakeRecord] /\ making'[c] = m
        /\ \A d \in Calls: d # c => making'[d] = making[d]
    BY <1>14, <2>1, <2>3
  <2>5. /\ newTicket.no \in Forms /\ newTicket.no # 0
        /\ \A d \in Calls: making[d].form # newTicket.no
        /\ newTicket.no \notin lost => made[newTicket.no] = 0
    BY <1>1, <2>3 DEF ShellInv
  <2>6. SavingStaysOpen'
    BY <1>1, <2>1, <2>2, <2>3, <2>4 DEF ShellInv, SavingStaysOpen
  <2>7. QED
    BY <1>1, <2>1, <2>2, <2>3, <2>4, <2>5, <2>6 DEF ShellInv, OneTicketPerForm, DismissedStaysAway
<1>16. ASSUME NEW c \in Calls, MakeTicket(c) PROVE ShellInv'
  <2> DEFINE m == [making[c] EXCEPT !.at = "answered"]
             i == making[c].form
  <2>1. m \in MakeRecord /\ m.form = i /\ m.at = "answered"
    BY <1>1 DEF MakeRecord
  <2>2. /\ making' = [making EXCEPT ![c] = m] /\ made' = [made EXCEPT ![i] = @ + 1]
        /\ UNCHANGED <<newTicket, guide, lost, escaped>>
        /\ i # 0 /\ making[c].at = "sent"
    BY <1>16 DEF MakeTicket
  <2> HIDE DEF m
  <2>3. /\ making' \in [Calls -> MakeRecord] /\ making'[c] = m
        /\ \A d \in Calls: d # c => making'[d] = making[d] /\ making[d].form # i
    BY <1>14, <2>1, <2>2 DEF ShellInv
  <2>4. i \in Forms /\ i <= newTicket.no /\ (i \notin lost => made[i] = 0)
    BY <1>1, <2>2 DEF ShellInv
  <2>5. i = newTicket.no => newTicket.isSaving
    BY <2>2 DEF ShellInv
  <2> HIDE DEF i
  <2>6. /\ made' \in [Forms -> Nat] /\ made'[i] = made[i] + 1
        /\ \A j \in Forms: j # i => made'[j] = made[j]
    BY <1>1, <2>2, <2>4
  <2>7. OneTicketPerForm'
    BY <2>2, <2>4, <2>6 DEF ShellInv, OneTicketPerForm
  <2>8. SavingStaysOpen'
    BY <2>1, <2>2, <2>3 DEF ShellInv, SavingStaysOpen, i
  <2>9. \A j \in Forms: j > newTicket.no => made'[j] = 0
    BY <1>1, <2>4, <2>6 DEF ShellInv
  <2>10. newTicket.no \in Forms \ lost /\ ~newTicket.isSaving => made'[newTicket.no] = 0
    BY <2>5, <2>6 DEF ShellInv
  <2>11. \A d, e \in Calls: d # e /\ making'[d].form # 0 => making'[d].form # making'[e].form
    BY <2>1, <2>3 DEF ShellInv
  <2>12. \A d \in Calls: /\ making'[d].form <= newTicket.no
                         /\ making'[d].form = newTicket.no /\ newTicket.no # 0 => newTicket.isSaving
                         /\ making'[d].at # "sent" => making'[d].form # 0
    BY <2>1, <2>2, <2>3, <2>4, <2>5 DEF ShellInv
  <2>13. \A d \in Calls: making'[d].form \in Forms \ lost /\ making'[d].at # "answered" =>
                            made'[making'[d].form] = 0
    BY <2>1, <2>3, <2>6 DEF ShellInv
  <2>14. QED
    BY <2>2, <2>3, <2>6, <2>7, <2>8, <2>9, <2>10, <2>11, <2>12, <2>13 DEF ShellInv, DismissedStaysAway
<1>17. ASSUME NEW c \in Calls, RefuseTicket(c) PROVE ShellInv'
  <2> DEFINE m == [making[c] EXCEPT !.at = "failed"]
  <2>1. m \in MakeRecord /\ m.form = making[c].form /\ m.at = "failed"
    BY <1>1 DEF MakeRecord
  <2>2. /\ making' = [making EXCEPT ![c] = m] /\ UNCHANGED <<newTicket, guide, made, escaped>>
        /\ lost' = IF making[c].at = "answered" THEN lost \cup {making[c].form} ELSE lost
        /\ making[c].form # 0
    BY <1>17 DEF RefuseTicket
  <2> HIDE DEF m
  <2>3. /\ making' \in [Calls -> MakeRecord] /\ making'[c] = m
        /\ \A d \in Calls: d # c => making'[d] = making[d]
    BY <1>14, <2>1, <2>2
  <2>4. SavingStaysOpen'
    BY <2>1, <2>2, <2>3 DEF ShellInv, SavingStaysOpen
  <2>5. OneTicketPerForm'
    BY <2>2 DEF ShellInv, OneTicketPerForm
  <2>6. lost \subseteq lost' /\ (making[c].at = "answered" => making[c].form \in lost')
    BY <2>2
  <2>7. \A d, e \in Calls: d # e /\ making'[d].form # 0 => making'[d].form # making'[e].form
    BY <2>1, <2>3 DEF ShellInv
  <2>8. \A d \in Calls: /\ making'[d].form <= newTicket.no
                        /\ making'[d].form = newTicket.no /\ newTicket.no # 0 => newTicket.isSaving
                        /\ making'[d].at # "sent" => making'[d].form # 0
                        /\ making'[d].form \in Forms \ lost' /\ making'[d].at # "answered" =>
                             made[making'[d].form] = 0
    BY <2>1, <2>2, <2>3, <2>6 DEF ShellInv
  <2>9. QED
    BY <2>2, <2>3, <2>4, <2>5, <2>6, <2>7, <2>8 DEF ShellInv, DismissedStaysAway
\* A call is over; the form it saved is closed or may be submitted again.
<1>18. ASSUME NEW c \in Calls, NEW g \in TicketFormRecord, making' = [making EXCEPT ![c] = NoMake],
              newTicket' = g, UNCHANGED <<made, guide, lost, escaped>>,
              g.no = newTicket.no, g.open => newTicket.open, making[c].form # 0,
              \/ g.isSaving = newTicket.isSaving
              \/ making[c].form = newTicket.no /\ making[c].at = "failed",
              ~g.open \/ g.open = newTicket.open
       PROVE  ShellInv'
  <2>1. /\ making' \in [Calls -> MakeRecord] /\ making'[c] = NoMake
        /\ \A d \in Calls: d # c => making'[d] = making[d] /\ making[d].form # making[c].form
    BY <1>1, <1>14, <1>18 DEF ShellInv
  <2>2. SavingStaysOpen'
    BY <1>1, <1>18, <2>1 DEF ShellInv, SavingStaysOpen
  <2>3. g.no \in Forms \ lost /\ ~g.isSaving => made[g.no] = 0
    BY <1>18 DEF ShellInv
  <2>4. \A d \in Calls: making'[d].form = g.no /\ g.no # 0 => g.isSaving
    BY <1>1, <1>18, <2>1 DEF ShellInv
  <2>5. \A d, e \in Calls: d # e /\ making'[d].form # 0 => making'[d].form # making'[e].form
    BY <1>1, <2>1 DEF ShellInv
  <2>6. \A d \in Calls: /\ making'[d].form <= g.no
                        /\ making'[d].at # "sent" => making'[d].form # 0
                        /\ making'[d].form \in Forms \ lost /\ making'[d].at # "answered" =>
                             made[making'[d].form] = 0
    BY <1>1, <1>18, <2>1 DEF ShellInv
  <2>7. QED
    BY <1>18, <2>1, <2>2, <2>3, <2>4, <2>5, <2>6 DEF ShellInv, OneTicketPerForm, DismissedStaysAway
<1>19. ASSUME NEW c \in Calls, TicketMade(c) \/ TicketFailed(c) PROVE ShellInv'
  <2> DEFINE h == [newTicket EXCEPT !.open = FALSE]
             g == [newTicket EXCEPT !.isSaving = FALSE]
  <2>1. /\ h \in TicketFormRecord /\ h.no = newTicket.no /\ h.isSaving = newTicket.isSaving /\ ~h.open
        /\ g \in TicketFormRecord /\ g.no = newTicket.no /\ g.open = newTicket.open
    BY <1>1 DEF TicketFormRecord
  <2>2. making[c].form # 0
    BY <1>19 DEF TicketMade, TicketFailed, ShellInv
  <2>3. /\ making' = [making EXCEPT ![c] = NoMake] /\ UNCHANGED <<made, guide, lost, escaped>>
        /\ \/ newTicket' = h
           \/ newTicket' = g /\ making[c].form = newTicket.no /\ making[c].at = "failed"
           \/ newTicket' = newTicket
    BY <1>19 DEF TicketMade, TicketFailed
  <2> HIDE DEF h, g
  <2>4. CASE newTicket' = h
    BY <1>18, <2>1, <2>2, <2>3, <2>4
  <2>5. CASE newTicket' = g /\ making[c].form = newTicket.no /\ making[c].at = "failed"
    BY <1>18, <2>1, <2>2, <2>3, <2>5
  <2>6. CASE newTicket' = newTicket
    BY <1>1, <1>18, <2>2, <2>3, <2>6
  <2>7. QED BY <2>3, <2>4, <2>5, <2>6
<1>20. CASE UNCHANGED shellVars
  BY <1>3, <1>20 DEF shellVars, Unmade
<1>21. QED
  BY <1>4, <1>5, <1>6, <1>7, <1>8, <1>9, <1>11, <1>12, <1>13, <1>15, <1>16, <1>17, <1>19, <1>20
     DEF ShellNext

-----------------------------------------------------------------------------
(* The form of the chat: a file the server took goes with one message.      *)

PostRecord == [sending: BOOLEAN, of: Projects, files: SUBSET Files,
               at: {"sent", "answered", "failed"}]

Named(g) == \E p \in Projects: <<g, p>> \in carried

\* A file is in one batch at most, and the server has it from the moment its
\* call says so.
BatchesInv ==
  /\ storedFor \in [Files -> Projects \cup {NoProject}]
  /\ \A c \in Calls:
        /\ upload[c].file \notin upload[c].rest
        /\ \A g \in upload[c].rest: storedFor[g] = NoProject
        /\ upload[c].at = "sent" /\ upload[c].file # NoFile => storedFor[upload[c].file] = NoProject
        /\ upload[c].at = "answered" => storedFor[upload[c].file] # NoProject
        /\ upload[c].at # "sent" => upload[c].file # NoFile
  /\ \A c, d \in Calls: c # d =>
        /\ upload[c].file \notin upload[d].rest /\ upload[c].rest \cap upload[d].rest = {}
        /\ upload[c].file # NoFile => upload[c].file # upload[d].file

\* What waits in the form, goes with the message under way or went with one is
\* stored, in one of these places, and not on its way to the form any more.
PlacesInv ==
  /\ post \in PostRecord /\ carried \subseteq Files \X Projects
  /\ \A g \in Files: g \in form.pending \/ g \in post.files \/ Named(g) =>
        /\ storedFor[g] # NoProject
        /\ \A c \in Calls: upload[c].at = "answered" => upload[c].file # g
  /\ post.sending /\ post.at = "sent" => \A g \in post.files: ~Named(g)
  /\ post.sending /\ post.at # "sent" => \A g \in post.files: g \in gone \/ Named(g)
  /\ ~post.sending => post.files = {}
  /\ FilesGoOnce

\* FilesAreKept, file by file.
KeptInv ==
  \A g \in Files: storedFor[g] # NoProject =>
    \/ g \in form.pending \/ g \in post.files \/ g \in removed \/ g \in gone \/ Named(g)
    \/ \E c \in Calls: upload[c].at = "answered" /\ upload[c].file = g

FilesInv == BatchesInv /\ PlacesInv /\ KeptInv

LEMMA FilesKept == KeptInv => FilesAreKept
BY DEF KeptInv, FilesAreKept, Stored, Coming, Named

LEMMA FilesStart == FormInit \/ FormAside => FilesInv
<1> SUFFICES ASSUME FormInit PROVE FilesInv
  BY DEF FormAside
<1>1. /\ NoUpload.file = NoFile /\ NoUpload.at = "sent" /\ NoUpload.rest = {}
      /\ EmptyForm.pending = {}
      /\ NoPost \in PostRecord /\ ~NoPost.sending /\ NoPost.files = {}
  BY DefaultProjectAssumption DEF NoUpload, EmptyForm, NoPost, PostRecord
<1>2. /\ \A c \in Calls: upload[c] = NoUpload
      /\ form = EmptyForm /\ post = NoPost /\ carried = {}
      /\ storedFor \in [Files -> Projects \cup {NoProject}]
      /\ \A g \in Files: storedFor[g] = NoProject
  BY DEF FormInit
<1>3. BatchesInv
  BY <1>1, <1>2 DEF BatchesInv
<1>4. PlacesInv
  BY <1>1, <1>2 DEF PlacesInv, Named, FilesGoOnce
<1>5. KeptInv
  BY <1>2 DEF KeptInv
<1>6. QED BY <1>3, <1>4, <1>5 DEF FilesInv

LEMMA FilesStep == UploadInv /\ FilesInv /\ [FormNext]_formVars => FilesInv'
<1> SUFFICES ASSUME UploadInv, FilesInv, [FormNext]_formVars PROVE FilesInv'
  OBVIOUS
<1>1. /\ form \in FormRecord /\ post \in PostRecord /\ onProject \in Projects
      /\ storedFor \in [Files -> Projects \cup {NoProject}]
      /\ upload \in [Calls -> UploadRecord]
      /\ form.pending \subseteq Files /\ post.files \subseteq Files /\ post.of \in Projects
      /\ \A c \in Calls: /\ upload[c] \in UploadRecord /\ upload[c].rest \subseteq Files
                         /\ upload[c].file # NoFile => upload[c].file \in Files
                         /\ upload[c].of \in Projects
      /\ NoFile \notin Files /\ NoProject \notin Projects
  <2>1. /\ form \in FormRecord /\ post \in PostRecord /\ onProject \in Projects
        /\ storedFor \in [Files -> Projects \cup {NoProject}]
        /\ upload \in [Calls -> UploadRecord]
    BY DEF UploadInv, FilesInv, BatchesInv, PlacesInv
  <2>2. form.pending \subseteq Files /\ post.files \subseteq Files /\ post.of \in Projects
    BY <2>1 DEF FormRecord, PostRecord
  <2>3. \A c \in Calls: /\ upload[c] \in UploadRecord /\ upload[c].rest \subseteq Files
                        /\ upload[c].file # NoFile => upload[c].file \in Files
                        /\ upload[c].of \in Projects
    BY <2>1 DEF UploadRecord
  <2>4. QED BY <2>1, <2>2, <2>3, NoFileAssumption
<1> USE DEF FilesInv
\* Nothing is uploaded.
<1>2. ASSUME UNCHANGED <<upload, storedFor>>, PlacesInv', KeptInv' PROVE FilesInv'
  BY <1>2 DEF BatchesInv
<1>3. ASSUME UNCHANGED <<storedFor, carried, form, upload, post, removed, gone>> PROVE FilesInv'
  BY <1>3 DEF BatchesInv, PlacesInv, KeptInv, FilesGoOnce, Named
<1>4. ASSUME Fold \/ BackToBoard PROVE FilesInv'
  BY <1>3, <1>4 DEF Fold, BackToBoard
<1>5. ASSUME NEW p \in Projects, ShowOther(p) PROVE FilesInv'
  BY <1>3, <1>5 DEF ShowOther
<1>6. CASE CreateMessage
  <2>1. PICK at \in {"answered", "failed"}: post' = [post EXCEPT !.at = at]
    BY <1>6 DEF CreateMessage
  <2>2. /\ post' \in PostRecord /\ post'.sending = post.sending /\ post'.at = at
        /\ post'.files = post.files
    BY <1>1, <2>1 DEF PostRecord
  <2>3. /\ UNCHANGED <<storedFor, form, upload, removed, gone>>
        /\ carried' = carried \cup {<<g, post.of>>: g \in post.files}
        /\ post.sending /\ post.at = "sent"
    BY <1>6 DEF CreateMessage
  <2>4. \A g \in Files, p \in Projects:
          <<g, p>> \in carried' <=> <<g, p>> \in carried \/ (p = post.of /\ g \in post.files)
    BY <2>3
  <2>5. \A g \in Files: Named(g)' <=> Named(g) \/ g \in post.files
    BY <1>1, <2>4 DEF Named
  <2>6. carried' \subseteq Files \X Projects
    BY <1>1, <2>3 DEF PlacesInv
  <2>7. FilesGoOnce'
    BY <1>1, <2>2, <2>3, <2>4 DEF PlacesInv, FilesGoOnce, Named
  <2>8. PlacesInv'
    BY <1>1, <2>2, <2>3, <2>5, <2>6, <2>7 DEF PlacesInv
  <2>9. KeptInv'
    BY <2>2, <2>3, <2>5 DEF KeptInv
  <2>10. QED BY <1>2, <2>3, <2>8, <2>9
<1>7. CASE RefuseMessage
  <2>1. /\ post' = [post EXCEPT !.at = "failed"] /\ gone' = gone \cup post.files
        /\ UNCHANGED <<storedFor, carried, form, upload, removed>>
    BY <1>7 DEF RefuseMessage
  <2>2. /\ post' \in PostRecord /\ post'.sending = post.sending /\ post'.at = "failed"
        /\ post'.files = post.files
    BY <1>1, <2>1 DEF PostRecord
  <2>3. PlacesInv' /\ KeptInv'
    BY <1>1, <2>1, <2>2 DEF PlacesInv, FilesGoOnce, KeptInv, Named
  <2>4. QED BY <1>2, <2>1, <2>3
<1>8. CASE MessageOver
  <2>1. /\ post' = NoPost /\ UNCHANGED <<storedFor, carried, form, upload, removed, gone>>
        /\ \A g \in post.files: g \in gone \/ Named(g)
    BY <1>8 DEF MessageOver, PlacesInv
  <2>2. NoPost \in PostRecord /\ ~NoPost.sending /\ NoPost.files = {}
    BY DefaultProjectAssumption DEF NoPost, PostRecord
  <2>3. PlacesInv'
    BY <2>1, <2>2 DEF PlacesInv, FilesGoOnce, Named
  <2>4. KeptInv'
    BY <2>1, <2>2 DEF KeptInv, Named
  <2>5. QED BY <1>2, <2>1, <2>3, <2>4
<1>9. CASE Type
  <2>1. form'.pending = form.pending /\ UNCHANGED <<storedFor, carried, upload, post, removed, gone>>
    BY <1>1, <1>9 DEF Type, OnlyForm, FormRecord
  <2>2. PlacesInv' /\ KeptInv'
    BY <2>1 DEF PlacesInv, FilesGoOnce, KeptInv, Named
  <2>3. QED BY <1>2, <2>1, <2>2
<1>10. ASSUME NEW h \in Files, RemoveFile(h) PROVE FilesInv'
  <2>1. /\ form'.pending = form.pending \ {h} /\ removed' = removed \cup {h}
        /\ UNCHANGED <<storedFor, carried, upload, post, gone>>
    BY <1>1, <1>10 DEF RemoveFile, OnlyForm, FormRecord
  <2>2. PlacesInv'
    BY <2>1 DEF PlacesInv, FilesGoOnce, Named
  <2>3. KeptInv'
    BY <2>1 DEF KeptInv, Named
  <2>4. QED BY <1>2, <2>1, <2>2, <2>3
<1>11. CASE Submit
  <2> DEFINE q == [NoPost EXCEPT !.sending = TRUE, !.of = onProject, !.files = form.pending]
  <2>1. /\ q \in PostRecord /\ q.sending /\ q.files = form.pending /\ q.at = "sent"
        /\ EmptyForm.pending = {}
    BY <1>1 DEF NoPost, PostRecord, EmptyForm
  <2>2. /\ post' = q /\ form' = EmptyForm /\ ~post.sending
        /\ UNCHANGED <<storedFor, carried, upload, removed, gone>>
    BY <1>11 DEF Submit
  <2> HIDE DEF q
  <2>3. post.files = {}
    BY <2>2 DEF PlacesInv
  <2>4. PlacesInv'
    BY <1>1, <2>1, <2>2, <2>3 DEF PlacesInv, FilesGoOnce, Named
  <2>5. KeptInv'
    BY <2>1, <2>2, <2>3 DEF KeptInv, Named
  <2>6. QED BY <1>2, <2>2, <2>4, <2>5
<1>12. CASE LeaveBoard
  <2>1. \A c \in Calls: /\ upload'[c].file = upload[c].file /\ upload'[c].rest = upload[c].rest
                        /\ upload'[c].at = upload[c].at
    BY <1>1, <1>12 DEF LeaveBoard, UploadRecord
  <2>2. /\ form'.pending = {} /\ gone' = gone \cup form.pending
        /\ UNCHANGED <<storedFor, carried, post, removed>>
    BY <1>12 DEF LeaveBoard, EmptyForm
  <2>3. BatchesInv'
    BY <2>1, <2>2 DEF BatchesInv
  <2>4. PlacesInv'
    <3>1. FilesGoOnce'
      BY <2>2 DEF PlacesInv, FilesGoOnce
    <3>2. \A g \in Files: Named(g)' <=> Named(g)
      BY <2>2 DEF Named
    <3>3. \A g \in Files: g \in form'.pending \/ g \in post'.files \/ Named(g)' =>
            /\ storedFor'[g] # NoProject
            /\ \A d \in Calls: upload'[d].at = "answered" => upload'[d].file # g
      BY <2>1, <2>2, <3>2 DEF PlacesInv
    <3>4. /\ post' \in PostRecord /\ carried' \subseteq Files \X Projects
          /\ post'.sending /\ post'.at = "sent" => \A g \in post'.files: ~Named(g)'
          /\ post'.sending /\ post'.at # "sent" => \A g \in post'.files: g \in gone' \/ Named(g)'
          /\ ~post'.sending => post'.files = {}
      BY <1>1, <2>2, <3>2 DEF PlacesInv
    <3>5. QED BY <3>1, <3>3, <3>4 DEF PlacesInv
  <2>5. KeptInv'
    BY <2>1, <2>2 DEF KeptInv, Named
  <2>6. QED BY <2>3, <2>4, <2>5
\* One call changes, to a part of its batch.
<1>13. ASSUME NEW c \in Calls, NEW u \in UploadRecord, upload' = [upload EXCEPT ![c] = u]
       PROVE  /\ upload' \in [Calls -> UploadRecord] /\ upload'[c] = u
              /\ \A d \in Calls: d # c => upload'[d] = upload[d]
  BY <1>1, <1>13
<1>14. ASSUME NEW c \in Calls, NEW u \in UploadRecord, upload' = [upload EXCEPT ![c] = u],
              u.rest \subseteq upload[c].rest, u.file \notin u.rest,
              u.file = NoFile \/ u.file = upload[c].file \/ u.file \in upload[c].rest,
              u.at = "sent" => u.file = NoFile \/ u.file \in upload[c].rest,
              u.at = "answered" => storedFor'[u.file] # NoProject,
              u.at # "sent" => u.file # NoFile,
              storedFor' \in [Files -> Projects \cup {NoProject}],
              \A g \in Files: g # upload[c].file => storedFor'[g] = storedFor[g]
       PROVE  BatchesInv'
  <2>1. /\ upload'[c] = u /\ \A d \in Calls: d # c => upload'[d] = upload[d]
    BY <1>13, <1>14
  <2>2. u.rest \subseteq Files
    BY <1>1, <1>14
  <2>3. \A d \in Calls:
          /\ upload'[d].file \notin upload'[d].rest
          /\ \A g \in upload'[d].rest: storedFor'[g] = NoProject
          /\ upload'[d].at # "sent" => upload'[d].file # NoFile
    BY <1>1, <1>14, <2>1 DEF BatchesInv
  <2>4. \A d \in Calls:
          /\ upload'[d].at = "sent" /\ upload'[d].file # NoFile => storedFor'[upload'[d].file] = NoProject
          /\ upload'[d].at = "answered" => storedFor'[upload'[d].file] # NoProject
    BY <1>1, <1>14, <2>1 DEF BatchesInv
  <2>5. \A d, e \in Calls: d # e =>
          /\ upload'[d].file \notin upload'[e].rest /\ upload'[d].rest \cap upload'[e].rest = {}
          /\ upload'[d].file # NoFile => upload'[d].file # upload'[e].file
    BY <1>1, <1>14, <2>1 DEF BatchesInv
  <2>6. QED BY <1>14, <2>3, <2>4, <2>5 DEF BatchesInv
\* Nothing new but an answer for a file the server did not have.
<1>14a. ASSUME UNCHANGED <<carried, post>>, form'.pending = form.pending, gone \subseteq gone',
              \A g \in Files: storedFor[g] # NoProject => storedFor'[g] # NoProject,
              \A c \in Calls: upload'[c].at = "answered" =>
                  \/ upload[c].at = "answered" /\ upload'[c].file = upload[c].file
                  \/ storedFor[upload'[c].file] = NoProject
       PROVE  PlacesInv'
  <2>1. FilesGoOnce'
    BY <1>14a DEF PlacesInv, FilesGoOnce
  <2>2. \A g \in Files: Named(g)' <=> Named(g)
    BY <1>14a DEF Named
  <2>3. \A g \in Files: g \in form'.pending \/ g \in post'.files \/ Named(g)' =>
          /\ storedFor'[g] # NoProject
          /\ \A c \in Calls: upload'[c].at = "answered" => upload'[c].file # g
    BY <1>14a, <2>2 DEF PlacesInv
  <2>4. /\ post' \in PostRecord /\ carried' \subseteq Files \X Projects
        /\ post'.sending /\ post'.at = "sent" => \A g \in post'.files: ~Named(g)'
        /\ ~post'.sending => post'.files = {}
    BY <1>1, <1>14a, <2>2 DEF PlacesInv
  <2>5. post'.sending /\ post'.at # "sent" => \A g \in post'.files: g \in gone' \/ Named(g)'
    BY <1>1, <1>14a, <2>2 DEF PlacesInv
  <2>6. QED BY <2>1, <2>3, <2>4, <2>5 DEF PlacesInv
<1>15. ASSUME NEW c \in Calls, StoreFile(c) PROVE FilesInv'
  <2> DEFINE u == [upload[c] EXCEPT !.at = "answered"]
             g == upload[c].file
  <2>1. /\ u \in UploadRecord /\ u.at = "answered" /\ u.file = g /\ u.rest = upload[c].rest
    BY <1>1 DEF UploadRecord
  <2>2. /\ upload' = [upload EXCEPT ![c] = u] /\ storedFor' = [storedFor EXCEPT ![g] = upload[c].of]
        /\ UNCHANGED <<carried, form, post, removed, gone>>
        /\ g \in Files /\ upload[c].at = "sent"
    BY <1>1, <1>15 DEF StoreFile
  <2>3. storedFor[g] = NoProject /\ g \notin upload[c].rest
    BY <1>1, <2>2 DEF BatchesInv
  <2> HIDE DEF u
  <2>4. /\ storedFor' \in [Files -> Projects \cup {NoProject}] /\ storedFor'[g] # NoProject
        /\ \A h \in Files: h # g => storedFor'[h] = storedFor[h]
    BY <1>1, <2>2
  <2>5. BatchesInv'
    BY ZenonT(40), <1>1, <1>14, <2>1, <2>2, <2>3, <2>4
  <2>6. upload'[c] = u /\ \A d \in Calls: d # c => upload'[d] = upload[d]
    BY <1>13, <2>1, <2>2
  <2> HIDE DEF g
  <2>7. PlacesInv'
    BY <1>14a, <2>1, <2>2, <2>3, <2>4, <2>6
  <2>8. KeptInv'
    BY <2>1, <2>2, <2>4, <2>6 DEF KeptInv, Named
  <2>9. QED BY <2>5, <2>7, <2>8
<1>16. ASSUME NEW c \in Calls, RefuseFile(c) PROVE FilesInv'
  <2> DEFINE u == [upload[c] EXCEPT !.at = "failed"]
  <2>1. /\ u \in UploadRecord /\ u.at = "failed" /\ u.file = upload[c].file
        /\ u.rest = upload[c].rest
    BY <1>1 DEF UploadRecord
  <2>2. /\ upload' = [upload EXCEPT ![c] = u] /\ upload[c].file # NoFile
        /\ UNCHANGED <<storedFor, carried, form, post, removed>>
        /\ gone' = IF upload[c].at = "answered" THEN gone \cup {upload[c].file} ELSE gone
    BY <1>16 DEF RefuseFile
  <2> HIDE DEF u
  <2>3. upload[c].file \notin upload[c].rest
    BY DEF BatchesInv
  <2>4. BatchesInv'
    BY <1>1, <1>14, <2>1, <2>2, <2>3
  <2>5. upload'[c] = u /\ \A d \in Calls: d # c => upload'[d] = upload[d]
    BY <1>13, <2>1, <2>2
  <2>6. PlacesInv'
    BY <1>14a, <1>1, <2>1, <2>2, <2>5
  <2>7. KeptInv'
    BY <2>1, <2>2, <2>5 DEF KeptInv, Named
  <2>8. QED BY <2>4, <2>6, <2>7
<1>17. ASSUME NEW c \in Calls, FileStored(c) PROVE FilesInv'
  <2> DEFINE g == upload[c].file
  <2>1. PICK u \in After(upload[c]): upload' = [upload EXCEPT ![c] = u]
    BY <1>17 DEF FileStored
  <2>2. /\ g \in Files /\ upload[c].at = "answered" /\ upload[c].seen \in BOOLEAN
        /\ UNCHANGED <<storedFor, carried, post, removed>>
    BY <1>1, <1>17 DEF FileStored, UploadRecord
  <2>3. /\ u \in UploadRecord /\ u.at = "sent" /\ u.rest \subseteq upload[c].rest
        /\ u.file \notin u.rest /\ (u.file = NoFile \/ u.file \in upload[c].rest)
    <3>1. CASE upload[c].rest = {}
      <4>1. u = NoUpload /\ NoUpload.rest = {}
        BY <2>1, <3>1 DEF After, NoUpload
      <4>2. QED BY <4>1, UploadValues
    <3>2. CASE upload[c].rest # {}
      <4>1. PICK h \in upload[c].rest:
              u = [upload[c] EXCEPT !.file = h, !.rest = upload[c].rest \ {h}, !.at = "sent"]
        BY <2>1, <3>2 DEF After
      <4>2. h \in Files /\ upload[c] \in UploadRecord
        BY <1>1
      <4>3. QED BY <4>1, <4>2 DEF UploadRecord
    <3>3. QED BY <3>1, <3>2
  <2>4. upload'[c] = u /\ \A d \in Calls: d # c => upload'[d] = upload[d]
    BY <1>13, <2>1, <2>3
  <2>5. BatchesInv'
    BY <1>1, <1>14, <2>1, <2>2, <2>3
  <2>6. \/ form'.pending = form.pending \cup {g} /\ gone' = gone
        \/ form'.pending = form.pending /\ gone' = gone \cup {g}
    BY <1>1, <1>17 DEF FileStored, FormRecord
  <2>7. /\ storedFor[g] # NoProject /\ g \notin post.files /\ ~Named(g)
        /\ \A d \in Calls: d # c => upload[d].file # g
    BY <1>1, <2>2 DEF BatchesInv, PlacesInv
  <2> HIDE DEF g
  <2>8. form'.pending \subseteq form.pending \cup {g}
    BY <2>6
  <2>9. FilesGoOnce'
    <3>1. FilesGoOnce /\ \A p \in Projects: <<g, p>> \notin carried
      BY <2>7 DEF PlacesInv, Named
    <3>2. QED BY <2>2, <2>7, <2>8, <3>1 DEF FilesGoOnce
  <2>10. gone \subseteq gone'
    BY <2>6
  <2>11. PlacesInv'
    <3>1. \A h \in Files: Named(h)' <=> Named(h)
      BY <2>2 DEF Named
    <3>2. \A h \in Files: h \in form'.pending \/ h \in post'.files \/ Named(h)' =>
            /\ storedFor'[h] # NoProject
            /\ \A d \in Calls: upload'[d].at = "answered" => upload'[d].file # h
      BY <2>2, <2>3, <2>4, <2>7, <2>8, <3>1 DEF PlacesInv
    <3>3. /\ post' \in PostRecord /\ carried' \subseteq Files \X Projects
          /\ post'.sending /\ post'.at = "sent" => \A h \in post'.files: ~Named(h)'
          /\ post'.sending /\ post'.at # "sent" => \A h \in post'.files: h \in gone' \/ Named(h)'
          /\ ~post'.sending => post'.files = {}
      BY <1>1, <2>2, <2>10, <3>1 DEF PlacesInv
    <3>4. QED BY <2>9, <3>2, <3>3 DEF PlacesInv
  <2>12. KeptInv'
    <3>1. g \in form'.pending \/ g \in gone'
      BY <2>6
    <3>2. form.pending \subseteq form'.pending
      BY <2>6
    <3>3. ASSUME NEW h \in Files, storedFor[h] # NoProject, h # g
          PROVE  \/ h \in form'.pending \/ h \in post.files \/ h \in removed \/ h \in gone'
                 \/ Named(h) \/ \E d \in Calls: upload'[d].at = "answered" /\ upload'[d].file = h
      BY <2>4, <2>10, <3>2, <3>3 DEF KeptInv, g
    <3>4. QED BY <2>2, <3>1, <3>3 DEF KeptInv, Named
  <2>13. QED BY <2>5, <2>11, <2>12
<1>18. ASSUME NEW c \in Calls, UploadFailed(c) PROVE FilesInv'
  <2>1. /\ upload' = [upload EXCEPT ![c] = NoUpload] /\ upload[c].at = "failed"
        /\ UNCHANGED <<storedFor, carried, post, removed, gone>>
    BY <1>18 DEF UploadFailed
  <2>2. form'.pending = form.pending
    BY <1>1, <1>18 DEF UploadFailed, FormRecord
  <2>3. NoUpload.rest = {}
    BY DEF NoUpload
  <2>4. upload'[c] = NoUpload /\ \A d \in Calls: d # c => upload'[d] = upload[d]
    BY <1>13, <2>1, UploadValues
  <2>5. BatchesInv'
    BY <1>1, <1>14, <2>1, <2>3, UploadValues
  <2>6. PlacesInv'
    BY <1>14a, <2>1, <2>2, <2>4, UploadValues
  <2>7. KeptInv'
    BY <2>1, <2>2, <2>4, UploadValues DEF KeptInv, Named
  <2>8. QED BY <2>5, <2>6, <2>7
<1>19. ASSUME NEW c \in Calls, NEW fs \in SUBSET Files, Attach(c, fs) PROVE FilesInv'
  <2>1. PICK g \in fs: upload' = [upload EXCEPT ![c] =
          [NoUpload EXCEPT !.file = g, !.rest = fs \ {g}, !.of = onProject]]
    BY <1>19 DEF Attach
  <2> DEFINE u == [NoUpload EXCEPT !.file = g, !.rest = fs \ {g}, !.of = onProject]
  <2>2. u \in UploadRecord /\ u.file = g /\ u.rest = fs \ {g} /\ u.at = "sent"
    BY <1>1, UploadValues DEF UploadRecord
  <2>3. upload' = [upload EXCEPT ![c] = u]
    BY <2>1
  <2> HIDE DEF u
  <2>4. upload'[c] = u /\ \A d \in Calls: d # c => upload'[d] = upload[d]
    BY <1>13, <2>2, <2>3
  <2>5. /\ UNCHANGED <<storedFor, carried, post, removed, gone>> /\ upload[c] = NoUpload
        /\ \A h \in fs: storedFor[h] = NoProject
        /\ \A d \in Calls: fs \cap (upload[d].rest \cup {upload[d].file}) = {}
    BY <1>19 DEF Attach
  <2>6. form'.pending = form.pending
    BY <1>1, <1>19 DEF Attach, FormRecord
  <2>7. BatchesInv'
    BY <1>1, <2>2, <2>4, <2>5 DEF BatchesInv
  <2>8. PlacesInv'
    BY <1>14a, <2>2, <2>4, <2>5, <2>6
  <2>9. KeptInv'
    BY <2>2, <2>4, <2>5, <2>6, UploadValues DEF KeptInv, Named
  <2>10. QED BY <2>7, <2>8, <2>9
<1>20. CASE UNCHANGED formVars
  BY <1>3, <1>20 DEF formVars
<1>21. QED
  BY <1>4, <1>5, <1>6, <1>7, <1>8, <1>9, <1>10, <1>11, <1>12, <1>15, <1>16, <1>17, <1>18, <1>19, <1>20
     DEF FormNext

-----------------------------------------------------------------------------
(* The composer: a requirement makes its tickets once.                      *)

Preparing(c) == pending[c].kind = "decompose" /\ pending[c].server \in {"working", "done"}
Approving(c) == pending[c].kind = "confirm" /\ pending[c].server \in {"sent", "working"}
Claims(c) == Preparing(c) \/ Approving(c)

Reviewed == composer.open /\ composer.step = "review"
OfReview(c) ==
  Reviewed /\ pending[c].project = composer.origin /\ pending[c].req = composer.req

ListenedTo(c) == pending[c].awaited /\ pending[c].mine

\* The composer waits for one call at most, and shows what it waits for.
WaitsInv ==
  /\ \A c \in Calls: ListenedTo(c) =>
       /\ composer.open
       /\ \/ /\ pending[c].kind = "decompose" /\ composer.step = "decomposing"
             /\ ~composer.drifted => pending[c].project = composer.project
          \/ pending[c].kind = "confirm" /\ composer.step = "review" /\ composer.confirming
  /\ \A c, d \in Calls: ListenedTo(c) /\ ListenedTo(d) => c = d
  /\ ApprovedIsShown

\* A requirement is claimed by one call at most: the one that prepares it, or the
\* one that approves it; while it is reviewed, only by the approval that the
\* composer waits for.
ClaimsInv ==
  /\ \A c \in Calls: Claims(c) => StatusOf(c) # "absent"
  /\ \A c, d \in Calls: c # d /\ Claims(c) /\ Claims(d) => ~SameRow(c, d)
  /\ Reviewed => Status(composer.origin, composer.req) # "absent"
  /\ \A c \in Calls: OfReview(c) /\ Claims(c) => Approving(c) /\ ListenedTo(c)

MadeInv ==
  /\ \A p \in Projects, i \in ReqIds:
       row[p][i].made = 0 \/ (row[p][i].made = 1 /\ row[p][i].status = "confirmed")
  /\ \A c \in Calls: Working(c, "confirm") => row[pending[c].project][pending[c].req].made = 0

OnceMade == broken = 0 => ClaimsInv /\ MadeInv

CountsInv == WaitsInv /\ OnceMade

LEMMA CountsStart == ComposerInit \/ ComposerAside => CountsInv
<1> SUFFICES ASSUME ComposerInit PROVE CountsInv
  BY DEF ComposerAside
<1>1. \A c \in Calls: pending[c].kind = "none" /\ ~pending[c].awaited
  BY DEF ComposerInit, NoPending
<1>2. ~composer.open
  BY ComposerRecords DEF ComposerInit, NoComposer, NewComposer
<1>3. \A p \in Projects, i \in ReqIds: row[p][i].made = 0
  BY DEF ComposerInit
<1>4. WaitsInv
  BY <1>1, <1>2 DEF WaitsInv, ListenedTo, ApprovedIsShown
<1>5. ClaimsInv /\ MadeInv
  BY <1>1, <1>2, <1>3
     DEF ClaimsInv, MadeInv, Claims, Preparing, Approving, Reviewed, OfReview, Working
<1>6. QED BY <1>4, <1>5 DEF CountsInv, OnceMade

LEMMA MovesOn ==
  ASSUME ComposerTypeOK, NEW c \in Calls, NEW state, ServerIs(c, state)
  PROVE  /\ \A d \in Calls \ {c}: pending'[d] = pending[d]
         /\ \/ pending'[c] = NoPending
            \/ /\ pending'[c].kind = pending[c].kind /\ pending'[c].server = state
               /\ pending'[c].project = pending[c].project /\ pending'[c].req = pending[c].req
               /\ pending'[c].awaited = pending[c].awaited /\ pending'[c].mine = pending[c].mine
<1> DEFINE q == IF state \in {"done", "refused"} /\ ~pending[c].awaited THEN NoPending
                ELSE [pending[c] EXCEPT !.server = state]
<1>1. pending[c] \in PendingRecord
  BY DEF ComposerTypeOK
<1>2. \/ q = NoPending
      \/ /\ q.kind = pending[c].kind /\ q.server = state
         /\ q.project = pending[c].project /\ q.req = pending[c].req
         /\ q.awaited = pending[c].awaited /\ q.mine = pending[c].mine
  BY <1>1 DEF PendingRecord
<1>3. pending' = [pending EXCEPT ![c] = q]
  BY DEF ServerIs
<1> HIDE DEF q
<1>4. QED BY <1>2, <1>3 DEF ComposerTypeOK

LEMMA WaitsOver ==
  ASSUME ComposerTypeOK, NEW c \in Calls, PendingOver(c)
  PROVE  /\ \A d \in Calls \ {c}: pending'[d] = pending[d]
         /\ ~pending'[c].awaited
         /\ \/ pending'[c] = NoPending
            \/ /\ pending'[c].kind = pending[c].kind /\ pending'[c].server = pending[c].server
               /\ pending'[c].project = pending[c].project /\ pending'[c].req = pending[c].req
               /\ pending[c].server \in {"sent", "working"}
<1> DEFINE q == IF pending[c].server \in {"done", "refused"} THEN NoPending
                ELSE [pending[c] EXCEPT !.awaited = FALSE]
<1>1. pending[c] \in PendingRecord
  BY DEF ComposerTypeOK
<1>2. ~NoPending.awaited
  BY DEF NoPending
<1>3. /\ ~q.awaited
      /\ \/ q = NoPending
         \/ /\ q.kind = pending[c].kind /\ q.server = pending[c].server
            /\ q.project = pending[c].project /\ q.req = pending[c].req
            /\ pending[c].server \in {"sent", "working"}
  BY <1>1, <1>2 DEF PendingRecord
<1>4. pending' = [pending EXCEPT ![c] = q]
  BY DEF PendingOver
<1> HIDE DEF q
<1>5. QED BY <1>3, <1>4 DEF ComposerTypeOK

LEMMA Requested ==
  ASSUME ComposerTypeOK, NEW c \in Calls, NEW kind, NEW p, NEW i, NEW awaited,
         Request(c, kind, p, i, awaited)
  PROVE  /\ \A d \in Calls \ {c}: pending'[d] = pending[d]
         /\ pending'[c].kind = kind /\ pending'[c].project = p /\ pending'[c].req = i
         /\ pending'[c].server = "sent" /\ pending'[c].awaited = awaited
         /\ pending'[c].mine = awaited
<1> DEFINE q == [kind |-> kind, project |-> p, req |-> i, server |-> "sent",
                 awaited |-> awaited, mine |-> awaited]
<1>1. /\ q.kind = kind /\ q.project = p /\ q.req = i /\ q.server = "sent"
      /\ q.awaited = awaited /\ q.mine = awaited
      /\ pending' = [pending EXCEPT ![c] = q]
  BY DEF Request
<1> HIDE DEF q
<1>2. QED BY <1>1 DEF ComposerTypeOK

\* No call comes to be listened to, and the composer shows the same.
LEMMA WaitsKept ==
  ASSUME WaitsInv, UNCHANGED composer,
         \A c \in Calls: ListenedTo(c)' =>
           /\ ListenedTo(c) /\ pending'[c].kind = pending[c].kind
           /\ pending'[c].project = pending[c].project
  PROVE  WaitsInv'
BY DEF WaitsInv, ApprovedIsShown

\* No call comes to claim a requirement, and no other one comes to be reviewed.
LEMMA ClaimsKept ==
  ASSUME ClaimsInv,
         \A p \in Projects, i \in ReqIds: Status(p, i) # "absent" => Status(p, i)' # "absent",
         composer.origin \in Projects, Reviewed => composer.req \in ReqIds,
         \A c \in Calls: Claims(c) => pending[c].project \in Projects /\ pending[c].req \in ReqIds,
         \A c \in Calls: Claims(c)' =>
           /\ Claims(c) /\ (Preparing(c)' => Preparing(c))
           /\ pending'[c].project = pending[c].project /\ pending'[c].req = pending[c].req,
         Reviewed' => Reviewed /\ composer'.origin = composer.origin /\ composer'.req = composer.req,
         \A c \in Calls: Approving(c)' /\ OfReview(c)' /\ ListenedTo(c) => ListenedTo(c)'
  PROVE  ClaimsInv'
<1>1. \A c \in Calls: Claims(c)' => StatusOf(c)' # "absent"
  BY DEF ClaimsInv, StatusOf, Status
<1>2. \A c, d \in Calls: c # d /\ Claims(c)' /\ Claims(d)' => ~SameRow(c, d)'
  BY DEF ClaimsInv, SameRow
<1>3. Reviewed' => Status(composer.origin, composer.req)' # "absent"
  BY DEF ClaimsInv, Status
<1>4. \A c \in Calls: OfReview(c)' /\ Claims(c)' => Approving(c)' /\ ListenedTo(c)'
  <2> TAKE c \in Calls
  <2> HAVE OfReview(c)' /\ Claims(c)'
  <2>1. OfReview(c) /\ Claims(c)
    BY DEF OfReview
  <2>2. Approving(c) /\ ListenedTo(c)
    BY <2>1 DEF ClaimsInv
  <2>3. Approving(c)'
    BY <2>2 DEF Claims, Preparing, Approving
  <2>4. QED BY <2>2, <2>3
<1>5. QED BY <1>1, <1>2, <1>3, <1>4 DEF ClaimsInv

\* What the types say of the composer and of the calls that claim.
LEMMA CountTypes ==
  ASSUME ComposerInv
  PROVE  /\ ComposerTypeOK /\ composer \in ComposerRecord /\ composer.origin \in Projects
         /\ composer.project \in Projects
         /\ Reviewed => composer.req \in ReqIds
         /\ \A c \in Calls: /\ pending[c] \in PendingRecord /\ pending[c].project \in Projects
                            /\ Claims(c) => pending[c].req \in ReqIds
                            /\ pending[c].kind = "discard" => pending[c].req \in ReqIds
         /\ \A p \in Projects, i \in ReqIds: row[p][i] \in ReqRow
         /\ broken \in Nat
         /\ NoPending.kind = "none" /\ ~NoPending.awaited /\ ~NoComposer.open
<1>1. ComposerTypeOK /\ NumbersAreReal
  BY DEF ComposerInv, ComposerBase
<1>2. /\ composer \in ComposerRecord /\ composer.origin \in Projects
      /\ composer.project \in Projects
  BY <1>1 DEF ComposerTypeOK, ComposerRecord
<1>3. Reviewed => composer.req \in ReqIds
  BY <1>1 DEF NumbersAreReal, Reviewed
<1>4. \A c \in Calls: pending[c] \in PendingRecord /\ pending[c].project \in Projects
  BY <1>1 DEF ComposerTypeOK, PendingRecord
<1>5. \A c \in Calls: /\ Claims(c) => pending[c].req \in ReqIds
                      /\ pending[c].kind = "discard" => pending[c].req \in ReqIds
  BY <1>1 DEF NumbersAreReal, Numbered, Claims, Preparing, Approving
<1>6. \A p \in Projects, i \in ReqIds: row[p][i] \in ReqRow
  BY <1>1 DEF ComposerTypeOK, ReqRow
<1>7. broken \in Nat
  BY <1>1, ComposerAssumption DEF ComposerTypeOK
<1>8. NoPending.kind = "none" /\ ~NoPending.awaited /\ ~NoComposer.open
  BY DEF NoPending, NoComposer, NewComposer
<1>9. QED BY <1>1, <1>2, <1>3, <1>4, <1>5, <1>6, <1>7, <1>8

\* A preview is begun on a row that nobody claims.
LEMMA BeginCounts ==
  ASSUME ComposerInv, CountsInv, NEW c \in Calls, NEW i \in ReqIds, BeginDecompose(c, i)
  PROVE  CountsInv'
<1> USE CountTypes
<1> DEFINE p == pending[c].project
<1>1. /\ pending[c].kind = "decompose" /\ pending[c].server = "sent" /\ row[p][i].status = "absent"
      /\ UNCHANGED <<chosen, composer, broken>>
  BY DEF BeginDecompose, Status
<1>2. /\ pending'[c].kind = "decompose" /\ pending'[c].server = "working"
      /\ pending'[c].project = p /\ pending'[c].req = i
      /\ pending'[c].awaited = pending[c].awaited /\ pending'[c].mine = pending[c].mine
      /\ \A d \in Calls \ {c}: pending'[d] = pending[d]
  <2>1. pending' = [pending EXCEPT ![c].server = "working", ![c].req = i]
    BY DEF BeginDecompose
  <2>2. QED BY <1>1, <2>1 DEF ComposerTypeOK, PendingRecord
<1>3. /\ row'[p][i].status = "decomposing" /\ row'[p][i].made = row[p][i].made
      /\ \A o \in Projects, j \in ReqIds: (o # p \/ j # i) => row'[o][j] = row[o][j]
  <2>1. Marked(p, i, "decomposing") /\ "decomposing" \in Statuses
    BY DEF BeginDecompose, Marked, Statuses
  <2>2. QED BY <2>1, StatusWritten
<1>4. WaitsInv'
  <2>1. \A d \in Calls: ListenedTo(d)' =>
          /\ ListenedTo(d) /\ pending'[d].kind = pending[d].kind
          /\ pending'[d].project = pending[d].project
    BY <1>1, <1>2 DEF ListenedTo
  <2>2. QED BY <1>1, <2>1, WaitsKept DEF CountsInv
<1>5. ASSUME broken' = 0 PROVE ClaimsInv' /\ MadeInv'
  <2>1. ClaimsInv /\ MadeInv
    BY <1>1, <1>5 DEF CountsInv, OnceMade
  <2>2. \A d \in Calls \ {c}: /\ Claims(d)' <=> Claims(d)
                              /\ Approving(d)' <=> Approving(d)
                              /\ ListenedTo(d)' <=> ListenedTo(d)
    BY <1>2 DEF Claims, Preparing, Approving, ListenedTo
  <2>3. Claims(c)' /\ ~Claims(c)
    BY <1>1, <1>2 DEF Claims, Preparing, Approving
  <2>4. \A d \in Calls \ {c}: Claims(d) =>
          /\ pending[d].project # p \/ pending[d].req # i
          /\ row'[pending[d].project][pending[d].req].status # "absent"
    BY <1>1, <1>3, <2>1 DEF ClaimsInv, StatusOf
  <2>5. Reviewed => /\ composer.origin # p \/ composer.req # i
                    /\ row'[composer.origin][composer.req].status # "absent"
    BY <1>1, <1>3, <2>1 DEF ClaimsInv, Status
  <2>6. \A d \in Calls: Claims(d)' => StatusOf(d)' # "absent"
    BY SMTT(30), <1>2, <1>3, <2>2, <2>4 DEF StatusOf
  <2>7. \A d, e \in Calls: d # e /\ Claims(d)' /\ Claims(e)' => ~SameRow(d, e)'
    BY <1>2, <2>1, <2>2, <2>4 DEF ClaimsInv, SameRow
  <2>8. Reviewed' => Status(composer.origin, composer.req)' # "absent"
    BY <1>1, <2>5 DEF Reviewed, Status
  <2>9. \A d \in Calls: OfReview(d)' /\ Claims(d)' => Approving(d)' /\ ListenedTo(d)'
    <3> TAKE d \in Calls
    <3> HAVE OfReview(d)' /\ Claims(d)'
    <3>1. Reviewed /\ pending'[d].project = composer.origin /\ pending'[d].req = composer.req
      BY <1>1 DEF OfReview, Reviewed
    <3>2. d # c
      BY <1>2, <2>5, <3>1
    <3>3. OfReview(d) /\ Claims(d)
      BY <1>2, <2>2, <3>1, <3>2 DEF OfReview
    <3>4. QED BY <2>1, <2>2, <3>2, <3>3 DEF ClaimsInv
  <2>10. ClaimsInv'
    BY <2>6, <2>7, <2>8, <2>9 DEF ClaimsInv
  <2>11. \A o \in Projects, j \in ReqIds:
           row'[o][j].made = 0 \/ (row'[o][j].made = 1 /\ row'[o][j].status = "confirmed")
    BY <1>1, <1>3, <2>1 DEF MadeInv
  <2>12. \A d \in Calls: Working(d, "confirm")' =>
            row'[pending'[d].project][pending'[d].req].made = 0
    <3> TAKE d \in Calls
    <3> HAVE Working(d, "confirm")'
    <3>1. d # c
      BY <1>2 DEF Working
    <3>2. pending'[d] = pending[d] /\ Working(d, "confirm") /\ Claims(d)
      BY <1>2, <3>1 DEF Working, Claims, Approving
    <3>3. row[pending[d].project][pending[d].req].made = 0
      BY <2>1, <3>2 DEF MadeInv
    <3>4. pending[d].project # p \/ pending[d].req # i
      BY <2>4, <3>1, <3>2
    <3>5. pending[d].project \in Projects /\ pending[d].req \in ReqIds
      BY <3>2
    <3>6. row'[pending[d].project][pending[d].req] = row[pending[d].project][pending[d].req]
      BY <1>3, <3>4, <3>5
    <3>7. QED BY <3>2, <3>3, <3>6
  <2>13. QED BY <2>10, <2>11, <2>12 DEF MadeInv
<1>6. QED BY <1>4, <1>5 DEF CountsInv, OnceMade

\* The server goes on with a call.
LEMMA ServerCounts ==
  ASSUME ComposerInv, CountsInv, NEW c \in Calls,
         EndDecompose(c) \/ BeginConfirm(c) \/ EndConfirm(c) \/ HalfConfirm(c) \/ ServeDiscard(c)
  PROVE  CountsInv'
<1> USE CountTypes
<1> DEFINE p == pending[c].project
           i == pending[c].req
<1>1. PICK state \in {"working", "done", "refused"}: ServerIs(c, state)
  BY DEF EndDecompose, BeginConfirm, EndConfirm, HalfConfirm, ServeDiscard
<1>2. /\ \A d \in Calls \ {c}: pending'[d] = pending[d]
      /\ \/ pending'[c] = NoPending
         \/ /\ pending'[c].kind = pending[c].kind /\ pending'[c].server = state
            /\ pending'[c].project = p /\ pending'[c].req = i
            /\ pending'[c].awaited = pending[c].awaited /\ pending'[c].mine = pending[c].mine
  BY <1>1, MovesOn
<1>3. UNCHANGED composer /\ i \in ReqIds /\ p \in Projects
      /\ (broken' = 0 => broken = 0 /\ ~HalfConfirm(c))
  <2>1. UNCHANGED composer /\ p \in Projects
    BY DEF EndDecompose, BeginConfirm, EndConfirm, HalfConfirm, ServeDiscard
  <2>2. Claims(c) \/ pending[c].kind = "discard"
    BY DEF EndDecompose, BeginConfirm, EndConfirm, HalfConfirm, ServeDiscard,
           Claims, Preparing, Approving
  <2>3. ASSUME HalfConfirm(c) PROVE broken' # 0
    <3>1. broken' = broken + 1 /\ broken \in Nat
      BY <2>3 DEF HalfConfirm
    <3> HIDE CountTypes
    <3>2. QED BY <3>1
  <2>4. ~HalfConfirm(c) => UNCHANGED broken
    BY DEF EndDecompose, BeginConfirm, EndConfirm, ServeDiscard
  <2>5. QED BY <2>1, <2>2, <2>3, <2>4
<1>4. WaitsInv'
  <2>1. \A d \in Calls: ListenedTo(d)' =>
          /\ ListenedTo(d) /\ pending'[d].kind = pending[d].kind
          /\ pending'[d].project = pending[d].project
    BY <1>2 DEF ListenedTo
  <2>2. QED BY <1>3, <2>1, WaitsKept DEF CountsInv
<1>5. \A d \in Calls: Claims(d)' =>
        /\ Claims(d) /\ (Preparing(d)' => Preparing(d))
        /\ pending'[d].project = pending[d].project /\ pending'[d].req = pending[d].req
        /\ (ListenedTo(d) => ListenedTo(d)')
  <2> TAKE d \in Calls
  <2> HAVE Claims(d)'
  <2>1. CASE d # c
    BY <1>2, <2>1 DEF Claims, Preparing, Approving, ListenedTo
  <2>2. CASE d = c
    <3>1. /\ pending'[c].kind = pending[c].kind /\ pending'[c].server = state
          /\ pending'[c].project = p /\ pending'[c].req = i
          /\ pending'[c].awaited = pending[c].awaited /\ pending'[c].mine = pending[c].mine
      BY <1>2, <2>2 DEF Claims, Preparing, Approving
    <3>2. pending[c].kind # "discard"
      BY <2>2, <3>1 DEF Claims, Preparing, Approving
    <3>3. Claims(c)
      BY <3>2 DEF Claims, Preparing, Approving, EndDecompose, BeginConfirm, EndConfirm, HalfConfirm,
                  ServeDiscard
    <3>4. QED BY <2>2, <3>1, <3>3 DEF Claims, Preparing, Approving, ListenedTo
  <2>3. QED BY <2>1, <2>2
\* What the step writes.
<1>6. ASSUME ~HalfConfirm(c)
      PROVE  /\ \A o \in Projects, j \in ReqIds: (o # p \/ j # i) => row'[o][j] = row[o][j]
             /\ \/ EndDecompose(c) /\ row'[p][i].made = row[p][i].made
                   /\ row'[p][i].status \in {row[p][i].status, "preview_ready"}
                \/ BeginConfirm(c) /\ UNCHANGED row
                \/ EndConfirm(c) /\ row'[p][i].made = row[p][i].made + 1
                   /\ row'[p][i].status = "confirmed"
                \/ ServeDiscard(c) /\ row'[p][i].made = row[p][i].made
                   /\ \/ row'[p][i].status = row[p][i].status
                      \/ row'[p][i].status = "discarded" /\ row[p][i].status # "confirmed"
  <2>1. CASE EndDecompose(c)
    <3>1. (UNCHANGED row \/ Marked(p, i, "preview_ready")) /\ "preview_ready" \in Statuses
      BY <2>1 DEF EndDecompose, Marked, Statuses
    <3>2. CASE UNCHANGED row
      BY <2>1, <3>2
    <3>3. CASE Marked(p, i, "preview_ready")
      <4> HIDE DEF p, i
      <4>1. /\ row'[p][i].status = "preview_ready" /\ row'[p][i].made = row[p][i].made
            /\ \A o \in Projects, j \in ReqIds: (o # p \/ j # i) => row'[o][j] = row[o][j]
        BY <1>3, <3>1, <3>3, StatusWritten
      <4>2. row'[p][i].status \in {row[p][i].status, "preview_ready"}
        BY <4>1
      <4> HIDE CountTypes
      <4>3. QED BY <2>1, <4>1, <4>2
    <3>4. QED BY <3>1, <3>2, <3>3
  <2>2. CASE BeginConfirm(c)
    BY <2>2 DEF BeginConfirm
  <2>3. CASE EndConfirm(c)
    <3> DEFINE r == [status |-> "confirmed", made |-> row[p][i].made + 1]
    <3>1. row' = [row EXCEPT ![p][i] = r] /\ r.status = "confirmed" /\ r.made = row[p][i].made + 1
      BY <2>3 DEF EndConfirm
    <3> HIDE DEF r
    <3>2. /\ row'[p][i] = r
          /\ \A o \in Projects, j \in ReqIds: (o # p \/ j # i) => row'[o][j] = row[o][j]
      BY <1>3, <3>1 DEF ComposerTypeOK
    <3>3. QED BY <2>3, <3>1, <3>2
  <2>4. CASE ServeDiscard(c)
    <3>1. /\ "discarded" \in Statuses
          /\ UNCHANGED row \/ (Marked(p, i, "discarded") /\ row[p][i].status # "confirmed")
      BY <2>4 DEF ServeDiscard, Status, Marked, Statuses
    <3>2. CASE UNCHANGED row
      BY <2>4, <3>2
    <3>3. CASE Marked(p, i, "discarded") /\ row[p][i].status # "confirmed"
      <4> HIDE DEF p, i
      <4>1. /\ row'[p][i].status = "discarded" /\ row'[p][i].made = row[p][i].made
            /\ \A o \in Projects, j \in ReqIds: (o # p \/ j # i) => row'[o][j] = row[o][j]
        BY <1>3, <3>1, <3>3, StatusWritten
      <4> HIDE CountTypes
      <4>2. QED BY <2>4, <3>3, <4>1
    <3>4. QED BY <3>1, <3>2, <3>3
  <2>5. QED BY <1>6, <2>1, <2>2, <2>3, <2>4
<1>7. ASSUME broken' = 0 PROVE ClaimsInv' /\ MadeInv'
  <2>1. ClaimsInv /\ MadeInv /\ ~HalfConfirm(c) /\ PreviewsComeFirst
    BY <1>3, <1>7 DEF CountsInv, OnceMade, ComposerInv
  <2> HIDE DEF p, i
  <2>2. \A o \in Projects, j \in ReqIds: Status(o, j) # "absent" => Status(o, j)' # "absent"
    BY <1>6, <2>1 DEF Status
  <2>3. Reviewed' => Reviewed /\ composer'.origin = composer.origin /\ composer'.req = composer.req
    BY <1>3 DEF Reviewed
  <2>4. ClaimsInv'
    <3>1. \A d \in Calls: Approving(d)' /\ OfReview(d)' /\ ListenedTo(d) => ListenedTo(d)'
      BY <1>5 DEF Claims
    <3>2. \A d \in Calls: Claims(d) => pending[d].project \in Projects /\ pending[d].req \in ReqIds
      OBVIOUS
    <3>3. QED BY <1>5, <2>1, <2>2, <2>3, <3>1, <3>2, ClaimsKept
  <2>5. row[p][i].made = 0 \/ (row[p][i].made = 1 /\ row[p][i].status = "confirmed")
    BY <1>3, <2>1 DEF MadeInv
  <2>6. row'[p][i].made = 0 \/ (row'[p][i].made = 1 /\ row'[p][i].status = "confirmed")
    <3>1. EndDecompose(c) => row[p][i].status # "confirmed"
      BY <2>1 DEF EndDecompose, PreviewsComeFirst, Working, StatusOf, p, i
    <3>2. EndConfirm(c) => row[p][i].made = 0
      BY <2>1 DEF EndConfirm, MadeInv, Working, p, i
    <3>3. QED BY <1>6, <2>1, <2>5, <3>1, <3>2
  <2>7. \A o \in Projects, j \in ReqIds:
          row'[o][j].made = 0 \/ (row'[o][j].made = 1 /\ row'[o][j].status = "confirmed")
    BY SMTT(30), <1>6, <2>1, <2>6 DEF MadeInv
  <2>8. \A d \in Calls: Working(d, "confirm")' =>
          row'[pending'[d].project][pending'[d].req].made = 0
    <3> TAKE d \in Calls
    <3> HAVE Working(d, "confirm")'
    <3>1. CASE d = c
      <4>1. BeginConfirm(c) /\ row[p][i].status = "preview_ready" /\ pending'[c].project = p
            /\ pending'[c].req = i
        <5>1. pending'[c].server = "working" /\ pending'[c].kind = "confirm"
          BY <3>1 DEF Working
        <5>2. state = "working" /\ pending'[c].project = p /\ pending'[c].req = i
              /\ pending[c].kind = "confirm"
          BY <1>2, <5>1 DEF NoPending, p, i
        <5>3. ServerIs(c, "done") => pending'[c].server # "working"
          BY MovesOn, <5>1 DEF NoPending
        <5>4. ServerIs(c, "refused") => pending'[c].server # "working"
          BY MovesOn, <5>1 DEF NoPending
        <5>5. BeginConfirm(c)
          BY <2>1, <5>1, <5>3, <5>4 DEF EndDecompose, EndConfirm, ServeDiscard
        <5>6. row[p][i].status = "preview_ready"
          BY <5>1, <5>4, <5>5 DEF BeginConfirm, Status, p, i
        <5>7. QED BY <5>2, <5>5, <5>6
      <4>2. UNCHANGED row
        BY <4>1 DEF BeginConfirm
      <4>3. QED BY <2>5, <3>1, <4>1, <4>2
    <3>2. CASE d # c
      <4>1. pending'[d] = pending[d] /\ Working(d, "confirm") /\ Claims(d)
        BY <1>2, <3>2 DEF Working, Claims, Approving
      <4>2. row[pending[d].project][pending[d].req].made = 0
        BY <2>1, <4>1 DEF MadeInv
      <4>3. EndConfirm(c) => pending[d].project # p \/ pending[d].req # i
        BY <2>1, <3>2, <4>1 DEF EndConfirm, ClaimsInv, SameRow, Claims, Approving, p, i
      <4>4. QED BY SMTT(40), <1>6, <2>1, <4>1, <4>2, <4>3
    <3>3. QED BY <3>1, <3>2
  <2>9. QED BY <2>4, <2>7, <2>8 DEF MadeInv
<1>8. QED BY <1>4, <1>7 DEF CountsInv, OnceMade

\* No row changes, and no call comes to work on a confirmation.
LEMMA MadeKept ==
  ASSUME MadeInv, UNCHANGED row,
         \A c \in Calls: Working(c, "confirm")' =>
           /\ Working(c, "confirm") /\ pending'[c].project = pending[c].project
           /\ pending'[c].req = pending[c].req
  PROVE  MadeInv'
BY DEF MadeInv

\* The page does not wait while the user can act on the form or on the review.
LEMMA NobodyListens ==
  ASSUME WaitsInv, ~composer.open \/ composer.step = "compose" \/ AtReview
  PROVE  \A c \in Calls: ~ListenedTo(c)
BY DEF WaitsInv, AtReview

\* The user turns to another step or closes the composer.
LEMMA TurnCounts ==
  ASSUME ComposerInv, CountsInv,
         \/ \E p \in Projects: Choose(p) \/ Target(p)
         \/ OpenComposer \/ Back \/ CloseComposer
         \/ UNCHANGED composerVars
  PROVE  CountsInv'
<1> USE CountTypes
<1>1. UNCHANGED <<row, broken>>
  BY DEF Choose, Target, OpenComposer, Back, CloseComposer, composerVars
<1>2. \A c \in Calls: /\ pending'[c].kind = pending[c].kind /\ pending'[c].server = pending[c].server
                      /\ pending'[c].project = pending[c].project /\ pending'[c].req = pending[c].req
                      /\ (ListenedTo(c)' => ListenedTo(c))
                      /\ (~CloseComposer => pending'[c] = pending[c])
   <2>1. CASE CloseComposer
    BY <2>1 DEF CloseComposer, Abandoned, PendingRecord, ListenedTo
  <2>2. CASE ~CloseComposer
    <3>1. UNCHANGED pending
      BY <2>2 DEF Choose, Target, OpenComposer, Back, composerVars
    <3>2. QED BY <2>2, <3>1 DEF ListenedTo
  <2>3. QED BY <2>1, <2>2
<1>3. \/ UNCHANGED composer /\ ~CloseComposer
      \/ ~Reviewed' /\ composer'.step = "compose" /\ \A c \in Calls: ~ListenedTo(c)'
  <2>1. ASSUME NEW p \in Projects, Choose(p) \/ Target(p)
        PROVE  \/ UNCHANGED composer /\ ~CloseComposer
               \/ ~Reviewed' /\ composer'.step = "compose" /\ \A c \in Calls: ~ListenedTo(c)'
    <3>1. CASE Choose(p)
      BY <3>1 DEF Choose, CloseComposer
    <3>2. CASE Target(p)
      <4>1. composer'.step = "compose" /\ \A c \in Calls: ~ListenedTo(c)
        BY <3>2, NobodyListens DEF Target, ComposerRecord, CountsInv
      <4>2. QED BY <1>2, <4>1 DEF Reviewed
    <3>3. QED BY <2>1, <3>1, <3>2
  <2>2. CASE OpenComposer \/ Back
    <3>1. \A c \in Calls: ~ListenedTo(c)
      BY <2>2, NobodyListens DEF OpenComposer, Back, CountsInv
    <3>2. composer'.step = "compose"
      BY <2>2, ComposerRecords DEF OpenComposer, Back, ComposerRecord, ComposerTypeOK
    <3>3. QED BY <1>2, <3>1, <3>2 DEF Reviewed
  <2>3. CASE CloseComposer
    <3>1. composer'.step = "compose" /\ \A c \in Calls: ~ListenedTo(c)'
      BY <2>3, ComposerRecords DEF CloseComposer, Abandoned, PendingRecord, ListenedTo
    <3>2. QED BY <3>1 DEF Reviewed
  <2>4. CASE UNCHANGED composerVars
    <3>1. UNCHANGED <<composer, pending>>
      BY <2>4 DEF composerVars
    <3>2. ~CloseComposer
      BY <3>1 DEF CloseComposer
    <3>3. QED BY <3>1, <3>2
  <2>5. QED BY <2>1, <2>2, <2>3, <2>4
<1>4. WaitsInv'
  <2>1. CASE UNCHANGED composer /\ ~CloseComposer
    BY <1>2, <2>1, WaitsKept DEF CountsInv
  <2>2. CASE ~Reviewed' /\ composer'.step = "compose" /\ \A c \in Calls: ~ListenedTo(c)'
    BY <2>2 DEF WaitsInv, ApprovedIsShown
  <2>3. QED BY <1>3, <2>1, <2>2
<1>5. ASSUME broken' = 0 PROVE ClaimsInv' /\ MadeInv'
  <2>1. ClaimsInv /\ MadeInv
    BY <1>1, <1>5 DEF CountsInv, OnceMade
  <2>2. MadeInv'
    BY <1>1, <1>2, <2>1, MadeKept DEF Working
  <2>3. \A p \in Projects, i \in ReqIds: Status(p, i) # "absent" => Status(p, i)' # "absent"
    BY <1>1 DEF Status
  <2>4. \A c \in Calls: Claims(c)' =>
          /\ Claims(c) /\ (Preparing(c)' => Preparing(c))
          /\ pending'[c].project = pending[c].project /\ pending'[c].req = pending[c].req
    BY <1>2 DEF Claims, Preparing, Approving
  <2>5. Reviewed' => Reviewed /\ composer'.origin = composer.origin /\ composer'.req = composer.req
    BY <1>3 DEF Reviewed
  <2>6. \A c \in Calls: Approving(c)' /\ OfReview(c)' /\ ListenedTo(c) => ListenedTo(c)'
    BY <1>2, <1>3 DEF OfReview, ListenedTo
  <2>7. \A c \in Calls: Claims(c) => pending[c].project \in Projects /\ pending[c].req \in ReqIds
    OBVIOUS
  <2>8. QED BY <2>1, <2>2, <2>3, <2>4, <2>5, <2>6, <2>7, ClaimsKept
<1>6. QED BY <1>4, <1>5 DEF CountsInv, OnceMade

\* The user asks for something.
LEMMA AskCounts ==
  ASSUME ComposerInv, CountsInv, NEW c \in Calls, Decompose(c) \/ Approve(c) \/ Discard(c)
  PROVE  CountsInv'
<1> USE CountTypes
<1>1. UNCHANGED row /\ FreePending(c) /\ \A d \in Calls: ~ListenedTo(d)
  <2>1. UNCHANGED row /\ FreePending(c)
    BY DEF Decompose, Approve, Discard, Request
  <2>2. composer.step = "compose" \/ AtReview
    BY DEF Decompose, Approve, Discard
  <2>3. QED BY <2>1, <2>2, NobodyListens DEF CountsInv
<1>2. \A d \in Calls \ {c}: pending'[d] = pending[d] /\ ~ListenedTo(d)'
  <2>1. \A d \in Calls \ {c}: pending'[d] = pending[d]
    BY Requested DEF Decompose, Approve, Discard
  <2>2. QED BY <1>1, <2>1 DEF ListenedTo
<1>3. ~Claims(c) /\ ~Working(c, "confirm")' /\ pending'[c].server = "sent"
  <2>1. pending'[c].server = "sent"
    BY Requested DEF Decompose, Approve, Discard
  <2>2. QED BY <1>1, <2>1 DEF FreePending, Claims, Preparing, Approving, Working
<1>4. MadeInv => MadeInv'
  BY <1>1, <1>2, <1>3, MadeKept DEF Working
<1>5. \A p \in Projects, i \in ReqIds: Status(p, i) # "absent" => Status(p, i)' # "absent"
  BY <1>1 DEF Status
<1>6. \A d \in Calls \ {c}: /\ Claims(d)' <=> Claims(d)
                            /\ Approving(d)' <=> Approving(d)
                            /\ Preparing(d)' <=> Preparing(d)
  BY <1>2 DEF Claims, Preparing, Approving
\* A call that claims nothing, from a composer that reviews nothing then.
<1>7. ASSUME ClaimsInv, ~Claims(c)', ~Reviewed' PROVE ClaimsInv'
  <2>1. \A d \in Calls: Claims(d)' =>
          /\ Claims(d) /\ (Preparing(d)' => Preparing(d))
          /\ pending'[d].project = pending[d].project /\ pending'[d].req = pending[d].req
    BY <1>2, <1>6, <1>7
  <2>2. \A d \in Calls: ~OfReview(d)'
    BY <1>7 DEF OfReview
  <2>3. \A d \in Calls: Approving(d)' /\ OfReview(d)' /\ ListenedTo(d) => ListenedTo(d)'
    BY <2>2
  <2>4. Reviewed' => Reviewed /\ composer'.origin = composer.origin /\ composer'.req = composer.req
    BY <1>7
  <2>5. \A d \in Calls: Claims(d) => pending[d].project \in Projects /\ pending[d].req \in ReqIds
    OBVIOUS
  <2>6. QED BY <1>5, <1>7, <2>1, <2>3, <2>4, <2>5, ClaimsKept
<1>8. CASE Decompose(c)
  <2>1. /\ composer' = [composer EXCEPT !.step = "decomposing", !.drifted = FALSE]
        /\ composer.open /\ UNCHANGED broken
        /\ Request(c, "decompose", composer.project, 0, TRUE)
    BY <1>8 DEF Decompose
  <2>2. /\ composer'.open /\ composer'.step = "decomposing" /\ ~composer'.drifted
        /\ composer'.project = composer.project
    BY <2>1 DEF ComposerRecord
  <2>3. pending'[c].kind = "decompose" /\ pending'[c].project = composer.project
    <3>1. pending' = [pending EXCEPT ![c] =
            [kind |-> "decompose", project |-> composer.project, req |-> 0, server |-> "sent",
             awaited |-> TRUE, mine |-> TRUE]]
      BY <2>1 DEF Request
    <3>2. QED BY <3>1 DEF ComposerTypeOK
  <2>4. WaitsInv'
    <3>1. \A d \in Calls: ListenedTo(d)' => d = c
      BY <1>2
    <3>2. ~(composer'.step = "review")
      BY <2>2
    <3>3. \A d \in Calls: ListenedTo(d)' =>
            /\ composer'.open /\ pending'[d].kind = "decompose" /\ composer'.step = "decomposing"
            /\ ~composer'.drifted => pending'[d].project = composer'.project
      BY <2>2, <2>3, <3>1
    <3>4. QED BY <3>1, <3>2, <3>3 DEF WaitsInv, ApprovedIsShown
  <2>5. ~Claims(c)' /\ ~Reviewed'
    BY <1>3, <2>2, <2>3 DEF Claims, Preparing, Approving, Reviewed
  <2>6. QED BY <1>4, <1>7, <2>1, <2>4, <2>5 DEF CountsInv, OnceMade
<1>9. CASE Discard(c)
  <2>1. composer' = NoComposer /\ UNCHANGED broken
        /\ Request(c, "discard", DefaultProject, composer.req, FALSE)
    BY <1>9 DEF Discard
  <2>2. pending'[c].kind = "discard" /\ pending'[c].awaited = FALSE
    BY <2>1, Requested
  <2>3. WaitsInv'
    BY <1>2, <2>1, <2>2 DEF WaitsInv, ApprovedIsShown, ListenedTo
  <2>4. ~Claims(c)' /\ ~Reviewed'
    BY <2>1, <2>2 DEF Claims, Preparing, Approving, Reviewed
  <2>5. QED BY <1>4, <1>7, <2>1, <2>3, <2>4 DEF CountsInv, OnceMade
<1>10. CASE Approve(c)
  <2>1. /\ composer' = [composer EXCEPT !.confirming = TRUE] /\ AtReview
        /\ Request(c, "confirm", composer.project, composer.req, TRUE)
        /\ broken' = IF OffTarget THEN broken + 1 ELSE broken
    BY <1>10 DEF Approve
  <2>2. /\ composer'.open /\ composer'.step = "review" /\ composer'.confirming
        /\ composer'.project = composer.project /\ composer'.origin = composer.origin
        /\ composer'.req = composer.req /\ composer'.drifted = composer.drifted
        /\ Reviewed /\ Reviewed'
    BY <2>1 DEF ComposerRecord, AtReview, Reviewed
  <2>3. /\ pending'[c].kind = "confirm" /\ pending'[c].project = composer.project
        /\ pending'[c].req = composer.req /\ pending'[c].awaited = TRUE /\ pending'[c].mine = TRUE
    <3>1. pending' = [pending EXCEPT ![c] =
            [kind |-> "confirm", project |-> composer.project, req |-> composer.req,
             server |-> "sent", awaited |-> TRUE, mine |-> TRUE]]
      BY <2>1 DEF Request
    <3>2. QED BY <3>1 DEF ComposerTypeOK
  <2>4. WaitsInv'
    <3>1. \A d \in Calls: ListenedTo(d)' => d = c
      BY <1>2
    <3>2. \A d \in Calls: ListenedTo(d)' =>
            /\ composer'.open /\ pending'[d].kind = "confirm" /\ composer'.step = "review"
            /\ composer'.confirming
      BY <2>2, <2>3, <3>1
    <3>3. ApprovedIsShown'
      BY <2>1, <2>2 DEF CountsInv, WaitsInv, ApprovedIsShown, AtReview
    <3>4. QED BY <3>1, <3>2, <3>3 DEF WaitsInv
  <2>5. ASSUME broken' = 0 PROVE ClaimsInv' /\ MadeInv'
    <3>1. broken = 0 /\ composer.project = composer.origin
      BY <2>1, <2>5 DEF OffTarget
    <3>2. ClaimsInv /\ MadeInv
      BY <3>1 DEF CountsInv, OnceMade
    <3>3. \A d \in Calls \ {c}: Claims(d) =>
            pending[d].project # composer.origin \/ pending[d].req # composer.req
      BY <1>1, <2>2, <3>2 DEF ClaimsInv, OfReview
    <3>4. row'[composer.origin][composer.req].status # "absent"
      BY <1>1, <2>2, <3>2 DEF ClaimsInv, Status
    <3>5. \A d \in Calls: Claims(d)' => StatusOf(d)' # "absent"
      BY <1>1, <1>2, <1>6, <2>3, <3>1, <3>2, <3>4 DEF ClaimsInv, StatusOf
    <3>6. \A d, e \in Calls: d # e /\ Claims(d)' /\ Claims(e)' => ~SameRow(d, e)'
      BY <1>2, <1>6, <2>3, <3>1, <3>2, <3>3 DEF ClaimsInv, SameRow
    <3>7. Reviewed' => Status(composer.origin, composer.req)' # "absent"
      BY <2>2, <3>4 DEF Status
    <3>8. Approving(c)' /\ ListenedTo(c)'
      BY <1>3, <2>3 DEF Approving, ListenedTo
    <3>9. \A d \in Calls: OfReview(d)' /\ Claims(d)' => Approving(d)' /\ ListenedTo(d)'
      <4> TAKE d \in Calls
      <4> HAVE OfReview(d)' /\ Claims(d)'
      <4>1. CASE d = c
        BY <3>8, <4>1
      <4>2. CASE d # c
        BY <1>2, <1>6, <2>2, <3>3, <4>2 DEF OfReview
      <4>3. QED BY <4>1, <4>2
    <3>10. QED BY <1>4, <3>2, <3>5, <3>6, <3>7, <3>9 DEF ClaimsInv
  <2>6. QED BY <2>4, <2>5 DEF CountsInv, OnceMade
<1>11. QED BY <1>8, <1>9, <1>10

\* The page has its answer, or gives up on it: the call is over, or goes on for
\* nobody.
LEMMA AnswerCounts ==
  ASSUME ComposerInv, CountsInv, NEW c \in Calls, Decomposed(c) \/ Confirmed(c) \/ Failed(c)
  PROVE  CountsInv'
<1> USE CountTypes
<1> DEFINE q == pending[c]
<1>1. UNCHANGED row /\ PendingOver(c) /\ q.awaited
  BY DEF Decomposed, Confirmed, Failed
<1>2. /\ \A d \in Calls \ {c}: pending'[d] = pending[d]
      /\ ~pending'[c].awaited
      /\ \/ pending'[c] = NoPending
         \/ /\ pending'[c].kind = pending[c].kind /\ pending'[c].server = pending[c].server
            /\ pending'[c].project = pending[c].project /\ pending'[c].req = pending[c].req
            /\ pending[c].server \in {"sent", "working"}
  BY <1>1, WaitsOver
<1>3. ~ListenedTo(c)' /\ \A d \in Calls \ {c}: ListenedTo(d)' <=> ListenedTo(d)
  BY <1>2 DEF ListenedTo
<1>4. \A d \in Calls: Claims(d)' =>
        /\ Claims(d) /\ (Preparing(d)' => Preparing(d)) /\ (Approving(d)' => Approving(d))
        /\ pending'[d].project = pending[d].project /\ pending'[d].req = pending[d].req
  BY <1>2 DEF Claims, Preparing, Approving
<1>5. \A d \in Calls: Working(d, "confirm")' =>
        /\ Working(d, "confirm") /\ pending'[d].project = pending[d].project
        /\ pending'[d].req = pending[d].req
  BY <1>2 DEF Working
<1>6. MadeInv => MadeInv'
  BY <1>1, <1>5, MadeKept
<1>7. \A p \in Projects, i \in ReqIds: Status(p, i) # "absent" => Status(p, i)' # "absent"
  BY <1>1 DEF Status
<1>8. \A d \in Calls: Claims(d) => pending[d].project \in Projects /\ pending[d].req \in ReqIds
  OBVIOUS
\* If the call was the one that the composer waited for, nobody is listened to then.
<1>9. ListenedTo(c) => \A d \in Calls: ~ListenedTo(d)'
  BY <1>3 DEF CountsInv, WaitsInv
\* A call that the page gives up on does not approve, or its failure is counted.
<1>10. broken' = 0 => broken = 0 /\ ~Approving(c)'
  <2>1. CASE Failed(c)
    <3>1. CASE Broken(q)
      <4>1. broken' = broken + 1
        BY <2>1, <3>1 DEF Failed
      <4>2. QED BY <4>1
    <3>2. CASE ~Broken(q)
      <4>1. broken' = broken
        BY <2>1, <3>2 DEF Failed
      <4>2. ~Approving(c)
        BY <3>2 DEF Approving, Broken
      <4>3. ~Approving(c)'
        BY <1>2, <4>2 DEF Approving
      <4>4. QED BY <4>1, <4>3
    <3>3. QED BY <3>1, <3>2
  <2>2. CASE Decomposed(c) \/ Confirmed(c)
    <3>1. UNCHANGED broken /\ q.server = "done"
      BY <2>2 DEF Decomposed, Confirmed
    <3>2. ~Approving(c)'
      BY <1>2, <3>1 DEF Approving
    <3>3. QED BY <3>1, <3>2
  <2>3. QED BY <2>1, <2>2
\* The claims hold on, whatever is reviewed, as long as no other row comes to be.
<1>11. ASSUME broken' = 0,
              Reviewed' => /\ Reviewed /\ composer'.origin = composer.origin
                           /\ composer'.req = composer.req
       PROVE  ClaimsInv' /\ MadeInv'
  <2>1. ClaimsInv /\ MadeInv
    BY <1>10, <1>11 DEF CountsInv, OnceMade
  <2>2. \A d \in Calls: Approving(d)' /\ OfReview(d)' /\ ListenedTo(d) => ListenedTo(d)'
    BY <1>3, <1>10, <1>11
  <2>3. \A d \in Calls: Claims(d)' =>
          /\ Claims(d) /\ (Preparing(d)' => Preparing(d))
          /\ pending'[d].project = pending[d].project /\ pending'[d].req = pending[d].req
    BY <1>4
  <2>4. ClaimsInv'
    BY <1>7, <1>8, <1>11, <2>1, <2>2, <2>3, ClaimsKept
  <2>5. QED BY <1>6, <2>1, <2>4
<1>12. CASE UNCHANGED composer
  <2>1. \A d \in Calls: ListenedTo(d)' =>
          /\ ListenedTo(d) /\ pending'[d].kind = pending[d].kind
          /\ pending'[d].project = pending[d].project
    BY <1>2, <1>3
  <2>2. WaitsInv'
    BY <1>12, <2>1, WaitsKept DEF CountsInv
  <2>3. Reviewed' => /\ Reviewed /\ composer'.origin = composer.origin
                     /\ composer'.req = composer.req
    BY <1>12 DEF Reviewed
  <2>4. QED BY <1>11, <2>2, <2>3 DEF CountsInv, OnceMade
\* The composer has its preview.
<1>13. CASE Decomposed(c) /\ q.mine
  <2>1. /\ composer' = [composer EXCEPT !.step = "review", !.req = q.req, !.origin = q.project]
        /\ q.kind = "decompose" /\ q.server = "done" /\ UNCHANGED broken /\ ListenedTo(c)
    BY <1>1, <1>13 DEF Decomposed, ListenedTo
  <2>2. /\ composer'.step = "review" /\ composer'.req = q.req /\ composer'.origin = q.project
        /\ composer'.project = composer.project /\ composer'.drifted = composer.drifted
        /\ composer'.open = composer.open
    BY <2>1 DEF ComposerRecord
  <2>3. composer.open /\ composer.step = "decomposing"
        /\ (~composer.drifted => q.project = composer.project)
    BY <2>1 DEF CountsInv, WaitsInv
  <2>4. ApprovedIsShown'
    BY <2>2, <2>3 DEF ApprovedIsShown
  <2>5. WaitsInv'
    BY <1>9, <2>1, <2>4 DEF WaitsInv
  <2>6. ASSUME broken' = 0 PROVE ClaimsInv' /\ MadeInv'
    <3>1. ClaimsInv /\ MadeInv
      BY <2>1, <2>6 DEF CountsInv, OnceMade
    <3>2. pending'[c] = NoPending /\ ~Claims(c)'
      BY <1>2, <2>1 DEF Claims, Preparing, Approving, NoPending
    <3>3. Claims(c)
      BY <2>1 DEF Claims, Preparing
    <3>4. \A d \in Calls: Claims(d)' => d # c /\ Claims(d) /\ ~SameRow(c, d)
      BY <1>4, <3>1, <3>2, <3>3 DEF ClaimsInv
    <3>5. \A d \in Calls: Claims(d)' => ~OfReview(d)'
      BY <1>4, <2>2, <3>4 DEF OfReview, SameRow
    <3>6. Reviewed' => Status(composer.origin, composer.req)' # "absent"
      <4>1. StatusOf(c) # "absent"
        BY <3>1, <3>3 DEF ClaimsInv
      <4>2. QED BY <1>1, <2>2, <4>1 DEF Status, StatusOf
    <3>7. \A d \in Calls: Claims(d)' => StatusOf(d)' # "absent"
      BY <1>1, <1>4, <3>1 DEF ClaimsInv, StatusOf
    <3>8. \A d, e \in Calls: d # e /\ Claims(d)' /\ Claims(e)' => ~SameRow(d, e)'
      BY <1>4, <3>1 DEF ClaimsInv, SameRow
    <3>9. ClaimsInv'
      <4>1. \A d \in Calls: OfReview(d)' /\ Claims(d)' => Approving(d)' /\ ListenedTo(d)'
        BY <3>5
      <4>2. QED BY <3>6, <3>7, <3>8, <4>1 DEF ClaimsInv
    <3>10. QED BY <1>6, <3>1, <3>9
  <2>7. QED BY <2>5, <2>6 DEF CountsInv, OnceMade
\* The board turns to the project of the tickets, and the composer with it.
<1>14. CASE Confirmed(c)
  <2> DEFINE k == IF q.mine THEN [composer EXCEPT !.step = "created", !.confirming = FALSE]
                  ELSE composer
  <2>1. composer' = Followed(k, q.project) /\ q.kind = "confirm"
    BY <1>14 DEF Confirmed
  <2>2. /\ k \in ComposerRecord
        /\ k.open = composer.open /\ k.req = composer.req /\ k.origin = composer.origin
        /\ k.project = composer.project /\ k.drifted = composer.drifted
        /\ q.mine => k.step = "created"
        /\ ~q.mine => k = composer
    BY DEF ComposerRecord, Steps
  <2> HIDE DEF k
  <2>3. /\ composer'.open = k.open /\ composer'.req = k.req /\ composer'.origin = k.origin
        /\ composer'.step = k.step /\ composer'.confirming = k.confirming
        /\ \/ composer'.project = k.project /\ composer'.drifted = k.drifted
           \/ k.step \in {"decomposing", "review"} => composer'.drifted
    BY <2>1, <2>2 DEF Followed, ComposerRecord
  <2>4. Reviewed' => /\ Reviewed /\ composer'.origin = composer.origin
                     /\ composer'.req = composer.req
    BY <2>2, <2>3 DEF Reviewed
  <2>5. ApprovedIsShown'
    BY <2>2, <2>3 DEF ApprovedIsShown, CountsInv, WaitsInv
  <2>6. WaitsInv'
    <3>1. CASE q.mine
      <4>1. ListenedTo(c)
        BY <1>1, <3>1 DEF ListenedTo
      <4>2. QED BY <1>9, <2>5, <4>1 DEF WaitsInv
    <3>2. CASE ~q.mine
      <4>1. ASSUME NEW d \in Calls, ListenedTo(d)'
            PROVE  /\ composer'.open
                   /\ \/ /\ pending'[d].kind = "decompose" /\ composer'.step = "decomposing"
                         /\ ~composer'.drifted => pending'[d].project = composer'.project
                      \/ /\ pending'[d].kind = "confirm" /\ composer'.step = "review"
                         /\ composer'.confirming
        <5>1. ListenedTo(d) /\ pending'[d] = pending[d]
          BY <1>2, <1>3, <4>1
        <5>2. /\ composer.open
              /\ \/ /\ pending[d].kind = "decompose" /\ composer.step = "decomposing"
                    /\ ~composer.drifted => pending[d].project = composer.project
                 \/ /\ pending[d].kind = "confirm" /\ composer.step = "review"
                    /\ composer.confirming
          BY <5>1 DEF CountsInv, WaitsInv
        <5>3. QED BY <2>2, <2>3, <3>2, <5>1, <5>2
      <4>2. \A d, e \in Calls: ListenedTo(d)' /\ ListenedTo(e)' => d = e
        BY <1>3 DEF CountsInv, WaitsInv
      <4>3. QED BY <2>5, <4>1, <4>2 DEF WaitsInv
    <3>3. QED BY <3>1, <3>2
  <2>7. QED BY <1>11, <2>4, <2>6 DEF CountsInv, OnceMade
\* The composer is told of a failure, and turns back.
<1>15. CASE Failed(c) /\ q.mine
  <2>1. \/ composer' = [composer EXCEPT !.step = "compose"]
        \/ composer' = [composer EXCEPT !.confirming = FALSE]
    BY <1>15 DEF Failed
  <2>2. /\ composer'.origin = composer.origin /\ composer'.req = composer.req
        /\ composer'.project = composer.project /\ composer'.drifted = composer.drifted
        /\ composer'.open = composer.open
        /\ composer'.step = composer.step \/ composer'.step = "compose"
    BY <2>1 DEF ComposerRecord
  <2>3. Reviewed' => /\ Reviewed /\ composer'.origin = composer.origin
                     /\ composer'.req = composer.req
    BY <2>2 DEF Reviewed
  <2>4. ApprovedIsShown'
    BY <2>2 DEF ApprovedIsShown, CountsInv, WaitsInv
  <2>5. ListenedTo(c)
    BY <1>1, <1>15 DEF ListenedTo
  <2>6. WaitsInv'
    BY <1>9, <2>4, <2>5 DEF WaitsInv
  <2>7. QED BY <1>11, <2>3, <2>6 DEF CountsInv, OnceMade
<1>16. (Decomposed(c) \/ Failed(c)) /\ ~q.mine => UNCHANGED composer
  BY DEF Decomposed, Failed
<1>17. QED
  <2>1. CASE q.mine
    BY <1>13, <1>14, <1>15, <2>1
  <2>2. CASE ~q.mine
    BY <1>12, <1>14, <1>16, <2>2
  <2>3. QED BY <2>1, <2>2

LEMMA CountsStep == ComposerInv /\ CountsInv /\ [ComposerNext]_composerVars => CountsInv'
<1> SUFFICES ASSUME ComposerInv, CountsInv, [ComposerNext]_composerVars PROVE CountsInv'
  OBVIOUS
<1>1. CASE \/ \E p \in Projects: Choose(p) \/ Target(p)
           \/ OpenComposer \/ Back \/ CloseComposer
           \/ UNCHANGED composerVars
  BY <1>1, TurnCounts
<1>2. ASSUME NEW c \in Calls, NEW i \in ReqIds, BeginDecompose(c, i) PROVE CountsInv'
  BY <1>2, BeginCounts
<1>3. ASSUME NEW c \in Calls,
             EndDecompose(c) \/ BeginConfirm(c) \/ EndConfirm(c) \/ HalfConfirm(c) \/ ServeDiscard(c)
      PROVE  CountsInv'
  BY <1>3, ServerCounts
<1>4. ASSUME NEW c \in Calls, Decompose(c) \/ Approve(c) \/ Discard(c) PROVE CountsInv'
  BY <1>4, AskCounts
<1>5. ASSUME NEW c \in Calls, Decomposed(c) \/ Confirmed(c) \/ Failed(c) PROVE CountsInv'
  BY <1>5, AnswerCounts
<1>6. QED BY <1>1, <1>2, <1>3, <1>4, <1>5 DEF ComposerNext

LEMMA CountsOnce == CountsInv => MadeOnce
<1> SUFFICES ASSUME CountsInv, broken = 0 PROVE \A p \in Projects, i \in ReqIds: row[p][i].made <= 1
  BY DEF MadeOnce
<1>1. \A p \in Projects, i \in ReqIds: row[p][i].made = 0 \/ row[p][i].made = 1
  BY DEF CountsInv, OnceMade, MadeInv
<1>2. QED BY <1>1

-----------------------------------------------------------------------------
(* Everything together.                                                     *)

OnceInv ==
  WorkerInv /\ TurnInv /\ ReviewInv /\ ShellInv /\ FilesInv /\ CountsInv

LEMMA OnceStart == PartsInit => OnceInv /\ UploadInv
BY OnceInits, WorkerStart, TurnStart, ReviewStart, ShellStart, FilesStart, CountsStart,
   UploadStart DEF OnceInv

LEMMA OnceStep ==
  LateInv /\ OnceInv /\ UploadInv /\ [PartsNext]_partsVars => OnceInv' /\ UploadInv'
BY OnceSteps, WorkerStep, TurnStep, ReviewStep, ShellStep, FilesStep, CountsStep,
   UploadStep DEF OnceInv, LateInv

LEMMA OnceAlways == PartsSpec => []OnceInv
<1>1. QED BY OnceStart, OnceStep, LateAlways, PTL DEF PartsSpec

(* A press counts once: a requirement makes its tickets once, the page waits *)
(* for one message, a file goes with one message, the pool follows one      *)
(* start, and a form for a ticket makes one ticket, unless a connection     *)
(* broke or a form was opened again (see the parts of DoneOnce).            *)
THEOREM PressesCountOnce == PartsSpec => []DoneOnce
<1>1. OnceInv => DoneOnce
  <2>1. WorkerInv => OneRebind
    BY DEF WorkerInv
  <2>2. ShellInv => OneTicketPerForm
    BY DEF ShellInv
  <2>3. FilesInv => FilesGoOnce
    BY DEF FilesInv, PlacesInv
  <2>4. QED BY <2>1, <2>2, <2>3, CountsOnce, TurnIsOne DEF OnceInv, DoneOnce
<1>2. QED BY <1>1, OnceAlways, PTL

(* What the user chose holds: what is approved is what the review shows, a  *)
(* preview is made for the card chosen and so is its list of runs, the      *)
(* files that the server has stay with the page, a form that is saving      *)
(* stays open, and a guide that was dismissed stays away.                   *)
THEOREM ChoicesAreKept == PartsSpec => []ChoicesHold
<1>1. OnceInv => ChoicesHold
  <2>1. CountsInv => ApprovedIsShown
    BY DEF CountsInv, WaitsInv
  <2>2. ReviewInv => ChosenIsMade /\ ListedIsMade
    BY DEF ReviewInv
  <2>3. FilesInv => FilesAreKept
    BY FilesKept DEF FilesInv
  <2>4. ShellInv => SavingStaysOpen /\ DismissedStaysAway
    BY DEF ShellInv
  <2>5. QED BY <2>1, <2>2, <2>3, <2>4 DEF OnceInv, ChoicesHold
<1>2. QED BY <1>1, OnceAlways, PTL
=============================================================================
