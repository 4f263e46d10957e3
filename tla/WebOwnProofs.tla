---------------------------- MODULE WebOwnProofs ----------------------------
(***************************************************************************)
(* Proofs that what the user does, and what an answer fills in, is for the *)
(* ticket or project it was meant for: on the panel of a ticket, in the    *)
(* switcher's panels, in the composer's form and in the inbox; and that    *)
(* nothing on the page waits for nobody: those panels, the dialog that     *)
(* asks for a token, the save buttons, uploads, and the sign-in.  For any  *)
(* number of tickets, projects, notifications, files and calls.            *)
(***************************************************************************)
EXTENDS WebLateProofs

LEMMA OwnSteps ==
  [PartsNext]_partsVars =>
    /\ [DetailNext]_detailVars /\ [ProjectsNext]_projectsVars
    /\ [WebFormNext]_webFormVars /\ [InboxNext]_inboxVars
BY DEF PartsNext, Only, partsVars

LEMMA OwnInits ==
  PartsInit => /\ DetailInit \/ DetailAside
               /\ ProjectsInit \/ ProjectsAside
               /\ WebFormInit \/ TargetAside
               /\ InboxInit \/ InboxAside
BY DEF PartsInit

-----------------------------------------------------------------------------
(* The panel of a ticket: a request that still counts is for the ticket     *)
(* shown, whatever was shown before it.                                     *)

AskedHere ==
  \A q \in fetch: q.active => q.ticket = shown /\ shown # NoTicket

\* A panel that is closed holds nothing of the user's.
ClosedIsFresh == shown = NoTicket => panel.confirm = "none" /\ ~panel.editing

DetailInv ==
  /\ DetailTypeOK /\ AskedHere /\ ClosedIsFresh
  /\ DraftIsMine /\ ChecklistIsOfTicket /\ ConfirmedWhereAsked /\ LoadingIsAsked

\* A panel that holds nothing of the user's.
LEMMA FreshPanel ==
  ASSUME NEW c \in Cards
  PROVE  /\ Fresh(c) \in PanelRecord /\ ~Fresh(c).editing
         /\ Fresh(c).draft = c.text /\ Fresh(c).confirm = "none"
BY DEF Cards, Fresh, PanelRecord, Questions, Texts

LEMMA NowhereIntended == Nowhere \in Intended
BY DefaultProjectAssumption DEF Nowhere, Intended

LEMMA DetailStart == DetailInit \/ DetailAside => DetailInv
<1> SUFFICES ASSUME DetailInit PROVE DetailInv
  BY DEF DetailAside
<1>1. card \in Cards /\ card.text = 0 /\ 0 \in Texts
  BY DetailAssumption DEF DetailInit, Cards, Stages, Texts
<1>2. /\ Fresh(card) \in PanelRecord /\ ~Fresh(card).editing
      /\ Fresh(card).draft = card.text /\ Fresh(card).confirm = "none"
  BY <1>1, FreshPanel
<1>3. DetailTypeOK /\ AskedHere /\ ClosedIsFresh
  BY <1>1, <1>2, NowhereIntended, DefaultProjectAssumption
  DEF DetailInit, DetailTypeOK, AskedHere, ClosedIsFresh
<1>4. QED
  BY <1>1, <1>2, <1>3 DEF DetailInit, DetailInv, DraftIsMine,
    ChecklistIsOfTicket, ConfirmedWhereAsked, LoadingIsAsked

\* A reset or a change of stage: the requests made before count no longer.
LEMMA ChecklistAsked ==
  ASSUME DetailInv, NEW t \in Tickets, NEW c \in Cards, NEW m \in BOOLEAN,
         ChecklistFor(t, c, m), shown' = t, card' = c, mock' = m
  PROVE  /\ summary' \in Tickets \cup {NoTicket} /\ loading' \in BOOLEAN
         /\ fetch' \subseteq FetchRecord
         /\ AskedHere' /\ ChecklistIsOfTicket' /\ LoadingIsAsked'
<1>1. QuietFetches \subseteq FetchRecord /\ \A q \in QuietFetches: ~q.active
  BY DEF QuietFetches, DetailInv, DetailTypeOK, FetchRecord
<1>2. summary \in Tickets \cup {NoTicket} /\ loading \in BOOLEAN /\ t # NoTicket
  BY DetailAssumption DEF DetailInv, DetailTypeOK
<1>3. CASE ~(c.stage = "gate2" /\ ~m)
  <2>1. fetch' = QuietFetches /\ loading' = loading
    BY <1>3 DEF ChecklistFor
  <2>2. IF c.stage = "gate2" THEN summary' = t ELSE summary' = NoTicket
    BY <1>3 DEF ChecklistFor
  <2> HIDE DEF QuietFetches
  <2>3. QED
    BY <1>1, <1>2, <1>3, <2>1, <2>2 DEF AskedHere, ChecklistIsOfTicket, LoadingIsAsked
<1>4. CASE c.stage = "gate2" /\ ~m
  <2> DEFINE new == [ticket |-> t, active |-> TRUE]
  <2>1. fetch' = QuietFetches \cup {new} /\ loading' = TRUE /\ summary' = summary
    BY <1>4 DEF ChecklistFor
  <2>2. new \in FetchRecord /\ new.active /\ new.ticket = t
    BY DEF FetchRecord
  <2> HIDE DEF QuietFetches
  <2>3. AskedHere'
    BY <1>1, <1>2, <2>1, <2>2 DEF AskedHere
  <2>4. LoadingIsAsked' /\ ChecklistIsOfTicket'
    BY <2>1 DEF LoadingIsAsked, ChecklistIsOfTicket
  <2>5. QED BY <1>1, <1>2, <2>1, <2>2, <2>3, <2>4
<1>5. QED BY <1>3, <1>4

\* What the user does at the panel leaves the ticket and the requests alone.
LEMMA PanelStep ==
  ASSUME DetailInv, AtPanel, panel' \in PanelRecord, typed' \in Texts,
         typedOn' \in Intended, armedOn' \in Intended,
         IF panel'.editing THEN panel'.draft = typed' /\ StaysWith(typedOn')
                           ELSE panel'.draft = card.text,
         panel'.confirm # "none" => StaysWith(armedOn')
  PROVE  DetailInv'
<1>1. UNCHANGED <<turnedTo, shown, card, mock, adrift, summary, loading, fetch>>
  BY DEF AtPanel, requestVars
<1>2. DetailTypeOK' /\ AskedHere' /\ ClosedIsFresh'
  BY <1>1 DEF DetailInv, DetailTypeOK, AskedHere, ClosedIsFresh, AtPanel
<1>3. DraftIsMine' /\ ConfirmedWhereAsked'
  BY <1>1 DEF DraftIsMine, ConfirmedWhereAsked, StaysWith
<1>4. ChecklistIsOfTicket' /\ LoadingIsAsked'
  BY <1>1 DEF DetailInv, ChecklistIsOfTicket, LoadingIsAsked
<1>5. QED BY <1>2, <1>3, <1>4 DEF DetailInv

\* What the user does, is about the ticket the panel makes its calls for.
LEMMA HereStays ==
  ASSUME DetailInv, shown # NoTicket
  PROVE  Here \in Intended /\ StaysWith(Here)
BY DEF DetailInv, DetailTypeOK, Here, Intended, StaysWith

LEMMA ClosedStep ==
  ASSUME DetailInv, [DetailNext]_detailVars
  PROVE  ClosedIsFresh'
<1>1. ASSUME NEW t \in Tickets, NEW c \in Cards, OpenTicket(t, c) \/ OpenFrom(t, c)
      PROVE  ClosedIsFresh'
  BY <1>1, DetailAssumption DEF OpenTicket, OpenFrom, ClosedIsFresh
<1>2. CASE CloseTicket
  BY <1>2, FreshPanel DEF CloseTicket, ClosedIsFresh, DetailInv, DetailTypeOK
<1>3. ASSUME NEW c \in Cards, Replace(c) PROVE ClosedIsFresh'
  BY <1>3 DEF Replace, ClosedIsFresh
<1>4. CASE \/ MockTurns \/ (\E q \in fetch, ok \in BOOLEAN: Summarised(q, ok))
           \/ (\E o \in Projects: Turn(o)) \/ UNCHANGED detailVars
  BY <1>4 DEF MockTurns, Summarised, Turn, detailVars, ClosedIsFresh, DetailInv
<1>5. CASE \/ Edit \/ EndEdit \/ (\E text \in Texts: TypeDraft(text))
           \/ AskFeedback \/ EndFeedback \/ Disarm
           \/ (\E op \in Questions: Arm(op) \/ Confirm(op))
  BY <1>5 DEF Edit, EndEdit, TypeDraft, AskFeedback, EndFeedback, Disarm, Arm, Confirm,
    AtPanel, ClosedIsFresh
<1>6. QED BY <1>1, <1>2, <1>3, <1>4, <1>5 DEF DetailNext

LEMMA DetailStep == DetailInv /\ [DetailNext]_detailVars => DetailInv'
<1> SUFFICES ASSUME DetailInv, [DetailNext]_detailVars PROVE DetailInv'
  OBVIOUS
<1>a. ClosedIsFresh'
  BY ClosedStep
<1> USE DetailAssumption, <1>a
<1>0. /\ panel \in PanelRecord /\ card \in Cards /\ typed \in Texts /\ 0 \in Texts
      /\ card.text \in Texts /\ mock \in BOOLEAN /\ turnedTo \in Projects
      /\ shown \in Tickets \cup {NoTicket} /\ adrift \in BOOLEAN
      /\ typedOn \in Intended /\ armedOn \in Intended /\ Nowhere \in Intended
      /\ IF panel.editing THEN panel.draft = typed /\ StaysWith(typedOn)
                          ELSE panel.draft = card.text
      /\ panel.confirm # "none" => StaysWith(armedOn)
      /\ panel.draft \in Texts /\ panel.editing \in BOOLEAN
  BY NowhereIntended
  DEF DetailInv, DetailTypeOK, DraftIsMine, ConfirmedWhereAsked, Cards, PanelRecord, Texts
<1>1. ASSUME NEW t \in Tickets, NEW c \in Cards, OpenTicket(t, c) \/ OpenFrom(t, c)
      PROVE  DetailInv'
  <2>1. /\ shown' = t /\ card' = c /\ mock' = mock /\ panel' = Fresh(c)
        /\ turnedTo' = turnedTo /\ adrift' \in BOOLEAN
        /\ typed' \in {typed, 0} /\ typedOn' \in {typedOn, Nowhere}
        /\ armedOn' \in {armedOn, Nowhere} /\ ChecklistFor(t, c, mock)
    BY <1>1 DEF OpenTicket, OpenFrom, meantVars
  <2>2. AskedHere' /\ ChecklistIsOfTicket' /\ LoadingIsAsked'
    BY <1>0, <2>1, ChecklistAsked
  <2>3. DetailTypeOK'
    BY <1>0, <2>1, ChecklistAsked, FreshPanel DEF DetailTypeOK
  <2>4. DraftIsMine' /\ ConfirmedWhereAsked'
    BY <2>1, FreshPanel DEF DraftIsMine, ConfirmedWhereAsked
  <2>5. QED BY <2>2, <2>3, <2>4 DEF DetailInv
<1>2. CASE CloseTicket
  <2>1. /\ shown' = NoTicket /\ card' = card /\ mock' = mock /\ panel' = Fresh(card)
        /\ turnedTo' = turnedTo /\ adrift' = FALSE
        /\ typed' = 0 /\ typedOn' = Nowhere /\ armedOn' = Nowhere
        /\ summary' = NoTicket /\ loading' = FALSE /\ fetch' = {}
    BY <1>2 DEF CloseTicket
  <2>2. Fresh(card) \in PanelRecord /\ ~Fresh(card).editing
    BY <1>0, FreshPanel
  <2>3. Fresh(card).draft = card.text /\ Fresh(card).confirm = "none"
    BY <1>0, FreshPanel
  <2>4. DetailTypeOK' /\ AskedHere'
    BY <1>0, <2>1, <2>2 DEF DetailTypeOK, AskedHere
  <2>5. QED
    BY <2>1, <2>2, <2>3, <2>4 DEF DetailInv, DraftIsMine,
      ConfirmedWhereAsked, ChecklistIsOfTicket, LoadingIsAsked
<1>3. ASSUME NEW c \in Cards, Replace(c) PROVE DetailInv'
  <2>1. /\ shown' = shown /\ shown \in Tickets /\ card' = c /\ mock' = mock
        /\ turnedTo' = turnedTo /\ adrift' \in {adrift, TRUE}
        /\ typed' = typed /\ typedOn' = typedOn /\ armedOn' = armedOn
        /\ panel' = DraftFor(panel, c)
    BY <1>0, <1>3 DEF Replace, meantVars
  <2>2. /\ panel' \in PanelRecord /\ panel'.confirm = panel.confirm
        /\ panel'.editing = panel.editing
        /\ panel'.draft = IF panel.editing THEN panel.draft ELSE c.text
    BY <1>0, <2>1 DEF DraftFor, PanelRecord, Cards
  <2>a. ASSUME NEW meant, StaysWith(meant) PROVE StaysWith(meant)'
    <3>1. CASE adrift' = adrift
      BY <2>1, <2>a, <3>1 DEF StaysWith
    <3>2. CASE adrift'
      BY <2>1, <2>a, <3>2 DEF StaysWith
    <3>3. QED BY <2>1, <3>1, <3>2
  <2>3. DraftIsMine' /\ ConfirmedWhereAsked'
    BY <1>0, <2>1, <2>2, <2>a DEF DraftIsMine, ConfirmedWhereAsked
  <2>4. CASE c.stage = card.stage
    <3>1. UNCHANGED <<summary, loading, fetch>>
      BY <1>3, <2>4 DEF Replace, requestVars
    <3>2. DetailTypeOK' /\ AskedHere'
      BY <1>0, <2>1, <2>2, <3>1 DEF DetailInv, DetailTypeOK, AskedHere
    <3>3. ChecklistIsOfTicket' /\ LoadingIsAsked'
      BY <2>1, <2>4, <3>1 DEF DetailInv, ChecklistIsOfTicket, LoadingIsAsked
    <3>4. QED BY <2>3, <3>2, <3>3 DEF DetailInv
  <2>5. CASE c.stage # card.stage
    <3>1. ChecklistFor(shown, c, mock)
      BY <1>3, <2>5 DEF Replace
    <3>2. AskedHere' /\ ChecklistIsOfTicket' /\ LoadingIsAsked'
      BY <1>0, <2>1, <3>1, ChecklistAsked
    <3>3. DetailTypeOK'
      BY <1>0, <2>1, <2>2, <3>1, ChecklistAsked DEF DetailTypeOK
    <3>4. QED BY <2>3, <3>2, <3>3 DEF DetailInv
  <2>6. QED BY <2>4, <2>5
<1>4. CASE MockTurns
  <2>1. /\ mock' \in BOOLEAN /\ mock' = ~mock
        /\ UNCHANGED <<turnedTo, shown, card, panel, typed, typedOn, armedOn, adrift>>
    BY <1>0, <1>4 DEF MockTurns, meantVars
  <2>2. DraftIsMine' /\ ConfirmedWhereAsked'
    BY <1>0, <2>1 DEF DraftIsMine, ConfirmedWhereAsked, StaysWith
  <2>3. CASE shown = NoTicket
    <3>1. UNCHANGED <<summary, loading, fetch>>
      BY <1>4, <2>3 DEF MockTurns, requestVars
    <3>2. DetailTypeOK' /\ AskedHere'
      BY <1>0, <2>1, <3>1 DEF DetailInv, DetailTypeOK, AskedHere
    <3>3. QED
      BY <2>1, <2>2, <2>3, <3>1, <3>2 DEF DetailInv, ChecklistIsOfTicket, LoadingIsAsked
  <2>4. CASE shown # NoTicket
    <3>1. shown \in Tickets /\ ChecklistFor(shown, card, ~mock)
      BY <1>0, <1>4, <2>4 DEF MockTurns
    <3>2. AskedHere' /\ ChecklistIsOfTicket' /\ LoadingIsAsked'
      BY <1>0, <2>1, <3>1, ChecklistAsked
    <3>3. DetailTypeOK'
      BY <1>0, <2>1, <3>1, ChecklistAsked DEF DetailTypeOK
    <3>4. QED BY <2>2, <3>2, <3>3 DEF DetailInv
  <2>5. QED BY <2>3, <2>4
<1>5. ASSUME NEW q \in fetch, NEW ok \in BOOLEAN, Summarised(q, ok) PROVE DetailInv'
  <2>1. /\ UNCHANGED <<turnedTo, shown, card, mock, panel, typed, typedOn, armedOn, adrift>>
        /\ fetch' = fetch \ {q}
    BY <1>5 DEF Summarised, meantVars
  <2>2. q \in FetchRecord /\ q.active \in BOOLEAN /\ q.ticket \in Tickets
    BY DEF FetchRecord, DetailInv, DetailTypeOK
  <2>3. AskedHere' /\ fetch' \subseteq FetchRecord
    BY <2>1 DEF DetailInv, AskedHere, DetailTypeOK
  <2>4. DraftIsMine' /\ ConfirmedWhereAsked'
    BY <1>0, <2>1 DEF DraftIsMine, ConfirmedWhereAsked, StaysWith
  <2>5. CASE q.active
    <3>1. loading' = FALSE /\ summary' \in {q.ticket, NoTicket}
      BY <1>5, <2>5 DEF Summarised
    <3>2. q.ticket = shown
      BY <2>5 DEF DetailInv, AskedHere
    <3>3. DetailTypeOK'
      BY <1>0, <2>1, <2>2, <2>3, <3>1 DEF DetailTypeOK
    <3>4. ChecklistIsOfTicket' /\ LoadingIsAsked'
      BY <2>1, <3>1, <3>2 DEF ChecklistIsOfTicket, LoadingIsAsked
    <3>5. QED BY <2>3, <2>4, <3>3, <3>4 DEF DetailInv
  <2>6. CASE ~q.active
    <3>1. UNCHANGED <<summary, loading>>
      BY <1>5, <2>6 DEF Summarised
    <3>2. DetailTypeOK'
      BY <1>0, <2>1, <2>3, <3>1 DEF DetailInv, DetailTypeOK
    <3>3. ChecklistIsOfTicket'
      BY <2>1, <3>1 DEF DetailInv, ChecklistIsOfTicket
    <3>4. [ticket |-> shown, active |-> TRUE] \in fetch
             => [ticket |-> shown, active |-> TRUE] \in fetch'
      BY <2>1, <2>6
    <3>5. LoadingIsAsked'
      BY <2>1, <3>1, <3>4 DEF DetailInv, LoadingIsAsked
    <3>6. QED BY <2>3, <2>4, <3>2, <3>3, <3>5 DEF DetailInv
  <2>7. QED BY <2>2, <2>5, <2>6
<1>6. CASE Edit
  <2>1. /\ AtPanel /\ panel' = [panel EXCEPT !.editing = TRUE]
        /\ typed' = panel.draft /\ typedOn' = Here /\ armedOn' = armedOn
    BY <1>6 DEF Edit
  <2>2. /\ panel' \in PanelRecord /\ panel'.confirm = panel.confirm
        /\ panel'.editing /\ panel'.draft = panel.draft
    BY <1>0, <2>1 DEF PanelRecord
  <2>3. Here \in Intended /\ StaysWith(Here)
    BY <2>1, HereStays DEF AtPanel
  <2>4. QED BY <1>0, <2>1, <2>2, <2>3, PanelStep
<1>7. ASSUME NEW text \in Texts, TypeDraft(text) PROVE DetailInv'
  <2>1. /\ AtPanel /\ panel' = [panel EXCEPT !.draft = text] /\ panel.editing
        /\ typed' = text /\ typedOn' = typedOn /\ armedOn' = armedOn
    BY <1>7 DEF TypeDraft
  <2>2. /\ panel' \in PanelRecord /\ panel'.confirm = panel.confirm
        /\ panel'.editing /\ panel'.draft = text
    BY <1>0, <2>1 DEF PanelRecord
  <2>3. QED BY <1>0, <2>1, <2>2, PanelStep
<1>8. CASE EndEdit
  <2>1. /\ AtPanel /\ panel' = [panel EXCEPT !.editing = FALSE, !.draft = card.text]
        /\ typed' = 0 /\ typedOn' = Nowhere /\ armedOn' = armedOn
    BY <1>8 DEF EndEdit
  <2>2. /\ panel' \in PanelRecord /\ panel'.confirm = panel.confirm
        /\ ~panel'.editing /\ panel'.draft = card.text
    BY <1>0, <2>1 DEF PanelRecord
  <2>3. QED BY <1>0, <2>1, <2>2, PanelStep
<1>9. CASE AskFeedback \/ EndFeedback
  <2>1. /\ AtPanel /\ typed' = typed /\ typedOn' = typedOn /\ armedOn' = armedOn
        /\ \E b \in BOOLEAN: \/ panel' = [panel EXCEPT !.rejecting = b]
                             \/ panel' = [panel EXCEPT !.diffRejecting = b]
    BY <1>9 DEF AskFeedback, EndFeedback, meantVars
  <2>2. /\ panel' \in PanelRecord /\ panel'.confirm = panel.confirm
        /\ panel'.editing = panel.editing /\ panel'.draft = panel.draft
    BY <1>0, <2>1 DEF PanelRecord
  <2>3. QED BY <1>0, <2>1, <2>2, PanelStep
<1>10. ASSUME NEW op \in Questions, Arm(op) PROVE DetailInv'
  <2>1. /\ AtPanel /\ panel' = [panel EXCEPT !.confirm = op]
        /\ typed' = typed /\ typedOn' = typedOn /\ armedOn' = Here
    BY <1>10 DEF Arm
  <2>2. /\ panel' \in PanelRecord /\ panel'.confirm = op
        /\ panel'.editing = panel.editing /\ panel'.draft = panel.draft
    BY <1>0, <2>1 DEF PanelRecord
  <2>3. Here \in Intended /\ StaysWith(Here)
    BY <2>1, HereStays DEF AtPanel
  <2>4. QED BY <1>0, <2>1, <2>2, <2>3, PanelStep
<1>11. CASE Disarm \/ \E op \in Questions: Confirm(op)
  <2>1. /\ AtPanel /\ panel' = [panel EXCEPT !.confirm = "none"]
        /\ typed' = typed /\ typedOn' = typedOn /\ armedOn' = Nowhere
    BY <1>11 DEF Disarm, Confirm
  <2>2. /\ panel' \in PanelRecord /\ panel'.confirm = "none"
        /\ panel'.editing = panel.editing /\ panel'.draft = panel.draft
    BY <1>0, <2>1 DEF PanelRecord
  <2>3. QED BY <1>0, <2>1, <2>2, PanelStep
<1>12. ASSUME NEW o \in Projects, Turn(o) PROVE DetailInv'
  <2>1. /\ UNCHANGED <<shown, card, mock, panel, typed, typedOn, armedOn>>
        /\ UNCHANGED <<summary, loading, fetch>>
        /\ turnedTo' = o /\ adrift' = (shown # NoTicket)
    BY <1>12 DEF Turn, meantVars, requestVars
  <2>2. DetailTypeOK' /\ AskedHere'
    BY <2>1 DEF DetailInv, DetailTypeOK, AskedHere
  <2>3. ChecklistIsOfTicket' /\ LoadingIsAsked'
    BY <2>1 DEF DetailInv, ChecklistIsOfTicket, LoadingIsAsked
  <2>4. CASE shown # NoTicket
    <3>1. DraftIsMine' /\ ConfirmedWhereAsked'
      BY <1>0, <2>1, <2>4 DEF DraftIsMine, ConfirmedWhereAsked, StaysWith
    <3>2. QED BY <2>2, <2>3, <3>1 DEF DetailInv
  <2>5. CASE shown = NoTicket
    <3>1. panel.confirm = "none" /\ ~panel.editing
      BY <2>5 DEF DetailInv, ClosedIsFresh
    <3>2. DraftIsMine' /\ ConfirmedWhereAsked'
      BY <1>0, <2>1, <3>1 DEF DraftIsMine, ConfirmedWhereAsked
    <3>3. QED BY <2>2, <2>3, <3>2 DEF DetailInv
  <2>6. QED BY <2>4, <2>5
<1>13. CASE UNCHANGED detailVars
  BY <1>13 DEF detailVars, meantVars, requestVars, DetailInv, DetailTypeOK, AskedHere,
    DraftIsMine, ChecklistIsOfTicket, ConfirmedWhereAsked, LoadingIsAsked, StaysWith
<1>14. QED
  BY <1>1, <1>2, <1>3, <1>4, <1>5, <1>6, <1>7, <1>8, <1>9, <1>10, <1>11, <1>12, <1>13
  DEF DetailNext

-----------------------------------------------------------------------------
(* The form's target.                                                       *)

AimInv == WebFormTypeOK /\ RepoIsOfTarget /\ DetectingIsAsked

LEMMA AimStart == WebFormInit \/ TargetAside => AimInv
<1> USE DefaultProjectAssumption
<1>1. /\ NoProbe \in ProbeRecord
      /\ \A p \in Projects: [at |-> "sent", of |-> p, live |-> TRUE] \in ProbeRecord
  BY DEF NoProbe, ProbeRecord
<1>2. ASSUME WebFormInit PROVE AimInv
  <2> DEFINE new == [at |-> "sent", of |-> ofBoard, live |-> TRUE]
  <2>1. PICK first \in Calls: probe = [c \in Calls |-> IF c = first THEN new ELSE NoProbe]
    BY <1>2 DEF WebFormInit
  <2>2. new \in ProbeRecord /\ new.live /\ new.of = ofBoard
    BY <1>1, <1>2 DEF WebFormInit
  <2> HIDE DEF new
  <2>3. probe \in [Calls -> ProbeRecord] /\ probe[first] = new
    BY <1>1, <2>1, <2>2
  <2>4. QED
    BY <1>2, <2>2, <2>3 DEF WebFormInit, AimInv, WebFormTypeOK, RepoIsOfTarget, DetectingIsAsked
<1>3. ASSUME TargetAside PROVE AimInv
  BY <1>1, <1>3 DEF TargetAside, AimInv, WebFormTypeOK, RepoIsOfTarget, DetectingIsAsked
<1>4. QED BY <1>2, <1>3

\* The project of the target changes, by hand or with the board.
LEMMA AimTurns ==
  ASSUME AimInv, NEW c \in Calls, NEW p \in Projects, Probed(c, p),
         target' = [target EXCEPT !.project = p, !.repo = p],
         ofBoard' \in Projects, UNCHANGED decomposing
  PROVE  AimInv'
<1> DEFINE new == [at |-> "sent", of |-> p, live |-> TRUE]
<1>1. /\ target' \in [project: Projects, repo: Projects \cup {Typed},
                      command: Projects \cup {Typed, Blank}]
      /\ target'.project = p /\ target'.repo = p
  BY DEF AimInv, WebFormTypeOK
<1>2. /\ probe' \in [Calls -> ProbeRecord] /\ detecting' \in BOOLEAN
      /\ DetectingIsAsked'
  <2>1. CASE p = target.project
    BY <1>1, <2>1 DEF Probed, AimInv, WebFormTypeOK, DetectingIsAsked
  <2>2. CASE p # target.project
    <3>1. /\ ProbesDropped \in [Calls -> ProbeRecord]
          /\ new \in ProbeRecord /\ new.live /\ new.of = p
      BY DEF ProbesDropped, AimInv, WebFormTypeOK, ProbeRecord
    <3>2. probe' = [ProbesDropped EXCEPT ![c] = new] /\ detecting' = TRUE
      BY <2>2 DEF Probed
    <3> HIDE DEF new
    <3>3. probe' \in [Calls -> ProbeRecord] /\ probe'[c] = new
      BY <3>1, <3>2
    <3>4. QED BY <1>1, <3>1, <3>2, <3>3 DEF DetectingIsAsked
  <2>3. QED BY <2>1, <2>2
<1>3. QED BY <1>1, <1>2 DEF AimInv, WebFormTypeOK, RepoIsOfTarget

LEMMA AimStep == AimInv /\ [WebFormNext]_webFormVars => AimInv'
<1> SUFFICES ASSUME AimInv, [WebFormNext]_webFormVars PROVE AimInv'
  OBVIOUS
<1> USE DefaultProjectAssumption
<1>1. ASSUME NEW c \in Calls, NEW p \in Projects, Aim(c, p) \/ BoardTurns(c, p)
      PROVE  AimInv'
  <2>1. /\ Probed(c, p) /\ target' = [target EXCEPT !.project = p, !.repo = p]
        /\ UNCHANGED decomposing /\ ofBoard' \in Projects
    BY <1>1 DEF Aim, BoardTurns, AimInv, WebFormTypeOK
  <2>2. QED BY <2>1, AimTurns
\* What is typed or filled in: the project of the target stays.
<1>2. ASSUME target' \in [project: Projects, repo: Projects \cup {Typed},
                          command: Projects \cup {Typed, Blank}],
             target'.project = target.project, target'.repo \in {target.repo, Typed},
             UNCHANGED <<ofBoard, decomposing, detecting, probe>>
      PROVE  AimInv'
  BY <1>2 DEF AimInv, WebFormTypeOK, RepoIsOfTarget, DetectingIsAsked
<1>3. CASE TypeRepo
  BY <1>2, <1>3 DEF TypeRepo, AimInv, WebFormTypeOK
<1>4. ASSUME NEW text \in {Typed, Blank}, TypeCommand(text) PROVE AimInv'
  BY <1>2, <1>4 DEF TypeCommand, AimInv, WebFormTypeOK
<1>5. CASE SendForm
  BY <1>5 DEF SendForm, AimInv, WebFormTypeOK, RepoIsOfTarget, DetectingIsAsked
<1>6. ASSUME NEW c \in Calls, ServeProbe(c) PROVE AimInv'
  <2>1. PICK at \in {"answered", "failed"}: probe' = [probe EXCEPT ![c].at = at]
    BY <1>6 DEF ServeProbe
  <2> DEFINE e == [probe[c] EXCEPT !.at = at]
  <2>2. e \in ProbeRecord /\ e.live = probe[c].live /\ e.of = probe[c].of
    BY <2>1 DEF AimInv, WebFormTypeOK, ProbeRecord
  <2>3. probe' = [probe EXCEPT ![c] = e]
    BY <2>1
  <2> HIDE DEF e
  <2>4. probe' \in [Calls -> ProbeRecord]
    BY <2>2, <2>3 DEF AimInv, WebFormTypeOK
  <2>5. \A d \in Calls: probe'[d].live = probe[d].live /\ probe'[d].of = probe[d].of
    BY <2>2, <2>3 DEF AimInv, WebFormTypeOK
  <2>6. UNCHANGED <<ofBoard, target, decomposing, detecting>>
    BY <1>6 DEF ServeProbe
  <2>7. QED
    BY <2>4, <2>5, <2>6 DEF AimInv, WebFormTypeOK, RepoIsOfTarget, DetectingIsAsked
<1>7. ASSUME NEW c \in Calls, ProbeDone(c) PROVE AimInv'
  <2>1. /\ probe' = [probe EXCEPT ![c] = NoProbe]
        /\ target' \in {Detected(probe[c].of), target}
        /\ detecting' = (detecting /\ ~probe[c].live)
        /\ UNCHANGED <<ofBoard, decomposing>>
    BY <1>7 DEF ProbeDone
  <2>2. /\ target' \in [project: Projects, repo: Projects \cup {Typed},
                        command: Projects \cup {Typed, Blank}]
        /\ target'.project = target.project /\ target'.repo = target.repo
    BY <2>1, TestedAssumption DEF Detected, AimInv, WebFormTypeOK
  <2>3. NoProbe \in ProbeRecord /\ probe' \in [Calls -> ProbeRecord]
    BY <2>1 DEF NoProbe, ProbeRecord, AimInv, WebFormTypeOK
  <2>4. detecting' \in BOOLEAN
    BY <2>1
  <2>5. DetectingIsAsked'
    BY <2>1, <2>2 DEF DetectingIsAsked, AimInv, WebFormTypeOK
  <2>6. QED BY <2>1, <2>2, <2>3, <2>4, <2>5 DEF AimInv, WebFormTypeOK, RepoIsOfTarget
<1>8. CASE UNCHANGED webFormVars
  BY <1>8 DEF webFormVars, AimInv, WebFormTypeOK, RepoIsOfTarget, DetectingIsAsked
<1>9. QED BY <1>1, <1>3, <1>4, <1>5, <1>6, <1>7, <1>8 DEF WebFormNext

-----------------------------------------------------------------------------
(* The switcher: an open panel of settings is about the project selected,   *)
(* and so is the question it asks, unless an answer turned the page.        *)

PanelIsAbout ==
  switcher.panel = "settings" /\ ~switcher.turned =>
    /\ switcher.of = selectedId
    /\ switcher.confirmDelete => switcher.askedOn = selectedId

ProjectsInv == ProjectsTypeOK /\ PanelIsAbout /\ OrdersAreMeant /\ PanelIsAsked

PanelKinds == {"create", "save", "delete"}

\* The calls of the switcher's panels and of the seeding, as its buttons know them.
Ordered == \E c \in Calls: order[c].kind \in PanelKinds
SeedOrdered == \E c \in Calls: order[c].kind = "seed"

LEMMA ProjectsStart == ProjectsInit \/ ProjectsAside => ProjectsInv
<1> SUFFICES ASSUME ProjectsInit PROVE ProjectsInv
  BY DEF ProjectsAside
<1> USE DemoProjectAssumption
<1>1. NoOrder \in OrderRecord /\ NoOrder.project = NoOrder.meant
  BY DEF NoOrder, OrderRecord
<1>2. /\ ClosedSwitcher \in SwitcherRecord
      /\ ClosedSwitcher.panel = "none" /\ ~ClosedSwitcher.isSaving
  BY DEF ClosedSwitcher, SwitcherRecord
<1>3. QED
  BY <1>1, <1>2 DEF ProjectsInit, ProjectsInv, ProjectsTypeOK, PanelIsAbout, OrdersAreMeant,
    PanelIsAsked

LEMMA PanelCloses ==
  ASSUME NEW s \in SwitcherRecord
  PROVE  /\ NoPanel(s) \in SwitcherRecord
         /\ NoPanel(s).panel = "none" /\ NoPanel(s).isSaving = s.isSaving
BY DemoProjectAssumption DEF NoPanel, SwitcherRecord

LEMMA PanelTurns ==
  ASSUME ProjectsTypeOK, NEW s \in SwitcherRecord, NEW p \in ProjectIds
  PROVE  /\ Turned(s, p) \in SwitcherRecord
         /\ Turned(s, p).isSaving = s.isSaving /\ Turned(s, p).panel = s.panel
         /\ Turned(s, p).of = s.of /\ Turned(s, p).confirmDelete = s.confirmDelete
         /\ Turned(s, p).askedOn = s.askedOn
         /\ s.panel = "settings" /\ ~Turned(s, p).turned => ~s.turned /\ p = selectedId
BY DEF Turned, SwitcherRecord

LEMMA SavingEnds ==
  ASSUME NEW s \in SwitcherRecord, NEW b \in BOOLEAN
  PROVE  LET e == [s EXCEPT !.isSaving = b]
         IN  /\ e \in SwitcherRecord /\ e.isSaving = b
             /\ e.panel = s.panel /\ e.of = s.of /\ e.confirmDelete = s.confirmDelete
             /\ e.askedOn = s.askedOn /\ e.turned = s.turned
BY DEF SwitcherRecord

\* A step of the switcher alone.
LEMMA SwitcherStep ==
  ASSUME ProjectsInv, UNCHANGED <<existing, projects, seeding, order, stray>>,
         selectedId' \in ProjectIds, switcher' \in SwitcherRecord, PanelIsAbout',
         switcher'.isSaving = switcher.isSaving
  PROVE  ProjectsInv'
BY DEF ProjectsInv, ProjectsTypeOK, OrdersAreMeant, PanelIsAsked

\* A call that is made.
LEMMA OrderMade ==
  ASSUME ProjectsInv, NEW c \in Calls, NEW kind \in PanelKinds \cup {"seed"},
         NEW p \in ProjectIds, Order(c, kind, p, p),
         switcher' \in SwitcherRecord, seeding' \in BOOLEAN,
         switcher' = switcher \/ kind \in PanelKinds,
         seeding' = seeding \/ kind = "seed",
         PanelIsAbout'
  PROVE  ProjectsInv'
<1> DEFINE e == [NoOrder EXCEPT !.kind = kind, !.project = p, !.meant = p]
<1>1. e \in OrderRecord /\ e.kind = kind /\ e.project = e.meant
  BY DemoProjectAssumption DEF NoOrder, OrderRecord, PanelKinds
<1>2. order' = [order EXCEPT ![c] = e] /\ order[c] = NoOrder
  BY DEF Order
<1>3. NoOrder.kind = "none"
  BY DEF NoOrder
<1> HIDE DEF e
<1>4. order' \in [Calls -> OrderRecord] /\ order'[c] = e
  BY <1>1, <1>2 DEF ProjectsInv, ProjectsTypeOK
<1>5. \A d \in Calls: d # c => order'[d] = order[d]
  BY <1>2 DEF ProjectsInv, ProjectsTypeOK
<1>6. OrdersAreMeant'
  BY <1>1, <1>4, <1>5 DEF ProjectsInv, OrdersAreMeant
<1>7. UNCHANGED <<existing, projects, selectedId>> /\ stray' \in BOOLEAN
  BY DEF Order, ProjectsInv, ProjectsTypeOK
<1>8. \A d \in Calls: order[d].kind # "none" => order'[d].kind = order[d].kind
  BY <1>2, <1>3, <1>5
<1>9. PanelIsAsked'
  <2>1. Ordered \/ kind \in PanelKinds => Ordered'
    BY <1>1, <1>4, <1>8 DEF Ordered, PanelKinds
  <2>2. SeedOrdered \/ kind = "seed" => SeedOrdered'
    BY <1>1, <1>4, <1>8 DEF SeedOrdered
  <2>3. QED
    BY <2>1, <2>2 DEF ProjectsInv, PanelIsAsked, Ordered, SeedOrdered, PanelKinds
<1>10. QED
  BY <1>4, <1>6, <1>7, <1>9 DEF ProjectsInv, ProjectsTypeOK

\* A call whose state changes in the server.
LEMMA OrderServed ==
  ASSUME ProjectsInv, NEW c \in Calls, NEW e \in OrderRecord,
         order' = [order EXCEPT ![c] = e], e.kind = order[c].kind,
         e.project = order[c].project, e.meant = order[c].meant,
         existing' \subseteq ProjectIds, stray' \in BOOLEAN,
         UNCHANGED <<projects, selectedId, switcher, seeding>>
  PROVE  ProjectsInv'
<1>1. order' \in [Calls -> OrderRecord]
  BY DEF ProjectsInv, ProjectsTypeOK
<1>2. \A d \in Calls: /\ order'[d].kind = order[d].kind
                      /\ order'[d].project = order[d].project /\ order'[d].meant = order[d].meant
  BY DEF ProjectsInv, ProjectsTypeOK
<1>3. OrdersAreMeant' /\ PanelIsAsked' /\ PanelIsAbout'
  BY <1>2 DEF ProjectsInv, OrdersAreMeant, PanelIsAsked, PanelIsAbout
<1>4. QED BY <1>1, <1>3 DEF ProjectsInv, ProjectsTypeOK

\* An answer: the button that waited for it waits no longer.
LEMMA OrderAnswered ==
  ASSUME ProjectsInv, NEW c \in Calls, OrderDone(c), UNCHANGED existing,
         projects' \subseteq ProjectIds, selectedId' \in ProjectIds,
         switcher' \in SwitcherRecord, seeding' \in BOOLEAN, PanelIsAbout',
         switcher'.isSaving => switcher.isSaving /\ order[c].kind \notin PanelKinds,
         seeding' => seeding /\ order[c].kind # "seed"
  PROVE  ProjectsInv'
<1>1. NoOrder \in OrderRecord /\ NoOrder.project = NoOrder.meant
  BY DemoProjectAssumption DEF NoOrder, OrderRecord
<1>2. order' = [order EXCEPT ![c] = NoOrder] /\ UNCHANGED stray
  BY DEF OrderDone
<1>3. /\ order' \in [Calls -> OrderRecord] /\ order'[c] = NoOrder
      /\ \A d \in Calls: d # c => order'[d] = order[d]
  BY <1>1, <1>2 DEF ProjectsInv, ProjectsTypeOK
<1>4. OrdersAreMeant'
  BY <1>1, <1>3 DEF ProjectsInv, OrdersAreMeant
<1>5. Ordered /\ order[c].kind \notin PanelKinds => Ordered'
  BY <1>3 DEF Ordered
<1>6. SeedOrdered /\ order[c].kind # "seed" => SeedOrdered'
  BY <1>3 DEF SeedOrdered
<1>7. PanelIsAsked'
  BY <1>5, <1>6 DEF ProjectsInv, PanelIsAsked, Ordered, SeedOrdered, PanelKinds
<1>8. QED BY <1>2, <1>3, <1>4, <1>7 DEF ProjectsInv, ProjectsTypeOK

LEMMA ProjectsStep == ProjectsInv /\ [ProjectsNext]_projectsVars => ProjectsInv'
<1> SUFFICES ASSUME ProjectsInv, [ProjectsNext]_projectsVars PROVE ProjectsInv'
  OBVIOUS
<1> USE DemoProjectAssumption
<1>1. /\ existing \subseteq ProjectIds /\ projects \subseteq ProjectIds
      /\ selectedId \in ProjectIds /\ switcher \in SwitcherRecord
      /\ order \in [Calls -> OrderRecord]
      /\ switcher.isSaving \in BOOLEAN /\ switcher.of \in ProjectIds
      /\ switcher.askedOn \in ProjectIds
  BY DEF ProjectsInv, ProjectsTypeOK, SwitcherRecord
<1>2. seeding \in BOOLEAN /\ stray \in BOOLEAN
  BY DEF ProjectsInv, ProjectsTypeOK
<1>3. \A c \in Calls: /\ order[c] \in OrderRecord /\ order[c].project \in ProjectIds
                      /\ order[c].list \subseteq ProjectIds
  BY <1>1 DEF OrderRecord
<1>4. ASSUME NEW p \in ProjectIds, SelectProject(p) PROVE ProjectsInv'
  <2>1. /\ UNCHANGED <<existing, projects, seeding, order, stray>>
        /\ selectedId' = p /\ switcher' = NoPanel(switcher)
    BY <1>4 DEF SelectProject
  <2>2. QED BY <1>1, <2>1, PanelCloses, SwitcherStep DEF PanelIsAbout
<1>5. CASE OpenSettings \/ OpenAdd \/ ClosePanels
  <2>1. UNCHANGED <<existing, projects, selectedId, seeding, order, stray>>
    BY <1>5 DEF OpenSettings, OpenAdd, ClosePanels, OnlySwitcher
  <2> DEFINE s == NoPanel(switcher)
  <2>2. s \in SwitcherRecord /\ s.panel = "none" /\ s.isSaving = switcher.isSaving
    BY <1>1, PanelCloses
  <2>3. ~s.confirmDelete
    BY <1>1 DEF NoPanel, SwitcherRecord
  <2>4. \/ switcher' = s
        \/ switcher' = [s EXCEPT !.panel = "settings", !.of = selectedId]
        \/ switcher' = [s EXCEPT !.panel = "add"]
    BY <1>5 DEF OpenSettings, OpenAdd, ClosePanels
  <2> HIDE DEF s
  <2>5. /\ switcher' \in SwitcherRecord /\ switcher'.isSaving = switcher.isSaving
        /\ switcher'.panel = "settings" =>
             switcher'.of = selectedId /\ ~switcher'.confirmDelete
    BY <1>1, <2>2, <2>3, <2>4 DEF SwitcherRecord
  <2>6. PanelIsAbout'
    BY <2>1, <2>5 DEF PanelIsAbout
  <2>7. QED BY <1>1, <2>1, <2>5, <2>6, SwitcherStep
<1>6. CASE AskDelete
  <2>1. /\ UNCHANGED <<existing, projects, selectedId, seeding, order, stray>>
        /\ switcher' = [switcher EXCEPT !.confirmDelete = TRUE, !.askedOn = selectedId]
    BY <1>6 DEF AskDelete, OnlySwitcher
  <2>2. /\ switcher' \in SwitcherRecord /\ switcher'.isSaving = switcher.isSaving
        /\ switcher'.panel = switcher.panel /\ switcher'.of = switcher.of
        /\ switcher'.turned = switcher.turned /\ switcher'.askedOn = selectedId
    BY <1>1, <2>1 DEF SwitcherRecord
  <2>3. PanelIsAbout'
    BY <2>1, <2>2 DEF ProjectsInv, PanelIsAbout
  <2>4. QED BY <1>1, <2>1, <2>2, <2>3, SwitcherStep
<1>7. ASSUME NEW c \in Calls, ServeOrder(c) \/ ServeListing(c) \/ RefuseOrder(c)
      PROVE  ProjectsInv'
  <2>1. /\ UNCHANGED <<projects, selectedId, switcher, seeding>>
        /\ existing' \subseteq ProjectIds /\ stray' \in BOOLEAN
    BY <1>1, <1>2, <1>3, <1>7 DEF ServeOrder, ServeListing, RefuseOrder
  <2>2. PICK at \in {"again", "answered", "refused"}, list \in SUBSET ProjectIds:
          order' = [order EXCEPT ![c] = [order[c] EXCEPT !.at = at, !.list = list]]
    <3>1. CASE ServeOrder(c)
      <4>1. PICK at \in {"again", "answered"}: order' = [order EXCEPT ![c].at = at]
        BY <3>1 DEF ServeOrder
      <4>2. [order[c] EXCEPT !.at = at] = [order[c] EXCEPT !.at = at, !.list = order[c].list]
        BY <1>3 DEF OrderRecord
      <4>3. QED BY <1>3, <4>1, <4>2
    <3>2. CASE ServeListing(c)
      BY <1>1, <3>2 DEF ServeListing
    <3>3. CASE RefuseOrder(c)
      BY <3>3 DEF RefuseOrder
    <3>4. QED BY <1>7, <3>1, <3>2, <3>3
  <2> DEFINE e == [order[c] EXCEPT !.at = at, !.list = list]
  <2>3. /\ e \in OrderRecord /\ e.kind = order[c].kind
        /\ e.project = order[c].project /\ e.meant = order[c].meant
    BY <1>3 DEF OrderRecord
  <2>4. order' = [order EXCEPT ![c] = e]
    BY <2>2
  <2> HIDE DEF e
  <2>5. QED BY <2>1, <2>3, <2>4, OrderServed
<1>8. ASSUME NEW c \in Calls, PanelWaits, NEW kind \in PanelKinds, NEW p \in ProjectIds,
             Order(c, kind, p, p)
      PROVE  ProjectsInv'
  <2>1. switcher' = [switcher EXCEPT !.isSaving = TRUE] /\ UNCHANGED seeding
    BY <1>8 DEF PanelWaits
  <2>2. UNCHANGED selectedId
    BY <1>8 DEF Order
  <2>3. switcher' \in SwitcherRecord /\ PanelIsAbout'
    BY <1>1, <2>1, <2>2, SavingEnds DEF ProjectsInv, PanelIsAbout
  <2>4. QED BY <1>2, <1>8, <2>1, <2>3, OrderMade
<1>9. ASSUME NEW c \in Calls, NEW p \in ProjectIds, CreateProject(c, p) PROVE ProjectsInv'
  BY <1>8, <1>9 DEF CreateProject, PanelKinds
<1>10. ASSUME NEW c \in Calls, SaveProject(c) PROVE ProjectsInv'
  <2>1. Meant(switcher.of) = selectedId
    BY <1>10 DEF SaveProject, AtSettings, Meant, ProjectsInv, PanelIsAbout
  <2>2. QED BY <1>1, <1>8, <1>10, <2>1 DEF SaveProject, PanelKinds
<1>11. ASSUME NEW c \in Calls, DeleteProject(c) PROVE ProjectsInv'
  <2>1. Meant(switcher.askedOn) = selectedId
    BY <1>11 DEF DeleteProject, AtSettings, Meant, ProjectsInv, PanelIsAbout
  <2>2. QED BY <1>1, <1>8, <1>11, <2>1 DEF DeleteProject, PanelKinds
<1>12. ASSUME NEW c \in Calls, SeedDemo(c) PROVE ProjectsInv'
  <2>1. /\ Order(c, "seed", DemoProject, DemoProject) /\ UNCHANGED switcher
        /\ seeding' = TRUE
    BY <1>12 DEF SeedDemo
  <2>2. PanelIsAbout'
    BY <2>1 DEF Order, ProjectsInv, PanelIsAbout
  <2>3. QED BY <1>1, <2>1, <2>2, OrderMade
<1> DEFINE free == [switcher EXCEPT !.isSaving = FALSE]
<1>13. /\ free \in SwitcherRecord /\ ~free.isSaving
       /\ free.panel = switcher.panel /\ free.of = switcher.of
       /\ free.confirmDelete = switcher.confirmDelete
       /\ free.askedOn = switcher.askedOn /\ free.turned = switcher.turned
  BY <1>1, SavingEnds
<1> HIDE DEF free
<1>14. ASSUME NEW c \in Calls, Created(c) PROVE ProjectsInv'
  <2>1. /\ OrderDone(c) /\ UNCHANGED <<existing, seeding>> /\ order[c].kind = "create"
        /\ projects' = projects \cup {order[c].project} /\ selectedId' = order[c].project
        /\ switcher' = IF free.panel = "add" THEN NoPanel(free)
                       ELSE Turned(free, order[c].project)
    BY <1>14 DEF Created, Answered, free
  <2>2. /\ switcher' \in SwitcherRecord /\ ~switcher'.isSaving
    <3>1. NoPanel(free) \in SwitcherRecord /\ ~NoPanel(free).isSaving
      BY <1>13, PanelCloses
    <3>2. /\ Turned(free, order[c].project) \in SwitcherRecord
          /\ ~Turned(free, order[c].project).isSaving
      BY SMTT(30), <1>3, <1>13, PanelTurns DEF ProjectsInv
    <3>3. QED BY <2>1, <3>1, <3>2
  <2>3. PanelIsAbout'
    <3>1. CASE free.panel = "add"
      BY <1>13, <2>1, <3>1, PanelCloses DEF PanelIsAbout
    <3>2. CASE free.panel # "add"
      BY SMTT(40), <1>3, <1>13, <2>1, <3>2, PanelTurns DEF ProjectsInv, PanelIsAbout
    <3>3. QED BY <3>1, <3>2
  <2>4. QED BY <1>1, <1>2, <1>3, <2>1, <2>2, <2>3, OrderAnswered
<1>15. ASSUME NEW c \in Calls, ProjectSaved(c) PROVE ProjectsInv'
  <2>1. /\ OrderDone(c) /\ order[c].kind = "save"
        /\ UNCHANGED <<existing, projects, selectedId, seeding>>
        /\ switcher' = IF free.panel = "settings" THEN NoPanel(free) ELSE free
    BY <1>15 DEF ProjectSaved, Answered, free
  <2>2. /\ switcher' \in SwitcherRecord /\ ~switcher'.isSaving
        /\ switcher'.panel # "settings"
    BY <1>13, <2>1, PanelCloses
  <2>3. QED BY <1>1, <1>2, <2>1, <2>2, OrderAnswered DEF PanelIsAbout
<1>16. ASSUME NEW c \in Calls, Deleted(c) PROVE ProjectsInv'
  <2>1. /\ OrderDone(c) /\ order[c].kind = "delete" /\ UNCHANGED <<existing, seeding>>
        /\ projects' = projects \ {order[c].project} /\ switcher' = NoPanel(free)
        /\ selectedId' \in projects' \cup {DefaultProject, selectedId}
    BY <1>16 DEF Deleted, Answered, free
  <2>2. selectedId' \in ProjectIds /\ projects' \subseteq ProjectIds
    BY <1>1, <2>1
  <2>3. /\ switcher' \in SwitcherRecord /\ ~switcher'.isSaving
        /\ switcher'.panel # "settings"
    BY <1>13, <2>1, PanelCloses
  <2>4. QED BY <1>2, <2>1, <2>2, <2>3, OrderAnswered DEF PanelIsAbout
<1>17. ASSUME NEW c \in Calls, Seeded(c) PROVE ProjectsInv'
  <2>1. /\ OrderDone(c) /\ order[c].kind = "seed" /\ UNCHANGED existing
        /\ projects' = order[c].list /\ selectedId' = DemoProject
        /\ switcher' = Turned(switcher, DemoProject) /\ seeding' = FALSE
    BY <1>17 DEF Seeded, Answered
  <2>2. /\ switcher' \in SwitcherRecord /\ switcher'.isSaving = switcher.isSaving
        /\ switcher'.panel = switcher.panel /\ switcher'.of = switcher.of
        /\ switcher'.confirmDelete = switcher.confirmDelete
        /\ switcher'.askedOn = switcher.askedOn
        /\ switcher.panel = "settings" /\ ~switcher'.turned =>
             ~switcher.turned /\ DemoProject = selectedId
    BY <1>1, <2>1, PanelTurns DEF ProjectsInv
  <2>3. PanelIsAbout'
    BY <2>1, <2>2 DEF ProjectsInv, PanelIsAbout
  <2>4. "seed" \notin PanelKinds
    BY DEF PanelKinds
  <2>5. QED BY <1>3, <2>1, <2>2, <2>3, <2>4, OrderAnswered
<1>18. ASSUME NEW c \in Calls, OrderFailed(c) PROVE ProjectsInv'
  <2>1. /\ OrderDone(c) /\ UNCHANGED <<existing, projects, selectedId>>
        /\ IF order[c].kind = "seed" THEN seeding' = FALSE /\ switcher' = switcher
           ELSE switcher' = free /\ seeding' = seeding
    BY <1>18 DEF OrderFailed, free
  <2>2. switcher' \in SwitcherRecord /\ seeding' \in BOOLEAN
    BY <1>1, <1>2, <1>13, <2>1
  <2>3. PanelIsAbout'
    BY <1>13, <2>1 DEF ProjectsInv, PanelIsAbout
  <2>4. "seed" \notin PanelKinds
    BY DEF PanelKinds
  <2>5. switcher'.isSaving => switcher.isSaving /\ order[c].kind \notin PanelKinds
    BY <1>13, <2>1, <2>4
  <2>6. seeding' => seeding /\ order[c].kind # "seed"
    BY <2>1
  <2>7. QED BY <1>1, <2>1, <2>2, <2>3, <2>5, <2>6, OrderAnswered
<1>19. CASE UNCHANGED projectsVars
  BY <1>19 DEF projectsVars, ProjectsInv, ProjectsTypeOK, PanelIsAbout, OrdersAreMeant,
    PanelIsAsked
<1>20. QED
  BY <1>4, <1>5, <1>6, <1>7, <1>9, <1>10, <1>11, <1>12, <1>14, <1>15, <1>16, <1>17, <1>18,
    <1>19 DEF ProjectsNext

-----------------------------------------------------------------------------
(* The inbox: a notification that is being opened will be taken to be of a  *)
(* project other than the page's or of the page's, as it was when it was    *)
(* pressed, unless the project changed since.                               *)

OpenedFrom ==
  ~strayed => \A c \in Calls: look[c].kind = "open" => look[c].home = home

\* What is marked exists, for the id came from a list; what is unread is listed.
MarksListed ==
  \A c \in Calls: /\ look[c].kind \in {"read", "open"} => look[c].note \in NoteIds
                  /\ look[c].unread \subseteq look[c].ids

InboxInv == InboxTypeOK /\ MarksListed /\ OpenedFrom /\ OpensItsProject

LEMMA InboxStart == InboxInit \/ InboxAside => InboxInv
<1> SUFFICES ASSUME InboxInit PROVE InboxInv
  BY DEF InboxAside
<1> USE DefaultProjectAssumption
<1>1. NoLook \in LookRecord /\ NoLook.kind = "none" /\ NoLook.unread = {}
  BY DEF NoLook, LookRecord, NoteRange
<1>2. inbox = [ids |-> {}, unread |-> {}, demo |-> FALSE, open |-> FALSE]
  BY DEF InboxInit, NoList
<1>3. /\ look \in [Calls -> LookRecord]
      /\ \A c \in Calls: look[c].kind = "none" /\ look[c].unread = {}
      /\ inbox \in InboxRecord /\ inbox.unread \subseteq inbox.ids
  <2>1. look = [c \in Calls |-> NoLook]
    BY DEF InboxInit
  <2>2. /\ look \in [Calls -> LookRecord]
        /\ \A c \in Calls: look[c].kind = "none" /\ look[c].unread = {}
    BY <1>1, <2>1
  <2>3. inbox \in InboxRecord /\ inbox.unread \subseteq inbox.ids
    BY <1>2 DEF InboxRecord
  <2>4. QED BY <2>2, <2>3
<1>4. /\ marking \in [note: NoteRange, all: BOOLEAN]
      /\ landed \in [note: NoteRange, of: Projects] /\ landed.note = None
  BY DEF InboxInit, NoLanding, NoteRange
<1>5. InboxTypeOK
  BY <1>3, <1>4 DEF InboxInit, InboxTypeOK
<1>6. QED
  BY <1>3, <1>4, <1>5 DEF InboxInv, MarksListed, OpenedFrom, OpensItsProject

\* A step that is not of the page's project: calls go on, begin or end, but
\* none begins to open.
LEMMA CallsStep ==
  ASSUME InboxInv,
         noteOf' \in [NoteIds -> Projects \cup {NoOne}],
         readNotes' \subseteq {n \in NoteIds: noteOf'[n] # NoOne},
         UNCHANGED <<home, landed, strayed>>,
         scope' \in {"project", "all"}, inbox' \in InboxRecord,
         inbox'.unread \subseteq inbox'.ids,
         marking' \in [note: NoteRange, all: BOOLEAN],
         look' \in [Calls -> LookRecord], MarksListed',
         \A c \in Calls: look'[c].kind = "open" =>
           look'[c].home = home \/ (look[c].kind = "open" /\ look'[c].home = look[c].home)
  PROVE  InboxInv'
<1>1. InboxTypeOK'
  BY DEF InboxInv, InboxTypeOK
<1>2. OpenedFrom' /\ OpensItsProject'
  BY DEF InboxInv, OpenedFrom, OpensItsProject
<1>3. QED BY <1>1, <1>2 DEF InboxInv

\* A call in the server.
LEMMA LookServed ==
  ASSUME InboxInv, NEW c \in Calls, NEW e \in LookRecord,
         look' = [look EXCEPT ![c] = e], e.kind = look[c].kind,
         e.note = look[c].note, e.home = look[c].home, e.unread \subseteq e.ids
  PROVE  /\ look' \in [Calls -> LookRecord] /\ MarksListed'
         /\ \A d \in Calls: look'[d].kind = look[d].kind /\ look'[d].home = look[d].home
BY DEF InboxInv, InboxTypeOK, MarksListed

\* A call that ends.
LEMMA LookEnds ==
  ASSUME InboxInv, NEW c \in Calls, LookOver(c)
  PROVE  /\ look' \in [Calls -> LookRecord] /\ MarksListed'
         /\ \A d \in Calls: look'[d].kind = "open" =>
              look[d].kind = "open" /\ look'[d].home = look[d].home
<1>1. NoLook \in LookRecord /\ NoLook.kind = "none" /\ NoLook.unread = {}
  BY DefaultProjectAssumption DEF NoLook, LookRecord, NoteRange
<1>2. look' = [look EXCEPT ![c] = NoLook]
  BY DEF LookOver
<1>3. look' \in [Calls -> LookRecord] /\ look'[c].kind = "none" /\ look'[c].unread = {}
  BY <1>1, <1>2 DEF InboxInv, InboxTypeOK
<1>4. \A d \in Calls: d # c => look'[d] = look[d]
  BY <1>2 DEF InboxInv, InboxTypeOK
<1>5. QED BY <1>3, <1>4 DEF InboxInv, MarksListed

\* A call that begins.
LEMMA LookBegins ==
  ASSUME InboxInv, NEW c \in Calls, NEW kind \in {"load", "read", "open", "markAll"},
         NEW n \in NoteRange, kind \in {"read", "open"} => n \in NoteIds,
         NEW of \in Projects, Begin(c, kind, n, of),
         home' \in Projects, scope' \in {"project", "all"}
  PROVE  /\ look' \in [Calls -> LookRecord] /\ MarksListed'
         /\ look'[c].kind = kind /\ look'[c].home = home'
         /\ \A d \in Calls: d # c => look'[d] = look[d]
<1> DEFINE e == [NoLook EXCEPT !.kind = kind, !.note = n, !.of = of,
                               !.home = home', !.scope = scope']
<1>1. /\ e \in LookRecord /\ e.kind = kind /\ e.home = home' /\ e.note = n
      /\ e.unread = {}
  BY DefaultProjectAssumption DEF NoLook, LookRecord
<1>2. look' = [look EXCEPT ![c] = e]
  BY DEF Begin
<1> HIDE DEF e
<1>3. look' \in [Calls -> LookRecord] /\ look'[c] = e
  BY <1>1, <1>2 DEF InboxInv, InboxTypeOK
<1>4. \A d \in Calls: d # c => look'[d] = look[d]
  BY <1>2 DEF InboxInv, InboxTypeOK
<1>5. QED BY <1>1, <1>3, <1>4 DEF InboxInv, MarksListed

\* The page turns to a notification's ticket.
LEMMA Landed ==
  ASSUME InboxInv, NEW calls \in [Calls -> LookRecord],
         \A c \in Calls: /\ calls[c].kind \in {"read", "open"} => calls[c].note \in NoteIds
                         /\ calls[c].unread \subseteq calls[c].ids,
         NEW n \in NoteIds, NEW of \in Projects, NEW was,
         Land(n, of, was, calls), UNCHANGED <<noteOf, readNotes>>,
         strayed' \in BOOLEAN,
         ~strayed' => was = home,
         ~strayed' => \A c \in Calls: calls[c].kind = "open" => calls[c].home = home'
  PROVE  InboxInv'
<1>1. /\ home' = IF of # was THEN of ELSE home
      /\ landed' = [note |-> n, of |-> of] /\ inbox' = [NoList EXCEPT !.open = FALSE]
      /\ scope' = "project" /\ marking' = [note |-> None, all |-> FALSE]
      /\ look' = Left(calls)
  BY DEF Land
<1>2. NoLook \in LookRecord /\ NoLook.kind = "none" /\ NoLook.unread = {}
  BY DefaultProjectAssumption DEF NoLook, LookRecord, NoteRange
<1>3. ASSUME NEW c \in Calls
      PROVE  /\ look'[c] \in LookRecord
             /\ look'[c].unread \subseteq look'[c].ids
             /\ look'[c].kind = "none" \/
                  (/\ look'[c].kind = calls[c].kind /\ look'[c].note = calls[c].note
                   /\ look'[c].home = calls[c].home)
  <2>1. CASE calls[c].kind \in {"load", "none"}
    BY <1>1, <1>2, <2>1 DEF Left
  <2>2. CASE calls[c].kind \notin {"load", "none"}
    <3>1. look'[c] = [calls[c] EXCEPT !.seen = FALSE]
      BY <1>1, <2>2 DEF Left
    <3>2. calls[c] \in LookRecord
      OBVIOUS
    <3>3. QED BY <3>1, <3>2 DEF LookRecord
  <2>3. QED BY <2>1, <2>2
<1>4. look' \in [Calls -> LookRecord]
  BY <1>1, <1>3 DEF Left
<1>5. MarksListed' /\ OpenedFrom'
  BY <1>3 DEF MarksListed, OpenedFrom
<1>6. OpensItsProject' /\ home' \in Projects
  BY <1>1 DEF OpensItsProject, InboxInv, InboxTypeOK
<1>7. inbox' \in InboxRecord /\ inbox'.unread \subseteq inbox'.ids
  BY <1>1 DEF NoList, InboxRecord
<1>8. landed' \in [note: NoteRange, of: Projects] /\ marking' \in [note: NoteRange, all: BOOLEAN]
  BY <1>1 DEF NoteRange
<1>9. QED
  BY <1>1, <1>4, <1>5, <1>6, <1>7, <1>8 DEF InboxInv, InboxTypeOK

LEMMA InboxStep == InboxInv /\ [InboxNext]_inboxVars => InboxInv'
<1> SUFFICES ASSUME InboxInv, [InboxNext]_inboxVars PROVE InboxInv'
  OBVIOUS
<1> USE DefaultProjectAssumption
<1>1. /\ noteOf \in [NoteIds -> Projects \cup {NoOne}]
      /\ readNotes \subseteq {n \in NoteIds: noteOf[n] # NoOne}
      /\ home \in Projects /\ scope \in {"project", "all"}
      /\ inbox \in InboxRecord /\ inbox.unread \subseteq inbox.ids
      /\ inbox.ids \subseteq NoteIds /\ inbox.unread \subseteq NoteIds
      /\ look \in [Calls -> LookRecord] /\ MarksListed
  BY DEF InboxInv, InboxTypeOK, InboxRecord
<1>2. /\ marking \in [note: NoteRange, all: BOOLEAN]
      /\ strayed \in BOOLEAN /\ landed \in [note: NoteRange, of: Projects]
  BY DEF InboxInv, InboxTypeOK
<1>3. /\ None \in NoteRange /\ NoteIds \subseteq NoteRange
      /\ NoLanding \in [note: NoteRange, of: Projects] /\ NoLanding.note = None
      /\ NoList \in InboxRecord /\ NoList.unread \subseteq NoList.ids
  BY DEF NoteRange, NoLanding, NoList, InboxRecord
<1>4. \A c \in Calls: /\ look[c] \in LookRecord /\ look[c].of \in Projects
                      /\ look[c].ids \subseteq NoteIds /\ look[c].unread \subseteq NoteIds
                      /\ look[c].seen \in BOOLEAN
  BY <1>1 DEF LookRecord
\* The server.
<1>5. ASSUME NEW n \in NoteIds, NEW p \in Projects, RecordNote(n, p) PROVE InboxInv'
  <2>1. /\ noteOf[n] = NoOne /\ noteOf' = [noteOf EXCEPT ![n] = p]
        /\ UNCHANGED <<readNotes, look, home, scope, inbox, marking, landed, strayed>>
    BY <1>5 DEF RecordNote, OnlyServer
  <2>2. noteOf' \in [NoteIds -> Projects \cup {NoOne}]
    BY <1>1, <2>1
  <2>3. readNotes' \subseteq {m \in NoteIds: noteOf'[m] # NoOne}
    BY <1>1, <2>1
  <2>4. MarksListed'
    BY <1>1, <2>1 DEF MarksListed
  <2>5. QED BY <1>1, <1>2, <2>1, <2>2, <2>3, <2>4, CallsStep
<1>6. ASSUME NEW c \in Calls, NEW at \in {"again", "answered", "failed"},
             NEW ids \in SUBSET NoteIds, NEW unread \in SUBSET ids,
             look' = [look EXCEPT ![c] = [look[c] EXCEPT !.at = at, !.ids = ids,
                                                         !.unread = unread]],
             readNotes' \subseteq {n \in NoteIds: noteOf[n] # NoOne},
             UNCHANGED noteOf, OnlyServer
      PROVE  InboxInv'
  <2> DEFINE e == [look[c] EXCEPT !.at = at, !.ids = ids, !.unread = unread]
  <2>1. /\ e \in LookRecord /\ e.kind = look[c].kind /\ e.note = look[c].note
        /\ e.home = look[c].home /\ e.unread \subseteq e.ids
    BY <1>4 DEF LookRecord
  <2>2. look' = [look EXCEPT ![c] = e]
    BY <1>6
  <2> HIDE DEF e
  <2>3. /\ look' \in [Calls -> LookRecord] /\ MarksListed'
        /\ \A d \in Calls: look'[d].kind = look[d].kind /\ look'[d].home = look[d].home
    BY <2>1, <2>2, LookServed
  <2>4. UNCHANGED <<home, scope, inbox, marking, landed, strayed>>
    BY <1>6 DEF OnlyServer
  <2>5. QED BY <1>1, <1>2, <1>6, <2>3, <2>4, CallsStep
<1>7. ASSUME NEW s, NEW p PROVE InScope(s, p) \in SUBSET {n \in NoteIds: noteOf[n] # NoOne}
  BY DEF InScope
<1>8. ASSUME NEW c \in Calls, ServeInbox(c) \/ ServeInboxAgain(c) PROVE InboxInv'
  <2> DEFINE ids == InScope(look[c].scope, look[c].home)
  <2>1. look' = [look EXCEPT ![c] = [look[c] EXCEPT !.at = "answered", !.ids = ids,
                                                    !.unread = ids \ readNotes]]
    BY <1>8 DEF ServeInbox, ServeInboxAgain, InboxAnswer
  <2>2. UNCHANGED <<noteOf, readNotes>> /\ OnlyServer
    BY <1>8 DEF ServeInbox, ServeInboxAgain
  <2>3. ids \in SUBSET NoteIds /\ ids \ readNotes \in SUBSET ids
    BY <1>7
  <2> HIDE DEF ids
  <2>4. readNotes' \subseteq {n \in NoteIds: noteOf[n] # NoOne}
    BY <1>1, <2>2
  <2>5. QED BY <1>6, <2>1, <2>2, <2>3, <2>4
<1>9. ASSUME NEW c \in Calls, MarkRead(c) PROVE InboxInv'
  <2> DEFINE n == look[c].note
  <2>1. n \in NoteIds /\ noteOf[n] # NoOne /\ readNotes' = readNotes \cup {n}
    BY <1>1, <1>9 DEF MarkRead, MarksListed
  <2>2. /\ look' = [look EXCEPT ![c] = [look[c] EXCEPT !.at = "answered", !.ids = {n},
                                                       !.unread = {n} \ readNotes']]
        /\ UNCHANGED noteOf /\ OnlyServer
    BY <1>9 DEF MarkRead, InboxAnswer
  <2> HIDE DEF n
  <2>3. readNotes' \subseteq {m \in NoteIds: noteOf[m] # NoOne}
    BY <1>1, <2>1
  <2>4. {n} \in SUBSET NoteIds /\ {n} \ readNotes' \in SUBSET {n}
    BY <2>1
  <2>5. QED BY <1>6, <2>2, <2>3, <2>4
<1>10. ASSUME NEW c \in Calls, MarkAllRead(c) PROVE InboxInv'
  <2>1. /\ readNotes' = readNotes \cup InScope(look[c].scope, look[c].home)
        /\ look' = [look EXCEPT ![c].at = "again"] /\ UNCHANGED noteOf /\ OnlyServer
    BY <1>10 DEF MarkAllRead
  <2>2. readNotes' \subseteq {n \in NoteIds: noteOf[n] # NoOne}
    BY <1>1, <1>7, <2>1
  <2>3. [look[c] EXCEPT !.at = "again"]
          = [look[c] EXCEPT !.at = "again", !.ids = look[c].ids, !.unread = look[c].unread]
    BY <1>4 DEF LookRecord
  <2>4. look' = [look EXCEPT ![c] = [look[c] EXCEPT !.at = "again", !.ids = look[c].ids,
                                                    !.unread = look[c].unread]]
    BY <2>1, <2>3
  <2>5. look[c].ids \in SUBSET NoteIds /\ look[c].unread \in SUBSET look[c].ids
    BY <1>1, <1>4 DEF MarksListed
  <2>6. PICK ids \in SUBSET NoteIds: \E unread \in SUBSET ids:
          look' = [look EXCEPT ![c] = [look[c] EXCEPT !.at = "again", !.ids = ids,
                                                      !.unread = unread]]
    BY <2>4, <2>5
  <2>7. QED BY <1>6, <2>1, <2>2, <2>6
<1>11. ASSUME NEW c \in Calls, FailLook(c) PROVE InboxInv'
  <2>1. /\ look' = [look EXCEPT ![c] = [look[c] EXCEPT !.at = "failed", !.ids = {}, !.unread = {}]]
        /\ UNCHANGED <<noteOf, readNotes>> /\ OnlyServer
    BY <1>11 DEF FailLook
  <2>2. readNotes' \subseteq {n \in NoteIds: noteOf[n] # NoOne}
    BY <1>1, <2>1
  <2>3. {} \in SUBSET NoteIds /\ {} \in SUBSET {}
    OBVIOUS
  <2>4. QED BY <1>6, <2>1, <2>2, <2>3
\* The page: calls that begin.
<1>12. ASSUME NEW c \in Calls, NEW kind \in {"load", "read", "open", "markAll"},
              NEW n \in NoteRange, kind \in {"read", "open"} => n \in NoteIds,
              NEW of \in Projects, UNCHANGED home, Begin(c, kind, n, of),
              scope' \in {"project", "all"},
              inbox' \in InboxRecord, inbox'.unread \subseteq inbox'.ids,
              marking' \in [note: NoteRange, all: BOOLEAN],
              UNCHANGED <<noteOf, readNotes, landed, strayed>>
       PROVE  InboxInv'
  <2>1. /\ look' \in [Calls -> LookRecord] /\ MarksListed'
        /\ look'[c].kind = kind /\ look'[c].home = home'
        /\ \A d \in Calls: d # c => look'[d] = look[d]
    BY <1>1, <1>12, LookBegins
  <2>2. \A d \in Calls: look'[d].kind = "open" =>
          look'[d].home = home \/ (look[d].kind = "open" /\ look'[d].home = look[d].home)
    BY <1>12, <2>1
  <2>3. QED BY <1>1, <1>12, <2>1, <2>2, CallsStep
<1>13. ASSUME NEW c \in Calls, LoadInbox(c) PROVE InboxInv'
  BY <1>1, <1>2, <1>3, <1>12, <1>13 DEF LoadInbox
<1>14. ASSUME NEW c \in Calls, NEW s \in {"project", "all"}, ChooseScope(c, s) PROVE InboxInv'
  BY <1>1, <1>2, <1>3, <1>12, <1>14 DEF ChooseScope
<1>15. ASSUME NEW c \in Calls, NEW n \in NoteIds, NEW p \in Projects,
              PressRead(c, n, p) \/ PressUnread(c, n, p)
       PROVE  InboxInv'
  <2>1. PICK kind \in {"read", "open"}: Begin(c, kind, n, p)
    BY <1>15 DEF PressRead, PressUnread
  <2>2. marking' = [marking EXCEPT !.note = n] /\ UNCHANGED <<home, scope>>
    BY <1>15 DEF PressRead, PressUnread
  <2>3. UNCHANGED <<noteOf, readNotes, inbox, landed, strayed>>
    BY <1>15 DEF PressRead, PressUnread
  <2>4. marking' \in [note: NoteRange, all: BOOLEAN]
    BY <1>2, <1>3, <2>2
  <2>5. QED BY <1>1, <1>3, <1>12, <2>1, <2>2, <2>3, <2>4
<1>16. ASSUME NEW c \in Calls, MarkAll(c) PROVE InboxInv'
  <2>1. /\ marking' = [marking EXCEPT !.all = TRUE] /\ UNCHANGED <<home, scope>>
        /\ Begin(c, "markAll", None, DefaultProject)
        /\ UNCHANGED <<noteOf, readNotes, inbox, landed, strayed>>
    BY <1>16 DEF MarkAll
  <2>2. marking' \in [note: NoteRange, all: BOOLEAN]
    BY <1>2, <2>1
  <2>3. QED BY <1>1, <1>3, <1>12, <2>1, <2>2
\* The page: it turns.
<1>17. ASSUME NEW c \in Calls, OpenInbox(c) PROVE InboxInv'
  <2>1. /\ UNCHANGED <<noteOf, readNotes, marking, home>> /\ scope' = "project"
        /\ Begin(c, "load", None, DefaultProject) /\ inbox' = NoList
        /\ landed' = NoLanding /\ strayed' = (strayed /\ Opening)
    BY <1>17 DEF OpenInbox
  <2>2. /\ look' \in [Calls -> LookRecord] /\ MarksListed' /\ look'[c].kind = "load"
        /\ \A d \in Calls: d # c => look'[d] = look[d]
    BY <1>1, <1>3, <2>1, LookBegins
  <2>3. OpenedFrom'
    BY <2>1, <2>2 DEF InboxInv, OpenedFrom, Opening
  <2>4. OpensItsProject' /\ strayed' \in BOOLEAN
    BY <1>3, <2>1 DEF OpensItsProject
  <2>5. InboxTypeOK'
    BY <1>1, <1>2, <1>3, <2>1, <2>2, <2>4 DEF InboxTypeOK
  <2>6. QED BY <2>2, <2>3, <2>4, <2>5 DEF InboxInv
<1>18. ASSUME NEW c \in Calls, NEW p \in Projects, ChangeProject(c, p) PROVE InboxInv'
  <2>1. /\ UNCHANGED <<noteOf, readNotes, inbox, marking, scope>> /\ home' = p
        /\ landed' = NoLanding /\ strayed' = (strayed \/ Opening)
        /\ Begin(c, "load", None, DefaultProject) \/ UNCHANGED look
    BY <1>18 DEF ChangeProject
  <2>2. /\ look' \in [Calls -> LookRecord] /\ MarksListed'
        /\ \A d \in Calls: look'[d].kind = "open" => look[d].kind = "open"
    <3>1. CASE Begin(c, "load", None, DefaultProject)
      <4>1. /\ look' \in [Calls -> LookRecord] /\ MarksListed' /\ look'[c].kind = "load"
            /\ \A d \in Calls: d # c => look'[d] = look[d]
        BY <1>1, <1>3, <2>1, <3>1, LookBegins
      <4>2. QED BY <4>1
    <3>2. CASE UNCHANGED look
      BY <1>1, <3>2 DEF MarksListed
    <3>3. QED BY <2>1, <3>1, <3>2
  <2>3. OpenedFrom'
    BY <2>1, <2>2 DEF OpenedFrom, Opening
  <2>4. OpensItsProject' /\ strayed' \in BOOLEAN
    BY <1>2, <1>3, <2>1 DEF OpensItsProject
  <2>5. InboxTypeOK'
    BY <1>1, <1>2, <1>3, <2>1, <2>2, <2>4 DEF InboxTypeOK
  <2>6. QED BY <2>2, <2>3, <2>4, <2>5 DEF InboxInv
<1>19. ASSUME NEW n \in NoteIds, NEW p \in Projects, PressOpened(n, p) PROVE InboxInv'
  <2>1. /\ Land(n, p, home, look) /\ UNCHANGED <<noteOf, readNotes>>
        /\ strayed' = (strayed \/ (Opening /\ p # home))
    BY <1>19 DEF PressOpened
  <2>2. home' = p
    BY <2>1 DEF Land
  <2>3. ~strayed' => \A c \in Calls: look[c].kind = "open" => look[c].home = home'
    BY <2>1, <2>2 DEF Opening, InboxInv, OpenedFrom
  <2>4. strayed' \in BOOLEAN
    BY <1>2, <2>1
  <2>5. QED BY <1>1, <2>1, <2>3, <2>4, Landed DEF MarksListed
<1>20. ASSUME NEW c \in Calls, NoteOpens(c) PROVE InboxInv'
  <2> DEFINE calls == [look EXCEPT ![c] = NoLook]
  <2>1. /\ look[c].kind = "open" /\ Land(look[c].note, look[c].of, look[c].home, calls)
        /\ UNCHANGED <<noteOf, readNotes>>
        /\ strayed' = (strayed \/ \E d \in Calls \ {c}: look[d].kind = "open" /\ home' # home)
    BY <1>20 DEF NoteOpens
  <2>2. NoLook \in LookRecord /\ NoLook.kind = "none" /\ NoLook.unread = {}
    BY DEF NoLook, LookRecord, NoteRange
  <2>3. /\ calls \in [Calls -> LookRecord] /\ calls[c].kind = "none" /\ calls[c].unread = {}
        /\ \A d \in Calls: d # c => calls[d] = look[d]
    BY <1>1, <2>2
  <2> HIDE DEF calls
  <2>4. \A d \in Calls: /\ calls[d].kind \in {"read", "open"} => calls[d].note \in NoteIds
                        /\ calls[d].unread \subseteq calls[d].ids
    BY <1>1, <2>3 DEF MarksListed
  <2>5. strayed' \in BOOLEAN /\ (~strayed' => ~strayed)
    BY <1>2, <2>1
  <2>6. ~strayed' => look[c].home = home
    BY <2>1, <2>5 DEF InboxInv, OpenedFrom
  <2>7. ~strayed' => \A d \in Calls: calls[d].kind = "open" => calls[d].home = home'
    BY <2>1, <2>3, <2>5 DEF InboxInv, OpenedFrom
  <2>8. look[c].note \in NoteIds /\ look[c].of \in Projects
    BY <1>1, <1>4, <2>1 DEF MarksListed
  <2>9. QED BY <2>1, <2>3, <2>4, <2>5, <2>6, <2>7, <2>8, Landed
\* Answers that leave the page where it is.
<1>21. ASSUME NEW c \in Calls, LookOver(c), UNCHANGED <<noteOf, readNotes, home, scope, landed, strayed>>,
              inbox' \in InboxRecord, inbox'.unread \subseteq inbox'.ids,
              marking' \in [note: NoteRange, all: BOOLEAN]
       PROVE  InboxInv'
  BY <1>1, <1>21, LookEnds, CallsStep
<1>22. ASSUME NEW c \in Calls
       PROVE  /\ ListShown(look[c]) \in InboxRecord
              /\ ListShown(look[c]).unread \subseteq ListShown(look[c]).ids
  BY <1>1, <1>4, InboxAssumption DEF ListShown, InboxRecord, MarksListed
<1>23. ASSUME NEW n \in NoteRange
       PROVE  ReadShown(n) \in InboxRecord /\ ReadShown(n).unread \subseteq ReadShown(n).ids
  BY <1>1 DEF ReadShown, InboxRecord
<1>24. ASSUME NEW c \in Calls, NoteRead(c) \/ ReadFailed(c) PROVE InboxInv'
  <2>1. /\ LookOver(c) /\ UNCHANGED <<noteOf, readNotes, home, scope, landed, strayed>>
        /\ Unmarked(c) /\ inbox' \in {inbox, ReadShown(look[c].note)}
    BY <1>24 DEF NoteRead, ReadFailed
  <2>2. look[c].note \in NoteRange
    BY <1>4 DEF LookRecord
  <2>3. inbox' \in InboxRecord /\ inbox'.unread \subseteq inbox'.ids
    BY <1>1, <1>23, <2>1, <2>2
  <2>4. marking' \in [note: NoteRange, all: BOOLEAN]
    BY <1>2, <1>3, <2>1 DEF Unmarked
  <2>5. QED BY <1>21, <2>1, <2>3, <2>4
<1>25. ASSUME NEW c \in Calls, InboxLoaded(c) \/ AllRead(c) PROVE InboxInv'
  <2>1. /\ LookOver(c) /\ UNCHANGED <<noteOf, readNotes, home, scope, landed, strayed>>
        /\ inbox' \in {inbox, ListShown(look[c])}
        /\ marking' \in {marking, [marking EXCEPT !.all = FALSE]}
    BY <1>25 DEF InboxLoaded, AllRead
  <2>2. inbox' \in InboxRecord /\ inbox'.unread \subseteq inbox'.ids
    BY <1>1, <1>22, <2>1
  <2>3. marking' \in [note: NoteRange, all: BOOLEAN]
    BY <1>2, <2>1
  <2>4. QED BY <1>21, <2>1, <2>2, <2>3
<1>26. CASE UNCHANGED inboxVars
  BY <1>26 DEF inboxVars, InboxInv, InboxTypeOK, MarksListed, OpenedFrom, OpensItsProject
<1>27. QED
  BY <1>5, <1>8, <1>9, <1>10, <1>11, <1>13, <1>14, <1>15, <1>16, <1>17, <1>18, <1>19, <1>20,
    <1>24, <1>25, <1>26 DEF InboxNext

-----------------------------------------------------------------------------
(* The theorem.                                                             *)

OwnInv == DetailInv /\ ProjectsInv /\ AimInv /\ InboxInv

LEMMA OwnAlways == PartsSpec => []OwnInv
<1>1. PartsInit => OwnInv
  BY OwnInits, DetailStart, ProjectsStart, AimStart, InboxStart DEF OwnInv
<1>2. OwnInv /\ [PartsNext]_partsVars => OwnInv'
  BY OwnSteps, DetailStep, ProjectsStep, AimStep, InboxStep DEF OwnInv
<1>3. QED BY <1>1, <1>2, PTL DEF PartsSpec

\* What the user does, and what an answer fills in, is for the ticket or the
\* project it was meant for: drafts, checklists and confirmations on a ticket's
\* panel, settings and deletions of projects, notifications, and a form's target.
THEOREM KeptToOwn == PartsSpec => []KeptToItsOwn
<1>1. OwnInv => KeptToItsOwn
  BY DEF OwnInv, DetailInv, ProjectsInv, AimInv, InboxInv, KeptToItsOwn
<1>2. QED BY <1>1, OwnAlways, PTL

-----------------------------------------------------------------------------
LEMMA BusySteps ==
  [PartsNext]_partsVars =>
    /\ [AuthNext]_authVars /\ [SettingsNext]_settingsVars
    /\ [FormNext]_formVars /\ [SsoNext]_ssoVars
BY DEF PartsNext, Only, partsVars

LEMMA BusyInits ==
  PartsInit => /\ AuthInit \/ AuthAside
               /\ SettingsInit \/ SettingsAside
               /\ FormInit \/ FormAside
               /\ SsoInit \/ SsoAside
BY DEF PartsInit

-----------------------------------------------------------------------------
(* The dialog.                                                              *)

AuthInv ==
  /\ call \in [Calls -> AuthCall] /\ dialog \in DialogRecord
  /\ ~dialog.open => dialog.waiter = NoCall
  /\ DialogHasWaiter

LEMMA AuthValues ==
  /\ Idle \in AuthCall /\ Idle.at = "idle"
  /\ Closed \in DialogRecord /\ ~Closed.open /\ Closed.waiter = NoCall
BY DEF Idle, AuthCall, AuthKinds, Tokens, Reasons, Closed, DialogRecord

AuthTokens == token \in Tokens

LEMMA AuthStart == AuthInit \/ AuthAside => AuthInv /\ AuthTokens
BY AuthValues DEF AuthInit, AuthAside, AuthInv, DialogHasWaiter, AuthTokens, Tokens

\* A call that is made, again where the dialog sent it.
LEMMA Fetched ==
  ASSUME AuthInv, NEW c, NEW k, NEW again \in BOOLEAN, Fetch(c, k, again),
         c \in Calls => k \in AuthKinds, token' \in Tokens
  PROVE  /\ call' \in [Calls -> AuthCall]
         /\ c \in Calls => call'[c].at = "sent"
         /\ \A d \in Calls: d # c => call'[d] = call[d]
<1> DEFINE new == [at |-> "sent", kind |-> k, sent |-> token', retried |-> again,
                   reason |-> "forbidden"]
<1>1. c \in Calls => new \in AuthCall
  BY DEF AuthCall, Reasons
<1>2. call' = [call EXCEPT ![c] = new] /\ new.at = "sent"
  BY DEF Fetch
<1> HIDE DEF new
<1>3. QED BY <1>1, <1>2 DEF AuthInv

LEMMA CallEnded ==
  ASSUME AuthInv, NEW c, Ends(c)
  PROVE  /\ call' \in [Calls -> AuthCall]
         /\ c \in Calls => call'[c].at = "idle"
         /\ \A d \in Calls: d # c => call'[d] = call[d]
BY AuthValues DEF AuthInv, Ends

LEMMA AuthStep == AuthInv /\ AuthTokens /\ [AuthNext]_authVars => AuthInv' /\ AuthTokens'
<1> SUFFICES ASSUME AuthInv, AuthTokens, [AuthNext]_authVars PROVE AuthInv' /\ AuthTokens'
  OBVIOUS
<1>1. /\ call \in [Calls -> AuthCall] /\ dialog \in DialogRecord
      /\ \A c \in Calls: /\ call[c].at = "prompted" <=> dialog.open /\ dialog.waiter = c
                         /\ call[c] \in AuthCall /\ call[c].kind \in AuthKinds
  BY DEF AuthInv, DialogHasWaiter, AuthCall
<1>2. token \in Tokens /\ {"good", "bad", "none"} \subseteq Tokens
  BY DEF AuthTokens, Tokens
<1>3. ASSUME NEW m \in Modes, ServerChanges(m) PROVE AuthInv' /\ AuthTokens'
  BY <1>3 DEF ServerChanges, AuthInv, AuthTokens, DialogHasWaiter
<1>4. ASSUME NEW c \in Calls, NEW k \in {"guarded", "optional"}, SendCall(c, k)
      PROVE  AuthInv' /\ AuthTokens'
  <2>1. Fetch(c, k, FALSE) /\ UNCHANGED <<token, dialog>> /\ call[c].at = "idle"
    BY <1>4 DEF SendCall
  <2>2. k \in AuthKinds
    BY DEF AuthKinds
  <2>3. /\ call' \in [Calls -> AuthCall] /\ call'[c].at = "sent"
        /\ \A d \in Calls: d # c => call'[d] = call[d]
    BY <1>2, <2>1, <2>2, Fetched
  <2>4. QED BY <1>1, <1>2, <2>1, <2>3 DEF AuthInv, AuthTokens, DialogHasWaiter
\* A call that is over was not the one the user was asked for.
<1>5. ASSUME NEW c \in Calls, call[c].at = "sent", Ends(c), UNCHANGED token,
             dialog' \in DialogRecord, dialog'.open = dialog.open,
             dialog'.waiter = dialog.waiter
      PROVE  AuthInv' /\ AuthTokens'
  <2>1. /\ call' \in [Calls -> AuthCall] /\ call'[c].at = "idle"
        /\ \A d \in Calls: d # c => call'[d] = call[d]
    BY <1>5, CallEnded
  <2>2. QED BY <1>1, <1>2, <1>5, <2>1 DEF AuthInv, AuthTokens, DialogHasWaiter
<1>6. ASSUME NEW c \in Calls, Succeeds(c) PROVE AuthInv' /\ AuthTokens'
  BY <1>1, <1>5, <1>6 DEF Succeeds
<1>7. ASSUME NEW c \in Calls, Fails(c) PROVE AuthInv' /\ AuthTokens'
  <2>1. /\ dialog' \in {dialog, [dialog EXCEPT !.loading = FALSE]}
        /\ call[c].at = "sent" /\ Ends(c) /\ UNCHANGED token
    BY <1>7 DEF Fails
  <2>2. dialog' \in DialogRecord /\ dialog'.open = dialog.open /\ dialog'.waiter = dialog.waiter
    BY <1>1, <2>1 DEF DialogRecord
  <2>3. QED BY <1>5, <2>1, <2>2
<1>8. ASSUME NEW c \in Calls, Challenged(c) PROVE AuthInv' /\ AuthTokens'
  <2>1. Prompt(c, ReasonGiven) /\ UNCHANGED token
    BY <1>8 DEF Challenged
  <2>2. ReasonGiven \in Reasons
    BY DEF ReasonGiven, Reasons
  <2>3. dialog' = [open |-> TRUE, reason |-> ReasonGiven, waiter |-> c, loading |-> FALSE]
    BY <2>1 DEF Prompt
  <2>4. dialog' \in DialogRecord /\ dialog'.open /\ dialog'.waiter = c
    BY <2>2, <2>3 DEF DialogRecord
  <2>5. ASSUME NEW d \in Calls
        PROVE  call'[d] \in AuthCall /\ (call'[d].at = "prompted" <=> d = c)
    <3>1. call'[d] = IF d = c THEN [call[c] EXCEPT !.at = "prompted", !.reason = ReasonGiven]
                     ELSE IF d = dialog.waiter THEN [call[d] EXCEPT !.at = "hung"] ELSE call[d]
      BY <2>1 DEF Prompt
    <3>2. call[d] \in AuthCall /\ call[c] \in AuthCall
      BY <1>1
    <3>3. CASE d = c
      BY <2>2, <3>1, <3>2, <3>3 DEF AuthCall
    <3>4. CASE d # c /\ d = dialog.waiter
      <4>1. call'[d] = [call[d] EXCEPT !.at = "hung"]
        BY <3>1, <3>4
      <4>2. QED BY <3>2, <3>4, <4>1 DEF AuthCall
    <3>5. CASE d # c /\ d # dialog.waiter
      <4>1. call'[d] = call[d]
        BY <3>1, <3>5
      <4>2. QED BY <1>1, <3>2, <3>5, <4>1
    <3>6. QED BY <3>3, <3>4, <3>5
  <2>6. call' \in [Calls -> AuthCall]
    BY <2>1, <2>5 DEF Prompt
  <2>7. QED BY <1>2, <2>1, <2>4, <2>5, <2>6 DEF AuthInv, AuthTokens, DialogHasWaiter
<1>9. ASSUME NEW t \in {"good", "bad"}, EnterToken(t) PROVE AuthInv' /\ AuthTokens'
  <2>1. /\ Fetch(dialog.waiter, call[dialog.waiter].kind, TRUE)
        /\ dialog' = Closed /\ token' = t /\ dialog.open
    BY <1>9 DEF EnterToken, Prompted
  <2>2. /\ call' \in [Calls -> AuthCall]
        /\ dialog.waiter \in Calls => call'[dialog.waiter].at = "sent"
        /\ \A d \in Calls: d # dialog.waiter => call'[d] = call[d]
    BY ZenonT(40), <1>1, <1>2, <2>1, Fetched
  <2>3. QED BY <1>1, <1>2, <2>1, <2>2, AuthValues DEF AuthInv, AuthTokens, DialogHasWaiter
<1>10. CASE Dismiss
  <2>1. Ends(dialog.waiter) /\ dialog' = Closed /\ UNCHANGED token
    BY <1>10 DEF Dismiss
  <2>2. /\ call' \in [Calls -> AuthCall]
        /\ dialog.waiter \in Calls => call'[dialog.waiter].at = "idle"
        /\ \A d \in Calls: d # dialog.waiter => call'[d] = call[d]
    BY <2>1, CallEnded
  <2>3. QED BY <1>1, <1>2, <2>1, <2>2, AuthValues DEF AuthInv, AuthTokens, DialogHasWaiter
<1>11. ASSUME NEW c \in Calls, SignIn(c) PROVE AuthInv' /\ AuthTokens'
  <2>1. /\ Fetch(c, "sign_in", FALSE) /\ UNCHANGED token /\ call[c].at = "idle"
        /\ dialog' = [dialog EXCEPT !.loading = TRUE]
    BY <1>11 DEF SignIn
  <2>2. "sign_in" \in AuthKinds
    BY DEF AuthKinds
  <2>3. /\ call' \in [Calls -> AuthCall] /\ call'[c].at = "sent"
        /\ \A d \in Calls: d # c => call'[d] = call[d]
    BY <1>2, <2>1, <2>2, Fetched
  <2>4. dialog' \in DialogRecord /\ dialog'.open = dialog.open /\ dialog'.waiter = dialog.waiter
    BY <1>1, <2>1 DEF DialogRecord
  <2>5. QED BY <1>1, <1>2, <2>1, <2>3, <2>4 DEF AuthInv, AuthTokens, DialogHasWaiter
<1>12. ASSUME PageLoads, token' \in Tokens PROVE AuthInv' /\ AuthTokens'
  BY <1>12, AuthValues, NoCallAssumption DEF PageLoads, AuthInv, AuthTokens, DialogHasWaiter
<1>13. CASE UNCHANGED authVars
  BY <1>13 DEF authVars, AuthInv, AuthTokens, DialogHasWaiter
<1>14. (Reset \/ \E c \in Calls: SignedIn(c)) => PageLoads /\ token' \in Tokens
  BY <1>2 DEF Reset, SignedIn
<1>15. QED
  BY <1>3, <1>4, <1>6, <1>7, <1>8, <1>9, <1>10, <1>11, <1>12, <1>13, <1>14 DEF AuthNext

-----------------------------------------------------------------------------
(* The save buttons.                                                        *)

\* The button waits for a call that writes, or is a list's.
WriterWaits == busy => group \subseteq Listed \/ \E c \in Calls: ~save[c].reads

LEMMA WritersStart == SettingsInit \/ SettingsAside => WriterWaits
BY DEF SettingsInit, SettingsAside, WriterWaits

\* Calls keep what they are.
LEMMA WritersStay ==
  ASSUME WriterWaits, UNCHANGED group, busy' => busy,
         \A d \in Calls: ~save[d].reads => ~save'[d].reads
  PROVE  WriterWaits'
BY DEF WriterWaits

\* One is over that the button did not wait for.
LEMMA WriterOver ==
  ASSUME SettingsInv, WriterWaits, NEW c \in Calls, SaveEnded(c), UNCHANGED group,
         busy' => busy /\ (save[c].reads \/ group \subseteq Listed)
  PROVE  WriterWaits'
<1>1. \A d \in Calls: d # c => save'[d] = save[d]
  BY DEF SaveEnded, SettingsInv
<1>2. QED BY <1>1 DEF WriterWaits

LEMMA StartKeeps ==
  ASSUME SettingsInv, NEW c \in Calls, NEW reads \in BOOLEAN, NEW g, NEW want,
         StartSave(c, reads, g, want)
  PROVE  /\ ~reads => ~save'[c].reads
         /\ \A d \in Calls: ~save[d].reads => ~save'[d].reads
<1>1. NoSave.reads /\ save[c] = NoSave
  BY DEF NoSave, StartSave, FreeSave
<1>2. \A d \in Calls: d # c =>
        save'[d] = IF FreeSave(d) THEN NoSave ELSE [save[d] EXCEPT !.clean = FALSE]
  BY DEF StartSave
<1>3. ASSUME NEW d \in Calls, d # c, ~save[d].reads PROVE ~save'[d].reads
  <2>1. ~FreeSave(d) /\ save[d] \in SaveRecord
    BY <1>1, <1>3 DEF FreeSave, SettingsInv
  <2>2. QED BY <1>2, <1>3, <2>1 DEF SaveRecord
<1>4. ~reads => ~save'[c].reads
  BY DEF StartSave
<1>5. QED BY <1>1, <1>3, <1>4

LEMMA ListedAlone ==
  ASSUME group \in Groups
  PROVE  \A g \in group: g \in Listed => group \subseteq Listed
BY DEF Groups, Listed

LEMMA WritersStep ==
  SettingsInv /\ WriterWaits /\ [SettingsNext]_settingsVars => WriterWaits'
<1> SUFFICES ASSUME SettingsInv, WriterWaits, [SettingsNext]_settingsVars PROVE WriterWaits'
  OBVIOUS
<1>1. /\ group \in Groups /\ save \in [Calls -> SaveRecord]
      /\ \A d \in Calls: save[d] \in SaveRecord
  BY DEF SettingsInv
<1>2. ASSUME NEW g \in group, NEW v \in SettingValues, OtherAdmin(g, v) PROVE WriterWaits'
  <2>1. NoSave.reads
    BY DEF NoSave
  <2>2. \A d \in Calls: save'[d] = IF FreeSave(d) THEN NoSave ELSE [save[d] EXCEPT !.clean = FALSE]
    BY <1>2 DEF OtherAdmin
  <2>3. \A d \in Calls: ~save[d].reads => ~save'[d].reads
    BY <1>1, <2>1, <2>2 DEF FreeSave, SaveRecord
  <2>4. QED BY <1>2, <2>3, WritersStay DEF OtherAdmin
<1>3. ASSUME NEW g \in group, NEW v \in SettingValues, TypeSetting(g, v) PROVE WriterWaits'
  BY <1>3, WritersStay DEF TypeSetting
<1>4. ASSUME NEW c \in Calls,
             ServeSave(c) \/ ServeAgain(c) \/ RefuseSave(c) \/ ForbidSave(c) \/ LoseSaved(c)
      PROVE  WriterWaits'
  <2>1. UNCHANGED <<group, busy>>
    BY <1>4 DEF ServeSave, ServeAgain, RefuseSave, ForbidSave, LoseSaved
  <2>2. \E at, want: save' \in {[save EXCEPT ![c].at = at],
                                [save EXCEPT ![c].at = at, ![c].want = want]}
    BY <1>4 DEF ServeSave, ServeAgain, RefuseSave, ForbidSave, LoseSaved
  <2>3. \A d \in Calls: save'[d].reads = save[d].reads
    BY <1>1, <2>2 DEF SaveRecord
  <2>4. QED BY <2>1, <2>3, WritersStay
<1>5. ASSUME NEW c \in Calls, NEW g \in group, NEW v \in SettingValues, Change(c, g, v)
      PROVE  WriterWaits'
  <2>1. StartSave(c, FALSE, g, page') /\ UNCHANGED <<group, busy>>
    BY <1>5 DEF Change
  <2>2. \A d \in Calls: ~save[d].reads => ~save'[d].reads
    BY <2>1, StartKeeps
  <2>3. QED BY <2>1, <2>2, WritersStay
<1>6. ASSUME NEW c \in Calls, Refresh(c) PROVE WriterWaits'
  <2>1. StartSave(c, TRUE, AnySetting, Defaults) /\ UNCHANGED <<group, busy>>
    BY <1>6 DEF Refresh
  <2>2. \A d \in Calls: ~save[d].reads => ~save'[d].reads
    BY <2>1, StartKeeps
  <2>3. QED BY <2>1, <2>2, WritersStay
<1>7. ASSUME NEW c \in Calls, NEW g \in group, NEW want, StartSave(c, FALSE, g, want)
      PROVE  WriterWaits'
  <2>1. ~save'[c].reads
    BY <1>7, StartKeeps
  <2>2. QED BY <2>1 DEF WriterWaits
<1>8. ASSUME NEW c \in Calls, NEW g \in group, Save(c, g) PROVE WriterWaits'
  BY <1>7, <1>8 DEF Save
<1>9. ASSUME NEW c \in Calls, NEW g \in group, NEW v \in SettingValues, SubmitSetting(c, g, v)
      PROVE  WriterWaits'
  <2>1. StartSave(c, FALSE, g, [page EXCEPT ![g] = v])
    BY <1>9 DEF SubmitSetting
  <2>2. QED BY <1>7, <2>1
<1>10. ASSUME NEW c \in Calls PROVE Released(c) => busy /\ (save[c].reads \/ group \subseteq Listed)
  <2>1. save[c].of \in group
    BY <1>1 DEF SaveRecord
  <2>2. save[c].of \in Listed => group \subseteq Listed
    BY <1>1, <2>1, ListedAlone
  <2>3. QED BY <2>2 DEF Released
<1>11. ASSUME NEW c \in Calls, SaveAnswered(c) PROVE WriterWaits'
  BY <1>10, <1>11, WriterOver DEF SaveAnswered
<1>12. ASSUME NEW c \in Calls, SaveRejected(c) PROVE WriterWaits'
  <2>1. /\ SaveEnded(c) /\ UNCHANGED group
        /\ busy' = IF save[c].at = "forbidden" /\ group \subseteq Listed THEN busy ELSE Released(c)
    BY <1>12 DEF SaveRejected
  <2>2. busy' => busy /\ (save[c].reads \/ group \subseteq Listed)
    BY <1>10, <2>1
  <2>3. QED BY <2>1, <2>2, WriterOver
<1>13. CASE UNCHANGED settingsVars
  BY <1>13 DEF settingsVars, WriterWaits
<1>14. QED
  BY <1>2, <1>3, <1>4, <1>5, <1>6, <1>8, <1>9, <1>11, <1>12, <1>13 DEF SettingsNext

LEMMA WritersAreAsked == WriterWaits => SavingIsAsked
<1>1. NoSave.reads
  BY DEF NoSave
<1>2. QED BY <1>1 DEF WriterWaits, SavingIsAsked, FreeSave

-----------------------------------------------------------------------------
(* Uploads.                                                                 *)

FormRecord == [draft: BOOLEAN, pending: SUBSET Files, uploading: BOOLEAN]

UploadInv ==
  /\ onProject \in Projects /\ form \in FormRecord
  /\ upload \in [Calls -> UploadRecord]
  /\ UploadingIsAsked

LEMMA UploadValues ==
  /\ EmptyForm \in FormRecord /\ ~EmptyForm.uploading
  /\ NoUpload \in UploadRecord /\ NoUpload.file = NoFile /\ NoUpload.at = "sent"
BY DefaultProjectAssumption DEF EmptyForm, FormRecord, NoUpload, UploadRecord

LEMMA UploadStart == FormInit \/ FormAside => UploadInv
BY UploadValues, DefaultProjectAssumption
   DEF FormInit, FormAside, UploadInv, UploadingIsAsked

\* The form and its call go on together.
LEMMA UploadMoves ==
  ASSUME UploadInv, NEW c \in Calls, NEW u \in UploadRecord, upload' = [upload EXCEPT ![c] = u],
         UNCHANGED onProject, form' \in FormRecord,
         form'.uploading => \/ form.uploading /\ ~upload[c].seen
                            \/ u # NoUpload /\ u.seen
  PROVE  UploadInv'
<1>1. upload' \in [Calls -> UploadRecord] /\ upload'[c] = u
  BY DEF UploadInv
<1>2. \A d \in Calls: d # c => upload'[d] = upload[d]
  BY DEF UploadInv
<1>3. QED BY <1>1, <1>2 DEF UploadInv, UploadingIsAsked

LEMMA UploadStep == UploadInv /\ [FormNext]_formVars => UploadInv'
<1> SUFFICES ASSUME UploadInv, [FormNext]_formVars PROVE UploadInv'
  OBVIOUS
<1>1. /\ onProject \in Projects /\ form \in FormRecord /\ upload \in [Calls -> UploadRecord]
      /\ \A c \in Calls: upload[c] \in UploadRecord /\ upload[c].rest \subseteq Files
                         /\ (upload[c].file # NoFile => upload[c].file \in Files)
  BY DEF UploadInv, UploadRecord
<1>2. ASSUME UNCHANGED <<form, upload>>, onProject' \in Projects PROVE UploadInv'
  BY <1>2 DEF UploadInv, UploadingIsAsked
<1>3. ASSUME CreateMessage \/ RefuseMessage \/ MessageOver \/ Fold \/ BackToBoard
      PROVE  UploadInv'
  BY <1>1, <1>2, <1>3 DEF CreateMessage, RefuseMessage, MessageOver, Fold, BackToBoard
<1>4. ASSUME NEW p \in Projects, ShowOther(p) PROVE UploadInv'
  BY <1>2, <1>4 DEF ShowOther
<1>5. ASSUME UNCHANGED <<upload, onProject>>, form' \in FormRecord,
             form'.uploading = form.uploading
      PROVE  UploadInv'
  BY <1>5 DEF UploadInv, UploadingIsAsked
<1>6. CASE Type
  <2>1. form' \in FormRecord /\ form'.uploading = form.uploading
    BY <1>1, <1>6 DEF Type, FormRecord
  <2>2. QED BY <1>5, <1>6, <2>1 DEF Type, OnlyForm
<1>7. ASSUME NEW g \in Files, RemoveFile(g) PROVE UploadInv'
  <2>1. form' \in FormRecord /\ form'.uploading = form.uploading
    BY <1>1, <1>7 DEF RemoveFile, FormRecord
  <2>2. QED BY <1>5, <1>7, <2>1 DEF RemoveFile, OnlyForm
<1>8. CASE Submit
  BY <1>1, <1>8, UploadValues DEF Submit, UploadInv, UploadingIsAsked
<1>9. CASE LeaveBoard
  <2>1. \A c \in Calls: upload'[c] \in UploadRecord
    BY <1>1, <1>9, UploadValues DEF LeaveBoard, UploadRecord
  <2>2. upload' \in [Calls -> UploadRecord]
    BY <1>9, <2>1 DEF LeaveBoard
  <2>3. QED BY <1>1, <1>9, <2>2, UploadValues DEF LeaveBoard, UploadInv, UploadingIsAsked
<1>10. ASSUME NEW c \in Calls, StoreFile(c) \/ RefuseFile(c) PROVE UploadInv'
  <2>1. PICK at \in {"answered", "failed"}: upload' = [upload EXCEPT ![c].at = at]
    BY <1>10 DEF StoreFile, RefuseFile
  <2> DEFINE u == [upload[c] EXCEPT !.at = at]
  <2>2. upload' = [upload EXCEPT ![c] = u]
    BY <1>1, <2>1
  <2>3. u \in UploadRecord /\ u.at = at /\ u.seen = upload[c].seen /\ upload[c].seen \in BOOLEAN
    BY <1>1 DEF UploadRecord
  <2> HIDE DEF u
  <2>4. u # NoUpload
    BY <2>3, UploadValues
  <2>5. UNCHANGED <<onProject, form>>
    BY <1>10 DEF StoreFile, RefuseFile
  <2>6. form' \in FormRecord
    BY <1>1, <2>5
  <2>7. form'.uploading => \/ form.uploading /\ ~upload[c].seen
                           \/ u # NoUpload /\ u.seen
    BY <2>3, <2>4, <2>5
  <2>8. UNCHANGED onProject
    BY <2>5
  <2>9. QED BY <2>2, <2>3, <2>6, <2>7, <2>8, UploadMoves
<1>11. ASSUME NEW c \in Calls, FileStored(c) PROVE UploadInv'
  <2>1. PICK u \in After(upload[c]): upload' = [upload EXCEPT ![c] = u]
    BY <1>11 DEF FileStored
  <2>2. /\ upload[c].seen \in BOOLEAN /\ upload[c].file \in Files
        /\ upload[c].seen => form' = [form EXCEPT !.pending = @ \cup {upload[c].file},
                                                 !.uploading = (upload[c].rest # {})]
        /\ ~upload[c].seen => form' = form
    BY <1>1, <1>11 DEF FileStored, UploadRecord
  <2>3. /\ form' \in FormRecord
        /\ upload[c].seen => form'.uploading = (upload[c].rest # {})
    <3> DEFINE new == [form EXCEPT !.pending = @ \cup {upload[c].file},
                                   !.uploading = (upload[c].rest # {})]
    <3>1. (upload[c].rest # {}) \in BOOLEAN
      OBVIOUS
    <3>2. new \in FormRecord
      BY <1>1, <2>2, <3>1 DEF FormRecord
    <3>3. new.uploading = (upload[c].rest # {})
      BY <1>1 DEF FormRecord
    <3> HIDE DEF new
    <3>4. /\ upload[c].seen => form' = new
          /\ ~upload[c].seen => form' = form
      BY <2>2 DEF new
    <3>5. QED BY <1>1, <2>2, <3>2, <3>3, <3>4
  <2>4. CASE upload[c].rest = {}
    <3>1. u = NoUpload
      BY <2>1, <2>4 DEF After
    <3>2. form' \in FormRecord /\ (form'.uploading => form.uploading /\ ~upload[c].seen)
      BY <2>2, <2>3, <2>4
    <3>3. u \in UploadRecord /\ UNCHANGED onProject
      BY <1>11, <3>1, UploadValues DEF FileStored
    <3>4. QED BY <2>1, <3>2, <3>3, UploadMoves
  <2>5. CASE upload[c].rest # {}
    <3>1. PICK g \in upload[c].rest:
            u = [upload[c] EXCEPT !.file = g, !.rest = upload[c].rest \ {g}, !.at = "sent"]
      BY <2>1, <2>5 DEF After
    <3>2. g \in Files /\ upload[c] \in UploadRecord /\ upload[c].seen \in BOOLEAN
      BY <1>1 DEF UploadRecord
    <3>3. u \in UploadRecord /\ u.file = g /\ u.seen = upload[c].seen
      BY <3>1, <3>2 DEF UploadRecord
    <3>4. u # NoUpload
      BY <3>2, <3>3, UploadValues, NoFileAssumption
    <3>5. form' \in FormRecord /\ (~upload[c].seen => form' = form)
      BY <2>2, <2>3
    <3>6. UNCHANGED onProject
      BY <1>11 DEF FileStored
    <3>7. form'.uploading => \/ form.uploading /\ ~upload[c].seen
                             \/ u # NoUpload /\ u.seen
      BY <3>2, <3>3, <3>4, <3>5
    <3>8. QED BY <2>1, <3>3, <3>5, <3>6, <3>7, UploadMoves
  <2>6. QED BY <2>4, <2>5
<1>12. ASSUME NEW c \in Calls, UploadFailed(c) PROVE UploadInv'
  <2>1. form' \in FormRecord /\ (form'.uploading => form.uploading /\ ~upload[c].seen)
    BY <1>1, <1>12 DEF UploadFailed, FormRecord, UploadRecord
  <2>2. upload' = [upload EXCEPT ![c] = NoUpload] /\ UNCHANGED onProject
    BY <1>12 DEF UploadFailed
  <2>3. QED BY <2>1, <2>2, UploadMoves, UploadValues
<1>13. ASSUME NEW c \in Calls, NEW fs \in SUBSET Files, Attach(c, fs) PROVE UploadInv'
  <2>1. PICK g \in fs: upload' = [upload EXCEPT ![c] =
          [NoUpload EXCEPT !.file = g, !.rest = fs \ {g}, !.of = onProject]]
    BY <1>13 DEF Attach
  <2> DEFINE u == [NoUpload EXCEPT !.file = g, !.rest = fs \ {g}, !.of = onProject]
  <2>2. NoUpload.seen
    BY DEF NoUpload
  <2>3. u \in UploadRecord /\ u.file = g /\ u.seen
    BY <1>1, <2>2, UploadValues DEF UploadRecord
  <2>4. upload' = [upload EXCEPT ![c] = u]
    BY <2>1
  <2> HIDE DEF u
  <2>5. u # NoUpload
    BY <2>3, UploadValues, NoFileAssumption
  <2>6. form' \in FormRecord /\ UNCHANGED onProject
    BY <1>1, <1>13 DEF Attach, FormRecord
  <2>7. QED BY <2>3, <2>4, <2>5, <2>6, UploadMoves
<1>14. CASE UNCHANGED formVars
  BY <1>1, <1>2, <1>14 DEF formVars
<1>15. QED
  BY <1>3, <1>4, <1>6, <1>7, <1>8, <1>9, <1>10, <1>11, <1>12, <1>13, <1>14 DEF FormNext

-----------------------------------------------------------------------------
(* The sign-in.                                                             *)

Sending == {"sent", "taken", "refused"}
NoneLive == \A r \in Runs: run[r] \notin Live

\* One run at a time listens, and one that has not been told yet has its code
\* still in the address.  A button left waiting by nobody was left by a run
\* that was cancelled: as it read the identity, or to be begun again.
SsoInv ==
  /\ run \in [Runs -> RunStates]
  /\ \A r, s \in Runs: run[r] \in Live /\ run[s] \in Live => r = s
  /\ \A r \in Runs: run[r] \in Sending => code # "none"
  /\ ssoBusy /\ login = "none" /\ NoneLive => code # "none" \/ dropped = "reading"
  /\ SsoBusyIsAsked

LEMMA SsoStart == SsoInit \/ SsoAside => SsoInv
BY DEF SsoInit, SsoAside, Visit, SsoInv, RunStates, Live, Sending, SsoBusyIsAsked

LEMMA Dropping ==
  ASSUME SsoInv
  PROVE  /\ RunsDropped(run) \in [Runs -> RunStates]
         /\ \A r \in Runs: RunsDropped(run)[r] \notin Live
BY DEF SsoInv, RunsDropped, RunStates, Live

LEMMA RerunKeeps ==
  ASSUME SsoInv, Rerun, UNCHANGED <<code, login>> PROVE SsoInv'
<1>1. CASE configured' /\ ~demoBoard' /\ code # "none"
  <2>1. PICK r \in Runs: run' = [RunsDropped(run) EXCEPT ![r] = "sent"]
    BY <1>1 DEF Rerun
  <2>2. /\ run' \in [Runs -> RunStates] /\ run'[r] = "sent"
        /\ \A s \in Runs: s # r => run'[s] \notin Live
    BY <2>1, Dropping DEF RunStates
  <2>3. "sent" \in Live /\ Sending \subseteq Live
    BY DEF Live, Sending
  <2>4. QED BY <1>1, <2>2, <2>3 DEF SsoInv, NoneLive, SsoBusyIsAsked
<1>2. CASE ~(configured' /\ ~demoBoard' /\ code # "none")
  <2>1. run' = RunsDropped(run) /\ UNCHANGED ssoBusy
    BY <1>2 DEF Rerun
  <2>2. run' \in [Runs -> RunStates] /\ \A s \in Runs: run'[s] \notin Live
    BY <2>1, Dropping
  <2>3. ASSUME ssoBusy, login = "none", code = "none" PROVE dropped' = "reading"
    <3>1. CASE NoneLive
      BY <2>3, <3>1 DEF SsoInv, Rerun, NoneLive
    <3>2. CASE ~NoneLive
      <4> DEFINE s == CHOOSE r \in Runs: run[r] \in Live
      <4>1. s \in Runs /\ run[s] \in Live
        BY <3>2 DEF NoneLive
      <4>2. dropped' = Ahead(run[s])
        BY <3>2 DEF NoneLive, Rerun
      <4> HIDE DEF s
      <4>3. run[s] = "reading"
        BY <2>3, <4>1 DEF SsoInv, Live, Sending
      <4>4. QED BY <4>2, <4>3 DEF Ahead
    <3>3. QED BY <3>1, <3>2
  <2>4. Sending \subseteq Live
    BY DEF Live, Sending
  <2>5. QED BY <1>2, <2>1, <2>2, <2>3, <2>4 DEF SsoInv, SsoBusyIsAsked
<1>3. QED BY <1>1, <1>2

LEMMA SsoStep == SsoInv /\ [SsoNext]_ssoVars => SsoInv'
<1> SUFFICES ASSUME SsoInv, [SsoNext]_ssoVars PROVE SsoInv'
  OBVIOUS
<1>1. CASE BoardFlips
  BY <1>1, RerunKeeps DEF BoardFlips
<1>2. CASE ProviderKnown
  <2>1. CASE configured' # configured
    BY <1>2, <2>1, RerunKeeps DEF ProviderKnown
  <2>2. CASE configured' = configured
    BY <1>2, <2>2 DEF ProviderKnown, SsoInv, NoneLive, SsoBusyIsAsked
  <2>3. QED BY <2>1, <2>2
\* A run goes on to another state of those that listen, or of those that do not.
<1>3. ASSUME NEW r \in Runs, NEW s \in RunStates, run' = [run EXCEPT ![r] = s],
             s \in Live <=> run[r] \in Live, s \in Sending => code' # "none",
             code' = "none" => code = "none" \/ run[r] \in Live,
             UNCHANGED <<configured, demoBoard, login, ssoBusy, dropped>>
      PROVE  SsoInv'
  <2>1. /\ run' \in [Runs -> RunStates] /\ run'[r] = s
        /\ \A q \in Runs: q # r => run'[q] = run[q]
    BY <1>3 DEF SsoInv
  <2>2. \A q \in Runs: run'[q] \in Live <=> run[q] \in Live
    BY <1>3, <2>1
  <2>3. Sending \subseteq Live
    BY DEF Live, Sending
  <2>4. \A q \in Runs: run'[q] \in Sending => code' # "none"
    BY <1>3, <2>1, <2>3 DEF SsoInv
  <2>5. \A p, q \in Runs: run'[p] \in Live /\ run'[q] \in Live => p = q
    BY <2>2 DEF SsoInv
  <2>6. NoneLive' => NoneLive /\ run[r] \notin Live
    BY <2>2 DEF NoneLive
  <2>7. ssoBusy' /\ login' = "none" /\ NoneLive' => code' # "none" \/ dropped' = "reading"
    BY <1>3, <2>6 DEF SsoInv
  <2>8. SsoBusyIsAsked'
    BY <1>3, <2>2 DEF SsoInv, SsoBusyIsAsked
  <2>9. QED BY <2>1, <2>4, <2>5, <2>7, <2>8 DEF SsoInv
<1>4. ASSUME NEW r \in Runs, TakeCode(r) PROVE SsoInv'
  <2>1. PICK s \in {"taken", "refused", "over"}:
          run' = [run EXCEPT ![r] = s] /\ (s = "over" <=> run[r] = "cancelled")
    BY <1>4 DEF TakeCode, SsoInv
  <2>2. run[r] \in {"sent", "cancelled"} /\ (code' = "none" => code = "none")
    BY <1>4 DEF TakeCode
  <2>3. s \in Sending => code' # "none"
    BY <2>1, <2>2 DEF SsoInv, Sending
  <2>4. s \in RunStates /\ (s \in Live <=> run[r] \in Live)
    BY <2>1, <2>2 DEF RunStates, Live
  <2>5. UNCHANGED <<configured, demoBoard, login, ssoBusy, dropped>>
    BY <1>4 DEF TakeCode
  <2>6. QED BY <1>3, <2>1, <2>2, <2>3, <2>4, <2>5
<1>5. ASSUME NEW r \in Runs, CodeTaken(r) PROVE SsoInv'
  <2>1. /\ run[r] = "taken" /\ run' = [run EXCEPT ![r] = "reading"]
        /\ UNCHANGED <<configured, demoBoard, login, ssoBusy, dropped>>
    BY <1>5 DEF CodeTaken
  <2>2. /\ "reading" \in RunStates /\ "reading" \in Live /\ "reading" \notin Sending
        /\ run[r] \in Live
    BY <2>1 DEF RunStates, Live, Sending
  <2>3. QED BY <1>3, <2>1, <2>2
<1>6. ASSUME NEW r \in Runs, RunOver(r) PROVE SsoInv'
  <2>1. /\ run' = [run EXCEPT ![r] = "over"] /\ ~ssoBusy' /\ UNCHANGED code
    BY <1>6 DEF RunOver
  <2>2. QED BY <2>1 DEF SsoInv, RunStates, Live, Sending, SsoBusyIsAsked
<1>7. ASSUME PressSignIn \/ ServeLogin \/ LoginFailed PROVE SsoInv'
  <2>1. UNCHANGED <<run, code, configured, demoBoard, dropped>>
    BY <1>7 DEF PressSignIn, ServeLogin, LoginFailed
  <2>2. ~ssoBusy' \/ login' # "none"
    BY <1>7 DEF PressSignIn, ServeLogin, LoginFailed
  <2>3. QED BY <2>1, <2>2 DEF SsoInv, SsoBusyIsAsked
<1>8. CASE ComesBack
  <2>1. run' = [r \in Runs |-> "none"] /\ ~ssoBusy'
    BY <1>8 DEF ComesBack
  <2>2. QED BY <2>1 DEF SsoInv, RunStates, Live, Sending, SsoBusyIsAsked
<1>9. CASE UNCHANGED ssoVars
  BY <1>9 DEF ssoVars, SsoInv, NoneLive, SsoBusyIsAsked
<1>10. QED
  BY <1>1, <1>2, <1>4, <1>5, <1>6, <1>7, <1>8, <1>9 DEF SsoNext

-----------------------------------------------------------------------------
(* The theorem.                                                             *)

BusyInv == AuthInv /\ AuthTokens /\ WriterWaits /\ UploadInv /\ SsoInv

LEMMA BusyAlways == PartsSpec => []BusyInv
<1>1. PartsInit => BusyInv
  BY BusyInits, AuthStart, WritersStart, UploadStart, SsoStart DEF BusyInv
<1>2. LateInv /\ BusyInv /\ [PartsNext]_partsVars => BusyInv'
  BY BusySteps, AuthStep, WritersStep, UploadStep, SsoStep DEF LateInv, BusyInv
<1>3. QED BY <1>1, <1>2, LateAlways, PTL DEF PartsSpec

\* Whatever the page shows as loading, saving or busy waits for a call that is
\* under way, and an open dialog for the one call that asked for it.
THEOREM NothingWaits == PartsSpec => []NothingHangs
<1>1. LateInv /\ OwnInv /\ BusyInv => NothingHangs
  BY WritersAreAsked
     DEF OwnInv, DetailInv, ProjectsInv, AimInv, BusyInv, AuthInv, UploadInv, SsoInv, NothingHangs
<1>2. QED BY <1>1, LateAlways, OwnAlways, BusyAlways, PTL
=============================================================================
