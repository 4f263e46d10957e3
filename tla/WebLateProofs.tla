---------------------------- MODULE WebLateProofs ----------------------------
(***************************************************************************)
(* Proofs that a late answer does no harm: for any number of projects,     *)
(* requirements, settings' values and calls, in the composer, the settings *)
(* page, the views and the form; and that an eval run is compared with one *)
(* that started before it, whichever of the two is over first.             *)
(***************************************************************************)
EXTENDS MCWebPage, TLAPS

\* A step of the page is a step of a part, or leaves the part alone.
LEMMA PartSteps ==
  [PartsNext]_partsVars =>
    /\ [ComposerNext]_composerVars /\ [SettingsNext]_settingsVars
    /\ [ViewsNext]_viewsVars /\ [WebFormNext]_webFormVars /\ [EvalsNext]_evalsVars
BY DEF PartsNext, Only, partsVars

LEMMA PartInits ==
  PartsInit => /\ ComposerInit \/ ComposerAside
               /\ SettingsInit \/ SettingsAside
               /\ ViewsInit \/ ViewsAside
               /\ WebFormInit \/ TargetAside
               /\ EvalsInit \/ EvalsAside
BY DEF PartsInit

-----------------------------------------------------------------------------
(* Views: a call that counts is for the project now shown.                 *)

ViewsInv ==
  /\ ViewsTypeOK
  /\ view.guarded => \A c \in Calls: glance[c].active => glance[c].of = showing

LEMMA ViewFlags ==
  /\ Views # {}
  /\ \A v \in Views: v.covers \in BOOLEAN /\ v.guarded \in BOOLEAN /\ v.demo \in BOOLEAN
BY DEF Views, DecisionPage, DecisionBadge, InboxBadge, RequirementList, InsightsPage

LEMMA ViewsStart == ViewsInit \/ ViewsAside => ViewsInv
<1> USE DefaultProjectAssumption, MaxWritesAssumption
<1>1. /\ NoGlance \in GlanceRecord /\ ~NoGlance.active /\ Nothing \in Things
      /\ \A p \in Projects: Glance(p) \in GlanceRecord /\ Glance(p).of = p
  BY DEF NoGlance, Glance, GlanceRecord, Nothing, Thing, Things
<1>2. ASSUME ViewsInit PROVE ViewsInv
  <2>1. PICK first \in Calls:
          glance = [c \in Calls |-> IF c = first THEN Glance(showing) ELSE NoGlance]
    BY <1>2 DEF ViewsInit
  <2>2. /\ glance \in [Calls -> GlanceRecord]
        /\ \A c \in Calls: glance[c].active => glance[c].of = showing
    BY <1>1, <1>2, <2>1 DEF ViewsInit
  <2>3. viewLoading \in BOOLEAN /\ upset \in BOOLEAN
    BY <1>2, ViewFlags DEF ViewsInit
  <2>4. QED BY <1>1, <1>2, <2>2, <2>3 DEF ViewsInit, ViewsInv, ViewsTypeOK
<1>3. ASSUME ViewsAside PROVE ViewsInv
  <2>1. AnyView \in Views
    BY ViewFlags DEF AnyView
  <2>2. viewLoading \in BOOLEAN /\ upset \in BOOLEAN
    BY <1>3, Zenon DEF ViewsAside
  <2>3. QED BY <1>1, <1>3, <2>1, <2>2 DEF ViewsAside, ViewsInv, ViewsTypeOK
<1>4. QED BY <1>2, <1>3

LEMMA ViewsStep == ViewsInv /\ [ViewsNext]_viewsVars => ViewsInv'
<1> SUFFICES ASSUME ViewsInv, [ViewsNext]_viewsVars PROVE ViewsInv'
  OBVIOUS
<1> USE DefaultProjectAssumption, MaxWritesAssumption
<1>1. /\ NoGlance \in GlanceRecord /\ ~NoGlance.active /\ Demo \in Things
      /\ \A p \in Projects: Glance(p) \in GlanceRecord /\ Glance(p).of = p
  BY DEF NoGlance, Glance, GlanceRecord, Demo, Thing, Things
<1>2. view.guarded \in BOOLEAN /\ view.covers \in BOOLEAN /\ view.demo \in BOOLEAN
  BY ViewFlags DEF ViewsInv, ViewsTypeOK
<1>3. ASSUME NEW p \in Projects, WriteThing(p) PROVE ViewsInv'
  <2>1. written' \in [Projects -> 0..MaxWrites]
    BY <1>3 DEF WriteThing, ViewsInv, ViewsTypeOK
  <2>2. QED BY <1>3, <2>1 DEF WriteThing, ViewsInv, ViewsTypeOK
<1>4. ASSUME NEW c \in Calls, ServeGlance(c) \/ FailGlance(c) PROVE ViewsInv'
  <2>1. glance[c] \in GlanceRecord /\ \A n \in 0..MaxWrites: n \in Nat
    BY DEF ViewsInv, ViewsTypeOK
  <2>2. PICK at \in {"answered", "failed"}, n \in 0..MaxWrites:
          glance' = [glance EXCEPT ![c].at = at, ![c].version = n]
    BY <1>4, <2>1 DEF ServeGlance, FailGlance, ViewsInv, ViewsTypeOK, GlanceRecord
  <2>3. glance' \in [Calls -> GlanceRecord]
    BY <2>1, <2>2 DEF ViewsInv, ViewsTypeOK, GlanceRecord
  <2>4. \A d \in Calls: glance'[d].active = glance[d].active /\ glance'[d].of = glance[d].of
    BY <2>1, <2>2 DEF ViewsInv, ViewsTypeOK, GlanceRecord
  <2>5. QED BY <1>4, <2>3, <2>4 DEF ServeGlance, FailGlance, ViewsInv, ViewsTypeOK
<1>5. ASSUME NEW c \in Calls, AskAgain(c) PROVE ViewsInv'
  BY <1>1, <1>5 DEF AskAgain, ViewsInv, ViewsTypeOK
<1>6. ASSUME NEW c \in Calls, NEW p \in Projects, AskFor(p, c) PROVE ViewsInv'
  <2>1. Cleaned(glance) \in [Calls -> GlanceRecord]
    BY <1>2 DEF Cleaned, ViewsInv, ViewsTypeOK, GlanceRecord
  <2>2. view.guarded => \A d \in Calls: ~Cleaned(glance)[d].active
    BY DEF Cleaned, ViewsInv, ViewsTypeOK, GlanceRecord
  <2>3. QED BY <1>1, <1>2, <1>6, <2>1, <2>2 DEF AskFor, ViewsInv, ViewsTypeOK
<1>7. ASSUME NEW c \in Calls, Arrives(c) \/ GlanceFails(c) \/ Ignored(c) PROVE ViewsInv'
  <2>1. Thing("data", glance[c].of, glance[c].version) \in Things
    BY DEF ViewsInv, ViewsTypeOK, GlanceRecord, Thing, Things
  <2>2. QED
    BY <1>1, <1>7, <2>1 DEF Arrives, GlanceFails, Ignored, GlanceOver, ViewsInv, ViewsTypeOK
<1>8. CASE UNCHANGED viewsVars
  BY <1>8 DEF viewsVars, ViewsInv, ViewsTypeOK
<1>9. QED BY <1>3, <1>4, <1>5, <1>6, <1>7, <1>8 DEF ViewsNext

LEMMA ViewsEffect ==
  ASSUME ViewsInv, [ViewsNext]_viewsVars,
         view.guarded, shownOf' # shownOf, shownOf'.kind = "data"
  PROVE  shownOf'.of = showing
<1>1. Demo.kind = "demo"
  BY DEF Demo, Thing
<1>2. PICK c \in Calls: Arrives(c)
  BY <1>1 DEF ViewsNext, viewsVars, WriteThing, ServeGlance, FailGlance, AskAgain, AskFor,
              GlanceFails, Ignored
<1>3. QED BY <1>2 DEF Arrives, Thing, ViewsInv

-----------------------------------------------------------------------------
(* The form.                                                               *)

TargetType ==
  target \in [project: Projects, repo: Projects \cup {Typed},
              command: Projects \cup {Typed, Blank}]

LEMMA TargetStart == WebFormInit \/ TargetAside => TargetType
BY DefaultProjectAssumption DEF WebFormInit, TargetAside, TargetType

LEMMA TargetStep == TargetType /\ [WebFormNext]_webFormVars => TargetType'
<1> SUFFICES ASSUME TargetType, [WebFormNext]_webFormVars PROVE TargetType'
  OBVIOUS
<1>1. ASSUME NEW p, Detected(p) # target
      PROVE  p \in Projects /\ Detected(p) = [target EXCEPT !.command = p]
  BY <1>1, TestedAssumption DEF Detected
<1>2. ASSUME NEW p \in Projects, target' = [target EXCEPT !.project = p, !.repo = p]
      PROVE  TargetType'
  BY <1>2 DEF TargetType
<1>3. ASSUME NEW text \in {Typed, Blank}, TypeCommand(text) PROVE TargetType'
  BY <1>3 DEF TypeCommand, TargetType
<1>4. CASE TypeRepo
  BY <1>4 DEF TypeRepo, TargetType
<1>5. ASSUME NEW c \in Calls, ProbeDone(c) PROVE TargetType'
  BY <1>1, <1>5 DEF ProbeDone, TargetType
<1>6. CASE UNCHANGED target
  BY <1>6 DEF TargetType
<1>7. QED
  BY <1>2, <1>3, <1>4, <1>5, <1>6 DEF WebFormNext, webFormVars, SendForm, Aim, BoardTurns, ServeProbe

\* Only a lookup fills in a project's command.
LEMMA TargetEffect ==
  ASSUME TargetType, [WebFormNext]_webFormVars,
         target'.command \in Projects, target'.command # target.command
  PROVE  target.command = Blank /\ target'.command = target.project
<1>1. PICK c \in Calls: ProbeDone(c)
  BY TestedAssumption
  DEF TargetType, WebFormNext, webFormVars, TypeRepo, SendForm, TypeCommand, Aim,
      BoardTurns, ServeProbe
<1>2. QED BY <1>1 DEF ProbeDone, Detected, TargetType

-----------------------------------------------------------------------------
(* Settings: what a call that nothing overlaps was made from is still so   *)
(* when it is served, and what it leaves on the page is what is stored.    *)

CallAgrees(c) ==
  save[c].clean =>
    /\ \A d \in Calls \ {c}: FreeSave(d)
    /\ save[c].at \in {"again", "answered"} => save[c].want = stored
    /\ ~tainted /\ save[c].reads => page = stored
    /\ (~tainted /\ ~save[c].reads /\ save[c].at \in {"sent", "refused", "forbidden"}) =>
         save[c].old = stored /\ (group \cap Optimistic = {} => page = stored)
    /\ (save[c].at = "sent" /\ ~save[c].reads /\ save[c].agreed) =>
         \A g \in group \ {save[c].of}: save[c].want[g] = stored[g]

SettingsInv ==
  /\ group \in Groups /\ stored \in Held /\ page \in Held /\ draft \in Held
  /\ save \in [Calls -> SaveRecord]
  /\ SettingsAgree
  /\ \A c \in Calls: CallAgrees(c)

LEMMA GroupKinds ==
  ASSUME group \in Groups
  PROVE  /\ group # {}
         /\ \A g \in group: g \in Drafted => group = {g}
         /\ \/ group \subseteq Optimistic \ TakenBack
            \/ group \subseteq TakenBack
            \/ group \cap Optimistic = {}
BY DEF Groups, Drafted, Optimistic, TakenBack

LEMMA NoSaveType ==
  ASSUME group \in Groups
  PROVE  /\ AnySetting \in group /\ Defaults \in Held
         /\ NoSave \in SaveRecord /\ NoSave.at = "free" /\ ~NoSave.clean
<1>1. AnySetting \in group
  BY GroupKinds DEF AnySetting
<1>2. QED BY <1>1 DEF Defaults, Held, SettingValues, NoSave, SaveRecord

LEMMA SameGroup ==
  ASSUME UNCHANGED group
  PROVE  /\ NoSave' = NoSave /\ Held' = Held /\ SaveRecord' = SaveRecord
         /\ AnySetting' = AnySetting /\ Defaults' = Defaults
<1>1. AnySetting' = AnySetting /\ Defaults' = Defaults /\ Held' = Held
  BY DEF AnySetting, Defaults, Held
<1>2. QED BY <1>1 DEF NoSave, SaveRecord

LEMMA SettingsStart == SettingsInit \/ SettingsAside => SettingsInv
<1>1. ASSUME SettingsInit PROVE SettingsInv
  <2>1. group \in Groups
    BY <1>1 DEF SettingsInit
  <2>2. Reading \in SaveRecord /\ Reading.at = "sent" /\ Reading.reads
    <3>1. NoSave.reads
      BY DEF NoSave
    <3>2. QED BY <2>1, <3>1, NoSaveType DEF Reading, SaveRecord
  <2>3. PICK first \in Calls:
          save = [c \in Calls |-> IF c = first THEN Reading ELSE NoSave]
    BY <1>1 DEF SettingsInit
  <2>4. save \in [Calls -> SaveRecord]
    BY <2>1, <2>2, <2>3, NoSaveType
  <2>5. tainted
    BY <1>1, Zenon DEF SettingsInit
  <2>6. SettingsAgree
    BY <2>5 DEF SettingsAgree
  <2>7. \A c \in Calls: CallAgrees(c)
    BY <2>1, <2>2, <2>3, <2>5, NoSaveType DEF CallAgrees, FreeSave
  <2>8. QED BY <1>1, <2>1, <2>4, <2>6, <2>7, NoSaveType DEF SettingsInit, SettingsInv
<1>2. ASSUME SettingsAside PROVE SettingsInv
  <2>1. group \in Groups
    BY <1>2 DEF SettingsAside, Groups
  <2>2. \A c \in Calls: CallAgrees(c)
    BY <1>2, <2>1, NoSaveType DEF SettingsAside, CallAgrees
  <2>3. save \in [Calls -> SaveRecord] /\ page = stored
    BY <1>2, <2>1, NoSaveType DEF SettingsAside
  <2>4. QED BY <1>2, <2>1, <2>2, <2>3, NoSaveType DEF SettingsAside, SettingsInv, SettingsAgree
<1>3. QED BY <1>1, <1>2

\* A call that begins.
LEMMA StartSettings ==
  ASSUME SettingsInv, NEW c \in Calls, NEW g \in group, NEW want \in Held, NEW reads \in BOOLEAN,
         StartSave(c, reads, g, want), UNCHANGED <<group, stored, tainted>>,
         page' \in Held, draft' \in Held,
         reads \/ group \cap Optimistic = {} => page' = page,
         ~reads => \A h \in group \ {g}: want[h] = page[h]
  PROVE  SettingsInv'
<1> USE SameGroup DEF SettingsInv
<1>1. /\ AllQuiet \in BOOLEAN /\ (AllQuiet /\ ~tainted) \in BOOLEAN
      /\ NoSave \in SaveRecord /\ NoSave.at = "free" /\ ~NoSave.clean
  BY NoSaveType DEF AllQuiet
<1> DEFINE q == [at |-> "sent", reads |-> reads, of |-> g, want |-> want, old |-> page,
                 clean |-> AllQuiet, agreed |-> AllQuiet /\ ~tainted]
<1>2. q \in SaveRecord /\ q # NoSave
  BY <1>1 DEF SaveRecord
<1>3. \A d \in Calls \ {c}: [save[d] EXCEPT !.clean = FALSE] \in SaveRecord
  BY ZenonT(40) DEF SaveRecord
<1>4. save' \in [Calls -> SaveRecord]
  BY <1>1, <1>2, <1>3 DEF StartSave
<1>5. \A d \in Calls \ {c}: /\ ~save'[d].clean
                            /\ FreeSave(d) => save'[d] = NoSave
  BY <1>1 DEF StartSave, SaveRecord
<1>6. save'[c] = q
  BY DEF StartSave
<1>7. ~AllQuiet'
  BY <1>2, <1>6 DEF AllQuiet, FreeSave
<1>8. CallAgrees(c)'
  <2>1. CASE AllQuiet
    <3>1. \A d \in Calls \ {c}: FreeSave(d)'
      BY <1>5, <2>1 DEF AllQuiet, FreeSave
    <3>2. ~tainted => page = stored
      BY <2>1 DEF SettingsAgree
    <3>3. QED BY <1>6, <3>1, <3>2 DEF CallAgrees
  <2>2. CASE ~AllQuiet
    BY <1>6, <2>2 DEF CallAgrees
  <2>3. QED BY <2>1, <2>2
<1>9. \A d \in Calls: CallAgrees(d)'
  BY <1>5, <1>8 DEF CallAgrees
<1>10. QED BY <1>4, <1>7, <1>9 DEF SettingsAgree

\* A call moves on, and the others stay as they are.
LEMMA MoveSettings ==
  ASSUME SettingsInv, NEW c \in Calls, NEW q \in SaveRecord,
         save' = [save EXCEPT ![c] = q], q.at # "free", save[c].at # "free",
         q.clean = save[c].clean, UNCHANGED <<group, page, draft, tainted>>,
         stored' \in Held, save[c].clean \/ UNCHANGED stored \/ stored' = q.want,
         CallAgrees(c)'
  PROVE  SettingsInv'
<1> USE SameGroup, NoSaveType DEF SettingsInv
<1>1. save' \in [Calls -> SaveRecord] /\ save'[c] = q
  OBVIOUS
<1>2. ~AllQuiet'
  BY <1>1 DEF AllQuiet, FreeSave
<1>3. ASSUME NEW d \in Calls \ {c} PROVE CallAgrees(d)'
  <2>1. ~FreeSave(c) /\ save'[d] = save[d]
    BY DEF FreeSave
  <2>2. ~save[d].clean
    BY <2>1 DEF CallAgrees
  <2>3. QED BY <2>1, <2>2 DEF CallAgrees
<1>4. QED BY <1>1, <1>2, <1>3 DEF SettingsAgree

\* A call is over.
LEMMA EndSettings ==
  ASSUME SettingsInv, NEW c \in Calls, SaveEnded(c), save[c].at # "free",
         UNCHANGED <<group, stored>>, page' \in Held, draft' \in Held,
         ~tainted' => save[c].clean /\ page' = stored
  PROVE  SettingsInv'
<1> USE SameGroup, NoSaveType DEF SettingsInv
<1>1. save' \in [Calls -> SaveRecord] /\ save'[c] = NoSave
  BY DEF SaveEnded
<1>2. ASSUME NEW d \in Calls \ {c} PROVE CallAgrees(d)'
  <2>1. ~FreeSave(c) /\ save'[d] = save[d]
    BY DEF FreeSave, SaveEnded
  <2>2. ~save[d].clean
    BY <2>1 DEF CallAgrees
  <2>3. QED BY <2>1, <2>2 DEF CallAgrees
<1>3. CallAgrees(c)'
  BY <1>1 DEF CallAgrees
<1>4. QED BY <1>1, <1>2, <1>3 DEF SettingsAgree

LEMMA SettingsStep == SettingsInv /\ [SettingsNext]_settingsVars => SettingsInv'
<1> SUFFICES ASSUME SettingsInv, [SettingsNext]_settingsVars PROVE SettingsInv'
  OBVIOUS
<1> USE SameGroup, NoSaveType
<1>0. \A d \in Calls: save[d] \in SaveRecord
  BY DEF SettingsInv
<1>1. ASSUME NEW g \in group, NEW v \in SettingValues, OtherAdmin(g, v) PROVE SettingsInv'
  <2>1. \A d \in Calls: save'[d] \in SaveRecord /\ ~save'[d].clean
    BY <1>0, <1>1 DEF OtherAdmin, SettingsInv, SaveRecord
  <2>2. tainted'
    BY <1>1, Zenon DEF OtherAdmin
  <2>3. stored' \in Held
    BY <1>1 DEF OtherAdmin, SettingsInv, Held
  <2>4. save' \in [Calls -> SaveRecord]
    BY <1>1, <2>1 DEF OtherAdmin
  <2>5. QED
    BY <1>1, <2>1, <2>2, <2>3, <2>4 DEF OtherAdmin, SettingsInv, SettingsAgree, CallAgrees
<1>2. ASSUME NEW g \in group, NEW v \in SettingValues, TypeSetting(g, v) PROVE SettingsInv'
  <2>1. draft' \in Held
    BY <1>2 DEF TypeSetting, SettingsInv, Held
  <2>2. \A c \in Calls: CallAgrees(c)' /\ (FreeSave(c)' <=> FreeSave(c))
    BY <1>2 DEF TypeSetting, SettingsInv, CallAgrees, FreeSave
  <2>3. QED
    BY <1>2, <2>1, <2>2 DEF TypeSetting, SettingsInv, SettingsAgree, AllQuiet
<1>3. ASSUME NEW c \in Calls, ServeSave(c) PROVE SettingsInv'
  <2>1. CASE save[c].reads
    <3> DEFINE q == [save[c] EXCEPT !.at = "answered", !.want = stored]
    <3>1. q \in SaveRecord /\ save' = [save EXCEPT ![c] = q]
      BY <1>0, <1>3, <2>1 DEF ServeSave, SettingsInv, SaveRecord
    <3>2. q.at = "answered" /\ q.clean = save[c].clean /\ q.reads /\ q.want = stored
      BY <1>0, <2>1 DEF SaveRecord
    <3>3. CallAgrees(c)'
      BY <1>3, <2>1, <3>1, <3>2 DEF ServeSave, SettingsInv, CallAgrees, FreeSave
    <3> HIDE DEF q
    <3>4. QED BY <1>3, <2>1, <3>1, <3>2, <3>3, MoveSettings DEF ServeSave, SettingsInv
  <2>2. CASE ~save[c].reads
    <3> DEFINE at == IF group \subseteq ReadAgain THEN "again" ELSE "answered"
               q == [save[c] EXCEPT !.at = at]
    <3>1. q \in SaveRecord /\ save' = [save EXCEPT ![c] = q]
      BY <1>0, <1>3, <2>2 DEF ServeSave, SettingsInv, SaveRecord
    <3>2. q.at \in {"again", "answered"} /\ q.clean = save[c].clean /\ ~q.reads
      BY <1>0, <2>2 DEF SaveRecord
    <3>3. stored' = q.want /\ stored' \in Held
      BY <1>0, <1>3, <2>2 DEF ServeSave, SaveRecord
    <3> HIDE DEF q
    <3>4. CallAgrees(c)'
      BY <1>3, <3>1, <3>2, <3>3 DEF ServeSave, SettingsInv, CallAgrees, FreeSave
    <3>5. QED BY <1>3, <3>1, <3>2, <3>3, <3>4, MoveSettings DEF ServeSave
  <2>3. QED BY <2>1, <2>2
<1>4. ASSUME NEW c \in Calls, ServeAgain(c) PROVE SettingsInv'
  <2> DEFINE want == IF save[c].of = "integrations" /\ save[c].want["integrations"] = 0
                     THEN save[c].want ELSE stored
             q == [save[c] EXCEPT !.at = "answered", !.want = want]
  <2>1. q \in SaveRecord /\ save' = [save EXCEPT ![c] = q]
    BY <1>0, <1>4 DEF ServeAgain, SettingsInv, SaveRecord
  <2>2. q.at = "answered" /\ q.clean = save[c].clean /\ q.reads = save[c].reads
        /\ (save[c].clean => q.want = stored)
    BY <1>0, <1>4 DEF ServeAgain, SaveRecord, SettingsInv, CallAgrees
  <2> HIDE DEF q
  <2>3. CallAgrees(c)'
    BY <1>4, <2>1, <2>2 DEF ServeAgain, SettingsInv, CallAgrees, FreeSave
  <2>4. QED BY <1>4, <2>1, <2>2, <2>3, MoveSettings DEF ServeAgain, SettingsInv
<1>5. ASSUME NEW c \in Calls, RefuseSave(c) \/ ForbidSave(c) \/ LoseSaved(c) PROVE SettingsInv'
  <2>1. PICK at \in {"lost", "refused", "forbidden"}:
          /\ save' = [save EXCEPT ![c].at = at]
          /\ at # "lost" => save[c].at = "sent" \/ save[c].reads
    BY <1>5, <1>0 DEF RefuseSave, ForbidSave, LoseSaved, SettingsInv
  <2> DEFINE q == [save[c] EXCEPT !.at = at]
  <2>2. q \in SaveRecord /\ save' = [save EXCEPT ![c] = q]
    BY <1>0, <2>1 DEF SettingsInv, SaveRecord
  <2>3. /\ q.at = at /\ q.clean = save[c].clean /\ q.reads = save[c].reads
        /\ q.old = save[c].old /\ save[c].at # "free"
    BY <1>0, <1>5 DEF SaveRecord, RefuseSave, ForbidSave, LoseSaved
  <2> HIDE DEF q
  <2>4. UNCHANGED <<group, stored, page, draft, tainted>>
    BY <1>5 DEF RefuseSave, ForbidSave, LoseSaved
  <2>5. CallAgrees(c)'
    BY <2>1, <2>2, <2>3, <2>4 DEF SettingsInv, CallAgrees, FreeSave
  <2>6. QED BY <2>2, <2>3, <2>4, <2>5, MoveSettings DEF SettingsInv
<1>6. ASSUME NEW c \in Calls, NEW g \in group, NEW v \in SettingValues, Change(c, g, v)
      PROVE  SettingsInv'
  <2>1. page' \in Held /\ \A h \in group \ {g}: page'[h] = page[h]
    BY <1>6 DEF Change, SettingsInv, Held
  <2>2. ~(group \cap Optimistic = {})
    BY <1>6 DEF Change
  <2> DEFINE want == page'
  <2>3. want \in Held /\ StartSave(c, FALSE, g, want)
    BY <1>6, <2>1 DEF Change
  <2> HIDE DEF want
  <2>4. QED BY <1>6, <2>1, <2>2, <2>3, StartSettings DEF Change, SettingsInv, want
<1>7. ASSUME NEW c \in Calls, NEW g \in group, Save(c, g) PROVE SettingsInv'
  <2>1. group = {g}
    BY <1>7, GroupKinds DEF Save, SettingsInv
  <2>2. QED BY <1>7, <2>1, StartSettings DEF Save, SettingsInv
<1>8. ASSUME NEW c \in Calls, NEW g \in group, NEW v \in SettingValues, SubmitSetting(c, g, v)
      PROVE  SettingsInv'
  <2>1. [page EXCEPT ![g] = v] \in Held
    BY DEF SettingsInv, Held
  <2>2. QED BY <1>8, <2>1, StartSettings DEF SubmitSetting, SettingsInv, Held
<1>9. ASSUME NEW c \in Calls, Refresh(c) PROVE SettingsInv'
  BY <1>9, StartSettings DEF Refresh, SettingsInv
<1>10. ASSUME NEW c \in Calls, SaveAnswered(c) PROVE SettingsInv'
  <2>1. page' \in Held /\ draft' \in Held
    BY <1>0, <1>10 DEF SaveAnswered, SettingsInv, SaveRecord
  <2>2. ~tainted' => save[c].clean /\ page' = stored
    BY <1>10 DEF SaveAnswered, SettingsInv, CallAgrees
  <2>3. QED BY <1>10, <2>1, <2>2, EndSettings DEF SaveAnswered
<1>11. ASSUME NEW c \in Calls, SaveRejected(c) PROVE SettingsInv'
  <2>1. page' \in Held /\ draft' \in Held
    BY <1>0, <1>11 DEF SaveRejected, SettingsInv, SaveRecord
  <2>2. ASSUME ~tainted' PROVE save[c].clean /\ page' = stored
    <3>1. /\ ~tainted /\ save[c].clean /\ save[c].at \in {"refused", "forbidden"}
          /\ ~(group \subseteq Optimistic \ TakenBack)
      BY <1>11, <2>2 DEF SaveRejected
    <3>2. QED BY <1>11, <3>1, GroupKinds DEF SaveRejected, SettingsInv, CallAgrees
  <2>3. QED BY <1>11, <2>1, <2>2, EndSettings DEF SaveRejected
<1>12. CASE UNCHANGED settingsVars
  <2>1. \A c \in Calls: CallAgrees(c)' /\ (FreeSave(c)' <=> FreeSave(c))
    BY <1>12 DEF settingsVars, SettingsInv, CallAgrees, FreeSave
  <2>2. QED BY <1>12, <2>1 DEF settingsVars, SettingsInv, SettingsAgree, AllQuiet
<1>13. QED
  BY <1>1, <1>2, <1>3, <1>4, <1>5, <1>6, <1>7, <1>8, <1>9, <1>10, <1>11, <1>12 DEF SettingsNext

\* Saving one half writes what the page held of the other, which is what is
\* stored.
LEMMA SettingsEffect ==
  ASSUME SettingsInv, [SettingsNext]_settingsVars, NEW c \in Calls,
         save[c].at = "sent", ~save[c].reads, save[c].clean, save[c].agreed,
         save'[c].at \in {"again", "answered"}
  PROVE  \A g \in group \ {save[c].of}: stored'[g] = stored[g]
<1>1. save \in [Calls -> SaveRecord] /\ CallAgrees(c)
  BY DEF SettingsInv
<1>2. \A d \in Calls \ {c}: FreeSave(d) /\ save[d].at = "free"
  BY <1>1, NoSaveType DEF SettingsInv, CallAgrees, FreeSave
<1>3. ServeSave(c)
  <2>1. ASSUME NEW d \in Calls,
               RefuseSave(d) \/ ForbidSave(d) \/ LoseSaved(d) \/ ServeAgain(d)
                 \/ SaveAnswered(d) \/ SaveRejected(d) \/ (d # c /\ ServeSave(d))
        PROVE  FALSE
    BY <1>1, <1>2, <2>1, NoSaveType
    DEF RefuseSave, ForbidSave, LoseSaved, ServeAgain, SaveAnswered, SaveRejected,
        SaveEnded, ServeSave, SettingsInv, SaveRecord
  <2>2. ASSUME NEW d \in Calls, NEW reads, NEW g, NEW want, StartSave(d, reads, g, want)
        PROVE  FALSE
    BY <1>1, <1>2, <2>2, NoSaveType DEF StartSave, FreeSave, SettingsInv, SaveRecord
  <2>3. ASSUME NEW g \in group, NEW v \in SettingValues, OtherAdmin(g, v) \/ TypeSetting(g, v)
        PROVE  FALSE
    BY SMTT(30), <1>1, <2>3, NoSaveType DEF OtherAdmin, TypeSetting, FreeSave, SettingsInv, SaveRecord
  <2>4. ~UNCHANGED settingsVars
    BY DEF settingsVars
  <2>5. QED
    BY <2>1, <2>2, <2>3, <2>4 DEF SettingsNext, Change, SubmitSetting, Save, Refresh
<1>4. QED BY <1>1, <1>3 DEF ServeSave, CallAgrees

-----------------------------------------------------------------------------
(* The composer: no preview is on its way for a requirement that can be    *)
(* confirmed.                                                              *)

Working(c, kind) == pending[c].kind = kind /\ pending[c].server = "working"

SameRow(c, d) ==
  pending[c].project = pending[d].project /\ pending[c].req = pending[d].req

StatusOf(c) == row[pending[c].project][pending[c].req].status

PreviewsComeFirst ==
  /\ \A c \in Calls: Working(c, "decompose") =>
       /\ pending[c].req \in ReqIds
       /\ StatusOf(c) \in {"decomposing", "discarded"}
       /\ \A d \in Calls \ {c}: Working(d, "decompose") => ~SameRow(c, d)
       /\ \A d \in Calls: Working(d, "confirm") => ~SameRow(c, d)
  /\ \A c \in Calls: Working(c, "confirm") =>
       pending[c].req \in ReqIds /\ StatusOf(c) \notin {"absent", "decomposing"}

\* What is shown, confirmed or discarded is a requirement with a number.
Numbered(q) ==
  (\/ q.kind \in {"confirm", "discard"}
   \/ q.kind = "decompose" /\ q.server \in {"working", "done"}) => q.req \in ReqIds

NumbersAreReal ==
  /\ composer.step = "review" => composer.req \in ReqIds
  /\ \A c \in Calls: Numbered(pending[c])

ComposerBase == ComposerTypeOK /\ NumbersAreReal

ComposerInv == ComposerBase /\ PreviewsComeFirst

LEMMA ComposerRecords ==
  /\ NoPending \in PendingRecord /\ NoPending.kind = "none"
  /\ \A p \in Projects: NewComposer(p) \in ComposerRecord
  /\ \A p \in Projects: NewComposer(p).step = "compose"
  /\ NoComposer \in ComposerRecord /\ NoComposer.step = "compose"
<1> USE DefaultProjectAssumption, ComposerAssumption
<1>1. NoPending \in PendingRecord /\ NoPending.kind = "none"
  BY DEF NoPending, PendingRecord
<1>2. \A p \in Projects: NewComposer(p) \in ComposerRecord /\ NewComposer(p).step = "compose"
  BY DEF NewComposer, ComposerRecord, Steps
<1>3. NoComposer \in ComposerRecord /\ NoComposer.step = "compose"
  <2>1. NewComposer(DefaultProject) \in ComposerRecord /\ NewComposer(DefaultProject).step = "compose"
    BY <1>2
  <2>2. QED BY <2>1 DEF NoComposer, ComposerRecord
<1>4. QED BY <1>1, <1>2, <1>3

LEMMA ComposerStart == ComposerInit \/ ComposerAside => ComposerInv
<1> SUFFICES ASSUME ComposerInit PROVE ComposerInv
  BY DEF ComposerAside
<1>1. row \in [Projects -> [ReqIds -> [status: Statuses, made: 0..2]]]
  BY DEF ComposerInit, Statuses
<1>2. ComposerTypeOK
  BY <1>1, ComposerRecords, ComposerAssumption DEF ComposerInit, ComposerTypeOK
<1>3. PreviewsComeFirst
  <2>1. \A c \in Calls: pending[c].kind = "none"
    BY ComposerRecords DEF ComposerInit
  <2>2. QED BY <2>1 DEF PreviewsComeFirst, Working
<1>4. NumbersAreReal
  <2>1. \A c \in Calls: pending[c].kind = "none"
    BY ComposerRecords DEF ComposerInit
  <2>2. QED BY <2>1, ComposerRecords DEF ComposerInit, NumbersAreReal, Numbered
<1>5. QED BY <1>2, <1>3, <1>4 DEF ComposerInv, ComposerBase

ReqRow == [status: Statuses, made: 0..2]

\* What the server does to one requirement, and what a step does to one call.
Marked(p, i, s) == row' = [row EXCEPT ![p][i].status = s]

LEMMA StatusWritten ==
  ASSUME ComposerTypeOK, NEW p \in Projects, NEW i \in ReqIds, NEW s \in Statuses, Marked(p, i, s)
  PROVE  /\ row' \in [Projects -> [ReqIds -> ReqRow]]
         /\ row'[p][i].status = s /\ row'[p][i].made = row[p][i].made
         /\ \A o \in Projects, j \in ReqIds: (o # p \/ j # i) => row'[o][j] = row[o][j]
<1>1. row \in [Projects -> [ReqIds -> ReqRow]]
  BY DEF ComposerTypeOK, ReqRow
<1>2. row[p][i] \in ReqRow /\ row[p] \in [ReqIds -> ReqRow]
  BY <1>1
<1> DEFINE r == [row[p][i] EXCEPT !.status = s]
           rs == [row[p] EXCEPT ![i] = r]
<1>3. r \in ReqRow /\ r.status = s /\ r.made = row[p][i].made
  BY <1>2 DEF ReqRow
<1>4. row'[p] = rs /\ DOMAIN row' = Projects /\ \A o \in Projects \ {p}: row'[o] = row[o]
  BY <1>1 DEF Marked
<1> HIDE DEF r
<1>5. rs \in [ReqIds -> ReqRow] /\ rs[i] = r /\ \A j \in ReqIds \ {i}: rs[j] = row[p][j]
  BY <1>2, <1>3
<1> HIDE DEF rs
<1>6. \A o \in Projects: row'[o] \in [ReqIds -> ReqRow]
  BY <1>1, <1>4, <1>5
<1>7. row' \in [Projects -> [ReqIds -> ReqRow]]
  BY <1>1, <1>4, <1>6 DEF Marked
<1>8. QED BY <1>3, <1>4, <1>5, <1>7

LEMMA ServerMoves ==
  ASSUME ComposerTypeOK, NEW c \in Calls, NEW state \in {"sent", "working", "done", "refused"},
         ServerIs(c, state)
  PROVE  /\ pending' \in [Calls -> PendingRecord]
         /\ \A d \in Calls \ {c}: pending'[d] = pending[d]
         /\ \/ pending'[c].kind = "none"
            \/ /\ pending'[c].kind = pending[c].kind /\ pending'[c].server = state
               /\ pending'[c].project = pending[c].project /\ pending'[c].req = pending[c].req
<1> DEFINE q == IF state \in {"done", "refused"} /\ ~pending[c].awaited THEN NoPending
                ELSE [pending[c] EXCEPT !.server = state]
<1>1. pending[c] \in PendingRecord
  BY DEF ComposerTypeOK
<1>2. /\ q \in PendingRecord
      /\ \/ q.kind = "none"
         \/ /\ q.kind = pending[c].kind /\ q.server = state
            /\ q.project = pending[c].project /\ q.req = pending[c].req
  BY <1>1, ComposerRecords DEF PendingRecord
<1>3. pending' = [pending EXCEPT ![c] = q]
  BY DEF ServerIs
<1> HIDE DEF q
<1>4. QED BY <1>2, <1>3 DEF ComposerTypeOK

LEMMA PageWaitsNoMore ==
  ASSUME ComposerTypeOK, NEW c \in Calls, PendingOver(c)
  PROVE  /\ pending' \in [Calls -> PendingRecord]
         /\ \A d \in Calls \ {c}: pending'[d] = pending[d]
         /\ \/ pending'[c].kind = "none"
            \/ /\ pending'[c].kind = pending[c].kind /\ pending'[c].server = pending[c].server
               /\ pending'[c].project = pending[c].project /\ pending'[c].req = pending[c].req
<1> DEFINE q == IF pending[c].server \in {"done", "refused"} THEN NoPending
                ELSE [pending[c] EXCEPT !.awaited = FALSE]
<1>1. pending[c] \in PendingRecord
  BY DEF ComposerTypeOK
<1>2. /\ q \in PendingRecord
      /\ \/ q.kind = "none"
         \/ /\ q.kind = pending[c].kind /\ q.server = pending[c].server
            /\ q.project = pending[c].project /\ q.req = pending[c].req
  BY <1>1, ComposerRecords DEF PendingRecord
<1>3. pending' = [pending EXCEPT ![c] = q]
  BY DEF PendingOver
<1> HIDE DEF q
<1>4. QED BY <1>2, <1>3 DEF ComposerTypeOK

LEMMA CallMade ==
  ASSUME ComposerTypeOK, NEW c \in Calls, NEW kind \in {"decompose", "confirm", "discard"},
         NEW p \in Projects, NEW i \in 0..MaxReq, NEW awaited \in BOOLEAN,
         Request(c, kind, p, i, awaited)
  PROVE  /\ pending' \in [Calls -> PendingRecord]
         /\ pending'[c].server = "sent" /\ pending'[c].kind = kind /\ pending'[c].req = i
         /\ \A d \in Calls \ {c}: pending'[d] = pending[d]
<1> DEFINE q == [kind |-> kind, project |-> p, req |-> i, server |-> "sent",
                 awaited |-> awaited, mine |-> awaited]
<1>1. /\ q \in PendingRecord /\ q.server = "sent" /\ q.kind = kind /\ q.req = i
      /\ pending' = [pending EXCEPT ![c] = q]
  BY DEF Request, PendingRecord
<1> HIDE DEF q
<1>2. QED BY <1>1 DEF ComposerTypeOK

\* Where no row changes and no call comes to work, what was so stays so.
LEMMA NothingBegins ==
  ASSUME PreviewsComeFirst, UNCHANGED row,
         \A d \in Calls: \A kind \in {"decompose", "confirm"}:
           Working(d, kind)' => /\ Working(d, kind)
                                /\ pending'[d].project = pending[d].project
                                /\ pending'[d].req = pending[d].req
  PROVE  PreviewsComeFirst'
BY DEF PreviewsComeFirst, StatusOf, SameRow

\* One call changes, and the composer shows no other preview without a number.
LEMMA NumbersKept ==
  ASSUME NumbersAreReal,
         composer'.step = "review" =>
           composer'.req \in ReqIds \/ (composer.step = "review" /\ composer'.req = composer.req),
         NEW c \in Calls, Numbered(pending'[c]),
         \A d \in Calls \ {c}: pending'[d] = pending[d]
  PROVE  NumbersAreReal'
<1>1. \A d \in Calls: Numbered(pending'[d])
  BY DEF NumbersAreReal
<1>2. QED BY <1>1 DEF NumbersAreReal

LEMMA ServerKeepsBase ==
  ASSUME ComposerBase, NEW c \in Calls,
         \/ EndDecompose(c) \/ BeginConfirm(c) \/ EndConfirm(c) \/ HalfConfirm(c) \/ ServeDiscard(c)
         \/ \E i \in ReqIds: BeginDecompose(c, i)
  PROVE  ComposerBase'
<1> USE DEF ComposerBase
<1> DEFINE q == pending[c]
<1>1. q \in PendingRecord /\ q.project \in Projects /\ pending \in [Calls -> PendingRecord]
  BY DEF ComposerTypeOK, PendingRecord
<1>2. ASSUME NEW i \in ReqIds, BeginDecompose(c, i) PROVE ComposerBase'
  <2>1. row' \in [Projects -> [ReqIds -> ReqRow]]
    <3>1. "decomposing" \in Statuses /\ Marked(q.project, i, "decomposing")
      BY <1>2 DEF BeginDecompose, Statuses, Marked
    <3>2. QED BY <1>1, <3>1, StatusWritten
  <2> DEFINE k == [q EXCEPT !.server = "working", !.req = i]
  <2>2. k \in PendingRecord /\ k.req = i /\ pending' = [pending EXCEPT ![c] = k]
    <3>1. i \in 0..MaxReq
      BY ComposerAssumption DEF ReqIds
    <3>2. pending' = [pending EXCEPT ![c].server = "working", ![c].req = i]
      BY <1>2 DEF BeginDecompose
    <3>3. QED BY <1>1, <3>1, <3>2 DEF PendingRecord
  <2> HIDE DEF k
  <2>3. UNCHANGED <<chosen, composer, broken>>
    BY <1>2 DEF BeginDecompose
  <2>4. pending' \in [Calls -> PendingRecord]
    BY <1>1, <2>2
  <2>5. NumbersAreReal'
    <3>1. pending'[c] = k /\ \A d \in Calls \ {c}: pending'[d] = pending[d]
      BY <1>1, <2>2
    <3>2. Numbered(pending'[c])
      BY <2>2, <3>1 DEF Numbered
    <3>3. QED BY <2>3, <3>1, <3>2, NumbersKept DEF NumbersAreReal
  <2>6. QED BY <2>1, <2>3, <2>4, <2>5 DEF ComposerTypeOK, ReqRow
<1>3. CASE EndDecompose(c) \/ BeginConfirm(c) \/ EndConfirm(c) \/ HalfConfirm(c) \/ ServeDiscard(c)
  <2>1. q.req \in ReqIds /\ UNCHANGED <<chosen, composer>>
    BY <1>3 DEF NumbersAreReal, Numbered, EndDecompose, BeginConfirm, EndConfirm, HalfConfirm,
          ServeDiscard
  <2>2. PICK state \in {"working", "done", "refused"}: ServerIs(c, state)
    BY <1>3 DEF EndDecompose, BeginConfirm, EndConfirm, HalfConfirm, ServeDiscard
  <2>3. pending' \in [Calls -> PendingRecord]
    BY <2>2, ServerMoves
  <2>4. NumbersAreReal'
    <3>1. Numbered(pending'[c]) /\ \A d \in Calls \ {c}: pending'[d] = pending[d]
      BY <2>1, <2>2, ServerMoves DEF Numbered
    <3>2. QED BY <2>1, <3>1, NumbersKept DEF NumbersAreReal
  <2>5. row' \in [Projects -> [ReqIds -> ReqRow]]
    <3>1. CASE EndConfirm(c) \/ HalfConfirm(c)
      <4>1. row[q.project][q.req].made \in 0..1
        <5>1. row[q.project][q.req].made \in 0..2
          BY <1>1, <2>1 DEF ComposerTypeOK
        <5>2. row[q.project][q.req].made < 2
          BY <3>1 DEF EndConfirm, HalfConfirm
        <5>3. QED BY <5>1, <5>2
      <4>2. \E r \in ReqRow: row' = [row EXCEPT ![q.project][q.req] = r]
        <5>1. row[q.project][q.req] \in ReqRow
          BY <1>1, <2>1 DEF ComposerTypeOK, ReqRow
        <5>2. CASE EndConfirm(c)
          <6> DEFINE r == [status |-> "confirmed", made |-> row[q.project][q.req].made + 1]
          <6>1. r \in ReqRow
            BY <4>1 DEF ReqRow, Statuses
          <6>2. row' = [row EXCEPT ![q.project][q.req] = r]
            BY <5>2 DEF EndConfirm
          <6>3. QED BY <6>1, <6>2
        <5>3. CASE HalfConfirm(c)
          <6> DEFINE r == [row[q.project][q.req] EXCEPT !.made = @ + 1]
          <6>1. r \in ReqRow
            BY SMTT(30), <4>1, <5>1 DEF ReqRow
          <6>2. row' = [row EXCEPT ![q.project][q.req] = r]
            BY <5>3 DEF HalfConfirm
          <6>3. QED BY <6>1, <6>2
        <5>4. QED BY <3>1, <5>2, <5>3
      <4>3. QED BY <1>1, <2>1, <4>2 DEF ComposerTypeOK, ReqRow
    <3>2. CASE EndDecompose(c) \/ BeginConfirm(c) \/ ServeDiscard(c)
      <4>1. \/ UNCHANGED row \/ Marked(q.project, q.req, "preview_ready")
            \/ Marked(q.project, q.req, "discarded")
        BY <3>2 DEF EndDecompose, BeginConfirm, ServeDiscard, Marked
      <4>2. {"preview_ready", "discarded"} \subseteq Statuses
        BY DEF Statuses
      <4>3. QED BY <1>1, <2>1, <4>1, <4>2, StatusWritten DEF ComposerTypeOK, ReqRow
    <3>3. QED BY <1>3, <3>1, <3>2
  <2>6. broken' \in 0..MaxBroken
    <3>1. broken \in 0..MaxBroken
      BY DEF ComposerBase, ComposerTypeOK
    <3>2. CASE HalfConfirm(c)
      <4>1. broken < MaxBroken /\ broken' = broken + 1
        BY <3>2 DEF HalfConfirm
      <4>2. QED BY <3>1, <4>1, ComposerAssumption
    <3>3. CASE ~HalfConfirm(c)
      <4>1. UNCHANGED broken
        BY <1>3, <3>3 DEF EndDecompose, BeginConfirm, EndConfirm, ServeDiscard
      <4>2. QED BY <3>1, <4>1
    <3>4. QED BY <3>2, <3>3
  <2>7. QED BY <2>1, <2>3, <2>4, <2>5, <2>6 DEF ComposerTypeOK, ReqRow
<1>4. QED BY <1>2, <1>3

LEMMA UserKeepsBase ==
  ASSUME ComposerBase,
         \/ \E p \in Projects: Choose(p) \/ Target(p)
         \/ OpenComposer \/ Back \/ CloseComposer
         \/ \E c \in Calls: Decompose(c) \/ Approve(c) \/ Discard(c)
  PROVE  ComposerBase' /\ UNCHANGED row
<1> USE DefaultProjectAssumption, ComposerAssumption DEF ComposerBase
<1>1. composer \in ComposerRecord /\ composer.project \in Projects /\ composer.req \in 0..MaxReq
  BY DEF ComposerTypeOK, ComposerRecord
<1>2. ASSUME NEW p \in Projects, Choose(p) \/ Target(p) PROVE ComposerBase' /\ UNCHANGED row
  <2>1. /\ composer' \in ComposerRecord /\ composer'.step = composer.step
        /\ composer'.req = composer.req
    BY <1>1, <1>2 DEF Choose, Target, ComposerRecord
  <2>2. QED BY <1>2, <2>1 DEF Choose, Target, ComposerTypeOK, NumbersAreReal
<1>3. CASE OpenComposer
  BY <1>3, ComposerRecords DEF OpenComposer, ComposerTypeOK, NumbersAreReal
<1>4. CASE Back
  <2>1. composer' \in ComposerRecord /\ composer'.step = "compose"
    BY <1>1, <1>4 DEF Back, ComposerRecord, Steps
  <2>2. QED BY <1>4, <2>1 DEF Back, ComposerTypeOK, NumbersAreReal
<1>5. CASE CloseComposer
  <2>1. /\ pending' \in [Calls -> PendingRecord]
        /\ \A d \in Calls: /\ pending'[d].kind = pending[d].kind /\ pending'[d].req = pending[d].req
                           /\ pending'[d].server = pending[d].server
    BY ZenonT(40), <1>5 DEF CloseComposer, Abandoned, ComposerTypeOK, PendingRecord
  <2>2. NumbersAreReal'
    BY <1>5, <2>1, ComposerRecords DEF CloseComposer, NumbersAreReal, Numbered
  <2>3. QED BY <1>5, <2>1, <2>2, ComposerRecords DEF CloseComposer, ComposerTypeOK
<1>6. ASSUME NEW c \in Calls, Decompose(c) PROVE ComposerBase' /\ UNCHANGED row
  <2>1. composer' \in ComposerRecord /\ composer'.step = "decomposing"
    BY <1>1, <1>6 DEF Decompose, ComposerRecord, Steps
  <2>2. /\ pending' \in [Calls -> PendingRecord] /\ pending'[c].server = "sent"
        /\ pending'[c].kind = "decompose"
        /\ \A d \in Calls \ {c}: pending'[d] = pending[d]
    <3>1. 0 \in 0..MaxReq
      OBVIOUS
    <3>2. Request(c, "decompose", composer.project, 0, TRUE)
      BY <1>6 DEF Decompose
    <3>3. QED BY <1>1, <3>1, <3>2, CallMade
  <2>3. NumbersAreReal'
    <3>1. Numbered(pending'[c])
      BY <2>2 DEF Numbered
    <3>2. QED BY <2>1, <2>2, <3>1, NumbersKept
  <2>4. QED BY <1>6, <2>1, <2>2, <2>3 DEF Decompose, ComposerTypeOK
<1>7. ASSUME NEW c \in Calls, Approve(c) PROVE ComposerBase' /\ UNCHANGED row
  <2>1. /\ composer' \in ComposerRecord /\ composer'.step = composer.step
        /\ composer'.req = composer.req /\ composer.req \in ReqIds
    BY <1>1, <1>7 DEF Approve, AtReview, ComposerRecord, NumbersAreReal
  <2>2. /\ pending' \in [Calls -> PendingRecord] /\ pending'[c].req \in ReqIds
        /\ \A d \in Calls \ {c}: pending'[d] = pending[d]
    BY <1>1, <1>7, <2>1, CallMade DEF Approve
  <2>3. NumbersAreReal'
    <3>1. Numbered(pending'[c])
      BY <2>2 DEF Numbered
    <3>2. QED BY <2>1, <2>2, <3>1, NumbersKept
  <2>4. broken' \in 0..MaxBroken
    BY <1>7 DEF Approve, ComposerTypeOK
  <2>5. QED BY <1>7, <2>1, <2>2, <2>3, <2>4 DEF Approve, ComposerTypeOK
<1>8. ASSUME NEW c \in Calls, Discard(c) PROVE ComposerBase' /\ UNCHANGED row
  <2>1. composer.req \in ReqIds
    BY <1>8 DEF Discard, AtReview, NumbersAreReal
  <2>2. /\ pending' \in [Calls -> PendingRecord] /\ pending'[c].req \in ReqIds
        /\ \A d \in Calls \ {c}: pending'[d] = pending[d]
    BY <1>1, <1>8, <2>1, CallMade DEF Discard
  <2>3. NumbersAreReal'
    <3>1. Numbered(pending'[c]) /\ composer'.step = "compose"
      BY <1>8, <2>2, ComposerRecords DEF Discard, Numbered
    <3>2. QED BY <2>2, <3>1, NumbersKept
  <2>4. QED BY <1>8, <2>2, <2>3, ComposerRecords DEF Discard, ComposerTypeOK
<1>9. QED BY <1>2, <1>3, <1>4, <1>5, <1>6, <1>7, <1>8

LEMMA AnswerKeepsBase ==
  ASSUME ComposerBase, NEW c \in Calls, Decomposed(c) \/ Confirmed(c) \/ Failed(c)
  PROVE  ComposerBase' /\ UNCHANGED row
<1> USE ComposerAssumption DEF ComposerBase
<1> DEFINE q == pending[c]
<1>1. /\ composer \in ComposerRecord /\ q \in PendingRecord /\ q.project \in Projects
      /\ q.req \in 0..MaxReq /\ PendingOver(c) /\ UNCHANGED row
  BY DEF ComposerTypeOK, PendingRecord, Decomposed, Confirmed, Failed
<1>2. \A k \in ComposerRecord: /\ Followed(k, q.project) \in ComposerRecord
                               /\ Followed(k, q.project).step = k.step
                               /\ Followed(k, q.project).req = k.req
  BY <1>1 DEF Followed, ComposerRecord
<1>3. /\ composer' \in ComposerRecord
      /\ composer'.step = "review" =>
           composer'.req \in ReqIds \/ (composer.step = "review" /\ composer'.req = composer.req)
  <2>1. CASE Decomposed(c)
    <3>1. q.req \in ReqIds
      BY <2>1 DEF Decomposed, NumbersAreReal, Numbered
    <3>2. QED BY <1>1, <2>1, <3>1 DEF Decomposed, ComposerRecord, Steps
  <2>2. CASE Confirmed(c)
    <3> DEFINE k == IF q.mine THEN [composer EXCEPT !.step = "created", !.confirming = FALSE]
                    ELSE composer
    <3>1. k \in ComposerRecord /\ (k.step = "review" => k = composer)
      BY <1>1 DEF ComposerRecord, Steps
    <3>2. composer' = Followed(k, q.project)
      BY <2>2 DEF Confirmed
    <3> HIDE DEF k
    <3>3. QED BY <1>2, <3>1, <3>2
  <2>3. CASE Failed(c)
    BY <1>1, <2>3 DEF Failed, ComposerRecord, Steps
  <2>4. QED BY <2>1, <2>2, <2>3
<1>4. pending' \in [Calls -> PendingRecord] /\ NumbersAreReal'
  <2>1. Numbered(pending'[c])
    BY <1>1, PageWaitsNoMore DEF NumbersAreReal, Numbered
  <2>2. QED BY <1>1, <1>3, <2>1, PageWaitsNoMore, NumbersKept
<1>5. chosen' \in Projects /\ broken' \in 0..MaxBroken
  BY <1>1 DEF Decomposed, Confirmed, Failed, ComposerTypeOK
<1>6. QED BY <1>1, <1>3, <1>4, <1>5 DEF ComposerTypeOK

LEMMA BaseStep == ComposerBase /\ [ComposerNext]_composerVars => ComposerBase'
<1>1. ASSUME ComposerBase, UNCHANGED composerVars PROVE ComposerBase'
  BY <1>1 DEF composerVars, ComposerBase, ComposerTypeOK, NumbersAreReal
<1>2. QED BY <1>1, ServerKeepsBase, UserKeepsBase, AnswerKeepsBase DEF ComposerNext

\* One call is through, and the rows of the others are as they must be.
LEMMA OneIsThrough ==
  ASSUME PreviewsComeFirst, NEW c \in Calls,
         \A d \in Calls \ {c}: pending'[d] = pending[d],
         \/ pending'[c].kind \notin {"decompose", "confirm"}
         \/ pending'[c].server # "working",
         \A d \in Calls \ {c}: Working(d, "decompose") =>
           row'[pending[d].project][pending[d].req].status \in {"decomposing", "discarded"},
         \A d \in Calls \ {c}: Working(d, "confirm") =>
           row'[pending[d].project][pending[d].req].status \notin {"absent", "decomposing"}
  PROVE  PreviewsComeFirst'
<1>1. \A d \in Calls, kind \in {"decompose", "confirm"}: Working(d, kind)' => d # c /\ Working(d, kind)
  BY DEF Working
<1>2. QED BY SMTT(30), <1>1 DEF PreviewsComeFirst, StatusOf, SameRow

\* A requirement that is begun has a row nobody works at.
LEMMA BeginIsApart ==
  ASSUME ComposerBase, PreviewsComeFirst, NEW c \in Calls, NEW i \in ReqIds, BeginDecompose(c, i)
  PROVE  PreviewsComeFirst'
<1> DEFINE p == pending[c].project
<1>1. /\ ComposerTypeOK /\ pending \in [Calls -> PendingRecord] /\ p \in Projects
      /\ row[p][i].status = "absent"
  BY DEF ComposerBase, ComposerTypeOK, PendingRecord, BeginDecompose, Status
<1>2. /\ row'[p][i].status = "decomposing"
      /\ \A o \in Projects, j \in ReqIds: (o # p \/ j # i) => row'[o][j] = row[o][j]
  <2>1. Marked(p, i, "decomposing") /\ "decomposing" \in Statuses
    BY DEF BeginDecompose, Marked, Statuses
  <2>2. QED BY <1>1, <2>1, StatusWritten
<1>3. /\ pending'[c].kind = "decompose" /\ pending'[c].project = p /\ pending'[c].req = i
      /\ \A d \in Calls \ {c}: pending'[d] = pending[d]
  BY <1>1 DEF BeginDecompose, PendingRecord
<1>4. \A d \in Calls \ {c}, kind \in {"decompose", "confirm"}: Working(d, kind) =>
        /\ pending[d].project \in Projects /\ pending[d].req \in ReqIds
        /\ pending[d].project # p \/ pending[d].req # i
        /\ row'[pending[d].project][pending[d].req] = row[pending[d].project][pending[d].req]
  <2> TAKE d \in Calls \ {c}, kind \in {"decompose", "confirm"}
  <2> HAVE Working(d, kind)
  <2>1. pending[d].project \in Projects
    BY <1>1 DEF PendingRecord
  <2>2. pending[d].req \in ReqIds /\ StatusOf(d) # "absent"
    BY DEF PreviewsComeFirst
  <2>3. pending[d].project # p \/ pending[d].req # i
    BY <1>1, <2>2 DEF StatusOf
  <2>4. QED BY <1>2, <2>1, <2>2, <2>3
<1> HIDE DEF p
<1>5. \A d \in Calls, kind \in {"decompose", "confirm"}: Working(d, kind)' =>
        (d = c /\ kind = "decompose") \/ (d # c /\ Working(d, kind))
  <2> TAKE d \in Calls, kind \in {"decompose", "confirm"}
  <2> HAVE Working(d, kind)'
  <2>1. pending'[d].kind = kind /\ pending'[d].server = "working"
    BY DEF Working
  <2>2. CASE d = c
    BY <1>3, <2>1, <2>2
  <2>3. CASE d # c
    <3>1. pending'[d] = pending[d]
      BY <1>3, <2>3
    <3>2. QED BY <2>1, <2>3, <3>1 DEF Working
  <2>4. QED BY <2>2, <2>3
<1>6. QED BY SMTT(30), <1>2, <1>3, <1>4, <1>5 DEF PreviewsComeFirst, StatusOf, SameRow

LEMMA EndIsApart ==
  ASSUME ComposerBase, PreviewsComeFirst, NEW c \in Calls, EndDecompose(c)
  PROVE  PreviewsComeFirst'
<1> DEFINE p == pending[c].project
           i == pending[c].req
<1>1. /\ ComposerTypeOK /\ pending \in [Calls -> PendingRecord] /\ p \in Projects
      /\ i \in ReqIds /\ Working(c, "decompose")
  BY DEF ComposerBase, ComposerTypeOK, PendingRecord, EndDecompose, Working, PreviewsComeFirst
<1>2. PICK state \in {"done", "refused"}: ServerIs(c, state)
  BY DEF EndDecompose
<1>3. /\ \A d \in Calls \ {c}: pending'[d] = pending[d]
      /\ pending'[c].kind = "none" \/ pending'[c].server # "working"
  BY <1>1, <1>2, ServerMoves
<1>4. UNCHANGED row \/ Marked(p, i, "preview_ready")
  BY DEF EndDecompose, Marked
<1>5. \A o \in Projects, j \in ReqIds: (o # p \/ j # i) => row'[o][j] = row[o][j]
  <2>1. "preview_ready" \in Statuses
    BY DEF Statuses
  <2>2. QED BY <1>1, <1>4, <2>1, StatusWritten
<1>6. \A d \in Calls \ {c}, kind \in {"decompose", "confirm"}: Working(d, kind) =>
        row'[pending[d].project][pending[d].req] = row[pending[d].project][pending[d].req]
  <2> TAKE d \in Calls \ {c}, kind \in {"decompose", "confirm"}
  <2> HAVE Working(d, kind)
  <2>1. pending[d].project \in Projects /\ pending[d].req \in ReqIds
    BY <1>1 DEF PendingRecord, PreviewsComeFirst
  <2>2. pending[d].project # p \/ pending[d].req # i
    BY <1>1 DEF PreviewsComeFirst, SameRow
  <2>3. QED BY <1>5, <2>1, <2>2
<1>7. QED BY <1>3, <1>6, OneIsThrough DEF PreviewsComeFirst, StatusOf

LEMMA ConfirmComesAfter ==
  ASSUME ComposerBase, PreviewsComeFirst, NEW c \in Calls, BeginConfirm(c)
  PROVE  PreviewsComeFirst'
<1>1. /\ ComposerTypeOK /\ pending[c].kind = "confirm" /\ pending[c].req \in ReqIds /\ UNCHANGED row
  BY DEF ComposerBase, BeginConfirm, NumbersAreReal, Numbered
<1>2. CASE StatusOf(c) = "preview_ready"
  <2>1. ServerIs(c, "working")
    BY <1>2 DEF BeginConfirm, StatusOf, Status
  <2>2. /\ \A d \in Calls \ {c}: pending'[d] = pending[d]
        /\ \/ pending'[c].kind = "none"
           \/ /\ pending'[c].kind = "confirm" /\ pending'[c].project = pending[c].project
              /\ pending'[c].req = pending[c].req
    BY <1>1, <2>1, ServerMoves
  <2>3. \A d \in Calls: Working(d, "decompose") => ~SameRow(c, d) /\ ~SameRow(d, c)
    BY <1>2 DEF PreviewsComeFirst, StatusOf, SameRow
  <2>4. \A d \in Calls, kind \in {"decompose", "confirm"}: Working(d, kind)' =>
          /\ (d = c /\ kind = "confirm") \/ (d # c /\ Working(d, kind))
          /\ pending'[d].project = pending[d].project /\ pending'[d].req = pending[d].req
    <3> TAKE d \in Calls, kind \in {"decompose", "confirm"}
    <3> HAVE Working(d, kind)'
    <3>1. pending'[d].kind = kind /\ pending'[d].server = "working"
      BY DEF Working
    <3>2. CASE d = c
      BY <2>2, <3>1, <3>2
    <3>3. CASE d # c
      <4>1. pending'[d] = pending[d]
        BY <2>2, <3>3
      <4>2. QED BY <3>1, <3>3, <4>1 DEF Working
    <3>4. QED BY <3>2, <3>3
  <2>5. QED BY <1>1, <1>2, <2>3, <2>4 DEF PreviewsComeFirst, StatusOf, SameRow
<1>3. CASE StatusOf(c) # "preview_ready"
  <2>1. ServerIs(c, "refused")
    BY <1>3 DEF BeginConfirm, StatusOf, Status
  <2>2. /\ \A d \in Calls \ {c}: pending'[d] = pending[d]
        /\ pending'[c].kind = "none" \/ pending'[c].server # "working"
    BY <1>1, <2>1, ServerMoves
  <2>3. QED BY <1>1, <2>2, OneIsThrough DEF PreviewsComeFirst, StatusOf
<1>4. QED BY <1>2, <1>3

LEMMA ConfirmIsApart ==
  ASSUME ComposerBase, PreviewsComeFirst, NEW c \in Calls,
         EndConfirm(c) \/ HalfConfirm(c) \/ ServeDiscard(c)
  PROVE  PreviewsComeFirst'
<1> DEFINE p == pending[c].project
           i == pending[c].req
<1>1. /\ ComposerTypeOK /\ pending \in [Calls -> PendingRecord] /\ p \in Projects /\ i \in ReqIds
  BY DEF ComposerBase, ComposerTypeOK, PendingRecord, EndConfirm, HalfConfirm, ServeDiscard,
         NumbersAreReal, Numbered
<1>2. PICK state \in {"done", "refused"}: ServerIs(c, state)
  BY DEF EndConfirm, HalfConfirm, ServeDiscard
<1>3. /\ \A d \in Calls \ {c}: pending'[d] = pending[d]
      /\ pending'[c].kind = "none" \/ pending'[c].server # "working"
  BY <1>1, <1>2, ServerMoves
<1>4. \A d \in Calls, kind \in {"decompose", "confirm"}: Working(d, kind) =>
        pending[d].project \in Projects /\ pending[d].req \in ReqIds
  BY <1>1 DEF PendingRecord, PreviewsComeFirst
<1>5. CASE EndConfirm(c)
  <2>1. \A d \in Calls: Working(d, "decompose") => ~SameRow(d, c)
    <3>1. Working(c, "confirm")
      BY <1>5 DEF EndConfirm, Working
    <3>2. QED BY <3>1 DEF PreviewsComeFirst
  <2>2. /\ row'[p][i].status = "confirmed"
        /\ \A o \in Projects, j \in ReqIds: (o # p \/ j # i) => row'[o][j] = row[o][j]
    <3> DEFINE r == [status |-> "confirmed", made |-> row[p][i].made + 1]
    <3>1. row' = [row EXCEPT ![p][i] = r] /\ r.status = "confirmed"
      BY <1>5 DEF EndConfirm
    <3> HIDE DEF r
    <3>2. QED BY <1>1, <3>1 DEF ComposerTypeOK
  <2>3. ASSUME NEW d \in Calls \ {c}, Working(d, "decompose")
       PROVE  row'[pending[d].project][pending[d].req].status \in {"decomposing", "discarded"}
    <3>1. pending[d].project \in Projects /\ pending[d].req \in ReqIds
      BY <1>4, <2>3
    <3>2. row[pending[d].project][pending[d].req].status \in {"decomposing", "discarded"}
      BY <2>3 DEF PreviewsComeFirst, StatusOf
    <3>3. pending[d].project # p \/ pending[d].req # i
      BY <2>1, <2>3 DEF SameRow
    <3>4. QED BY <2>2, <3>1, <3>2, <3>3
  <2>4. ASSUME NEW d \in Calls \ {c}, Working(d, "confirm")
       PROVE  row'[pending[d].project][pending[d].req].status \notin {"absent", "decomposing"}
    <3>1. pending[d].project \in Projects /\ pending[d].req \in ReqIds
      BY <1>4, <2>4
    <3>2. row[pending[d].project][pending[d].req].status \notin {"absent", "decomposing"}
      BY <2>4 DEF PreviewsComeFirst, StatusOf
    <3>3. CASE pending[d].project = p /\ pending[d].req = i
      BY <2>2, <3>3
    <3>4. CASE pending[d].project # p \/ pending[d].req # i
      BY <2>2, <3>1, <3>2, <3>4
    <3>5. QED BY <3>3, <3>4
  <2>5. QED BY <1>3, <2>3, <2>4, OneIsThrough
<1>6. CASE HalfConfirm(c)
  <2>1. \A o \in Projects, j \in ReqIds: row'[o][j].status = row[o][j].status
    <3> DEFINE r == [row[p][i] EXCEPT !.made = @ + 1]
    <3>1. row' = [row EXCEPT ![p][i] = r] /\ r.status = row[p][i].status
      BY SMTT(30), <1>1, <1>6 DEF HalfConfirm, ComposerTypeOK
    <3> HIDE DEF r
    <3>2. QED BY <1>1, <3>1 DEF ComposerTypeOK
  <2>2. ASSUME NEW d \in Calls \ {c}, Working(d, "decompose")
       PROVE  row'[pending[d].project][pending[d].req].status \in {"decomposing", "discarded"}
    <3>1. pending[d].project \in Projects /\ pending[d].req \in ReqIds
      BY <1>4, <2>2
    <3>2. row[pending[d].project][pending[d].req].status \in {"decomposing", "discarded"}
      BY <2>2 DEF PreviewsComeFirst, StatusOf
    <3>3. QED BY <2>1, <3>1, <3>2
  <2>3. ASSUME NEW d \in Calls \ {c}, Working(d, "confirm")
       PROVE  row'[pending[d].project][pending[d].req].status \notin {"absent", "decomposing"}
    <3>1. pending[d].project \in Projects /\ pending[d].req \in ReqIds
      BY <1>4, <2>3
    <3>2. row[pending[d].project][pending[d].req].status \notin {"absent", "decomposing"}
      BY <2>3 DEF PreviewsComeFirst, StatusOf
    <3>3. QED BY <2>1, <3>1, <3>2
  <2>4. QED BY <1>3, <2>2, <2>3, OneIsThrough
<1>7. CASE ServeDiscard(c)
  <2>1. UNCHANGED row \/ Marked(p, i, "discarded")
    BY <1>7 DEF ServeDiscard, Marked
  <2>2. \A o \in Projects, j \in ReqIds:
          row'[o][j].status \in {row[o][j].status, "discarded"}
    <3>1. "discarded" \in Statuses
      BY DEF Statuses
    <3>2. QED BY <1>1, <2>1, <3>1, StatusWritten
  <2>3. ASSUME NEW d \in Calls \ {c}, Working(d, "decompose")
       PROVE  row'[pending[d].project][pending[d].req].status \in {"decomposing", "discarded"}
    <3>1. pending[d].project \in Projects /\ pending[d].req \in ReqIds
      BY <1>4, <2>3
    <3>2. row[pending[d].project][pending[d].req].status \in {"decomposing", "discarded"}
      BY <2>3 DEF PreviewsComeFirst, StatusOf
    <3>3. QED BY <2>2, <3>1, <3>2
  <2>4. ASSUME NEW d \in Calls \ {c}, Working(d, "confirm")
       PROVE  row'[pending[d].project][pending[d].req].status \notin {"absent", "decomposing"}
    <3>1. pending[d].project \in Projects /\ pending[d].req \in ReqIds
      BY <1>4, <2>4
    <3>2. row[pending[d].project][pending[d].req].status \notin {"absent", "decomposing"}
      BY <2>4 DEF PreviewsComeFirst, StatusOf
    <3>3. QED BY <2>2, <3>1, <3>2
  <2>5. QED BY <1>3, <2>3, <2>4, OneIsThrough
<1>8. QED BY <1>5, <1>6, <1>7

LEMMA PageBeginsNothing ==
  ASSUME ComposerBase, PreviewsComeFirst, UNCHANGED row,
         \/ UNCHANGED pending \/ CloseComposer
         \/ \E c \in Calls: Decompose(c) \/ Approve(c) \/ Discard(c)
         \/ \E c \in Calls: PendingOver(c)
  PROVE  PreviewsComeFirst'
<1>1. ComposerTypeOK
  BY DEF ComposerBase
<1>2. CASE UNCHANGED pending
  BY <1>2, NothingBegins DEF Working
<1>3. CASE CloseComposer
  BY <1>1, <1>3, NothingBegins DEF Working, CloseComposer, Abandoned, ComposerTypeOK, PendingRecord
<1>4. ASSUME NEW c \in Calls, Decompose(c) \/ Approve(c) \/ Discard(c) PROVE PreviewsComeFirst'
  <2>1. pending'[c].server = "sent" /\ \A d \in Calls \ {c}: pending'[d] = pending[d]
    <3>1. /\ composer.project \in Projects /\ composer.req \in 0..MaxReq /\ 0 \in 0..MaxReq
          /\ DefaultProject \in Projects
      BY <1>1, ComposerAssumption, DefaultProjectAssumption DEF ComposerTypeOK, ComposerRecord
    <3>2. \/ Request(c, "decompose", composer.project, 0, TRUE)
          \/ Request(c, "confirm", composer.project, composer.req, TRUE)
          \/ Request(c, "discard", DefaultProject, composer.req, FALSE)
      BY <1>4 DEF Decompose, Approve, Discard
    <3>3. QED BY <1>1, <3>1, <3>2, CallMade
  <2>2. QED BY <2>1, NothingBegins DEF Working
<1>5. ASSUME NEW c \in Calls, PendingOver(c) PROVE PreviewsComeFirst'
  BY <1>1, <1>5, PageWaitsNoMore, NothingBegins DEF Working
<1>6. QED BY <1>2, <1>3, <1>4, <1>5

LEMMA ComposerStep == ComposerInv /\ [ComposerNext]_composerVars => ComposerInv'
<1> SUFFICES ASSUME ComposerBase, PreviewsComeFirst, [ComposerNext]_composerVars
             PROVE  ComposerBase' /\ PreviewsComeFirst'
  BY DEF ComposerInv
<1>1. ComposerBase'
  BY BaseStep
<1>2. CASE UNCHANGED composerVars
  <2>1. UNCHANGED <<row, pending>>
    BY <1>2 DEF composerVars
  <2>2. QED BY <1>1, <2>1, PageBeginsNothing
<1>3. ASSUME NEW p \in Projects, Choose(p) \/ Target(p) PROVE PreviewsComeFirst'
  BY <1>3, PageBeginsNothing DEF Choose, Target
<1>4. CASE OpenComposer \/ Back \/ CloseComposer
  <2>1. UNCHANGED row /\ (UNCHANGED pending \/ CloseComposer)
    BY <1>4 DEF OpenComposer, Back, CloseComposer
  <2>2. QED BY <1>1, <2>1, PageBeginsNothing
<1>5. ASSUME NEW c \in Calls, NEW i \in ReqIds, BeginDecompose(c, i) PROVE PreviewsComeFirst'
  BY <1>5, BeginIsApart
<1>6. ASSUME NEW c \in Calls,
             \/ EndDecompose(c) \/ BeginConfirm(c) \/ EndConfirm(c) \/ HalfConfirm(c)
             \/ ServeDiscard(c)
      PROVE  PreviewsComeFirst'
  BY <1>6, EndIsApart, ConfirmComesAfter, ConfirmIsApart
<1>7. ASSUME NEW c \in Calls, Decompose(c) \/ Approve(c) \/ Discard(c) PROVE PreviewsComeFirst'
  BY <1>7, PageBeginsNothing DEF Decompose, Approve, Discard
<1>8. ASSUME NEW c \in Calls, Decomposed(c) \/ Confirmed(c) \/ Failed(c) PROVE PreviewsComeFirst'
  BY <1>8, PageBeginsNothing DEF Decomposed, Confirmed, Failed
<1>9. QED BY <1>1, <1>2, <1>3, <1>4, <1>5, <1>6, <1>7, <1>8 DEF ComposerNext

\* Only a preview and a discard could take a confirmation back.
LEMMA ComposerEffect ==
  ASSUME ComposerInv, [ComposerNext]_composerVars
  PROVE  \A p \in Projects, i \in ReqIds:
           row[p][i].status = "confirmed" => row'[p][i].status = "confirmed"
<1>1. ComposerBase /\ PreviewsComeFirst /\ ComposerTypeOK
  BY DEF ComposerInv, ComposerBase
<1>2. \A c \in Calls: pending[c].project \in Projects
  BY <1>1 DEF ComposerTypeOK, PendingRecord
<1>3. \A c \in Calls: pending[c].kind = "confirm" \/ pending[c].kind = "discard"
                        \/ Working(c, "decompose") => pending[c].req \in ReqIds
  BY <1>1 DEF ComposerBase, NumbersAreReal, Numbered, Working
<1> TAKE p \in Projects, i \in ReqIds
<1> HAVE row[p][i].status = "confirmed"
<1>4. \/ UNCHANGED row
      \/ \E c \in Calls: \/ \E j \in ReqIds: BeginDecompose(c, j)
                         \/ EndDecompose(c) \/ EndConfirm(c) \/ HalfConfirm(c) \/ ServeDiscard(c)
  <2>1. CASE UNCHANGED composerVars
    BY <2>1 DEF composerVars
  <2>2. ASSUME NEW o \in Projects, Choose(o) \/ Target(o) PROVE UNCHANGED row
    BY <2>2 DEF Choose, Target
  <2>3. CASE OpenComposer \/ Back \/ CloseComposer
    BY <2>3 DEF OpenComposer, Back, CloseComposer
  <2>4. ASSUME NEW c \in Calls, \/ BeginConfirm(c) \/ Decompose(c) \/ Approve(c) \/ Discard(c)
                                \/ Decomposed(c) \/ Confirmed(c) \/ Failed(c)
        PROVE  UNCHANGED row
    BY <2>4 DEF BeginConfirm, Decompose, Approve, Discard, Decomposed, Confirmed, Failed
  <2>5. QED BY <2>1, <2>2, <2>3, <2>4 DEF ComposerNext
<1>5. ASSUME NEW c \in Calls, NEW j \in ReqIds, BeginDecompose(c, j)
      PROVE  row'[p][i].status = "confirmed"
  <2>1. Marked(pending[c].project, j, "decomposing") /\ "decomposing" \in Statuses
    BY <1>5 DEF BeginDecompose, Marked, Statuses
  <2>2. row[pending[c].project][j].status = "absent"
    BY <1>5 DEF BeginDecompose, Status
  <2>3. QED BY <1>1, <1>2, <2>1, <2>2, StatusWritten
<1>6. ASSUME NEW c \in Calls, EndDecompose(c) PROVE row'[p][i].status = "confirmed"
  <2>1. Working(c, "decompose")
    BY <1>6 DEF EndDecompose, Working
  <2>2. StatusOf(c) # "confirmed" /\ pending[c].req \in ReqIds
    BY <1>1, <2>1 DEF PreviewsComeFirst
  <2>3. UNCHANGED row \/ Marked(pending[c].project, pending[c].req, "preview_ready")
    BY <1>6 DEF EndDecompose, Marked
  <2>4. "preview_ready" \in Statuses
    BY DEF Statuses
  <2>5. QED BY <1>1, <1>2, <2>2, <2>3, <2>4, StatusWritten DEF StatusOf
<1>7. ASSUME NEW c \in Calls, EndConfirm(c) PROVE row'[p][i].status = "confirmed"
  <2> DEFINE r == [status |-> "confirmed", made |-> row[pending[c].project][pending[c].req].made + 1]
  <2>1. /\ row' = [row EXCEPT ![pending[c].project][pending[c].req] = r]
        /\ r.status = "confirmed"
    BY <1>7 DEF EndConfirm
  <2> HIDE DEF r
  <2>2. QED BY <1>1, <1>2, <2>1 DEF ComposerTypeOK
<1>8. ASSUME NEW c \in Calls, HalfConfirm(c) PROVE row'[p][i].status = "confirmed"
  <2> DEFINE r == [row[pending[c].project][pending[c].req] EXCEPT !.made = @ + 1]
  <2>1. pending[c].req \in ReqIds
    BY <1>3, <1>8 DEF HalfConfirm
  <2>2. /\ row' = [row EXCEPT ![pending[c].project][pending[c].req] = r]
        /\ r.status = row[pending[c].project][pending[c].req].status
    BY <1>1, <1>2, <1>8, <2>1 DEF HalfConfirm, ComposerTypeOK
  <2> HIDE DEF r
  <2>3. QED BY <1>1, <1>2, <2>1, <2>2 DEF ComposerTypeOK
<1>9. ASSUME NEW c \in Calls, ServeDiscard(c) PROVE row'[p][i].status = "confirmed"
  <2>1. pending[c].req \in ReqIds
    BY <1>3, <1>9 DEF ServeDiscard
  <2>2. \/ UNCHANGED row
        \/ /\ Marked(pending[c].project, pending[c].req, "discarded")
           /\ row[pending[c].project][pending[c].req].status # "confirmed"
    BY <1>9 DEF ServeDiscard, Marked, Status
  <2>3. "discarded" \in Statuses
    BY DEF Statuses
  <2>4. QED BY <1>1, <1>2, <2>1, <2>2, <2>3, StatusWritten
<1>10. QED BY <1>4, <1>5, <1>6, <1>7, <1>8, <1>9

-----------------------------------------------------------------------------
(* Eval runs: a run that a task carries out is nobody's baseline and has   *)
(* none.                                                                   *)

EvalRow == [of: Targets, status: RunStatuses, baseline: 0..MaxRun]

EvalsInv ==
  /\ evals \in [RunIds -> EvalRow]
  /\ \A i \in tasks: i \in RunIds /\ evals[i].status = "running"
  /\ BaselineIsBefore

LEMMA EvalsStart == EvalsInit \/ EvalsAside => EvalsInv
<1> SUFFICES ASSUME evals = [i \in RunIds |-> NoEval], tasks = {} PROVE EvalsInv
  BY DEF EvalsInit, EvalsAside
<1>1. AnyTarget \in Targets
  BY OfferedAssumption DEF AnyTarget
<1>2. NoEval \in EvalRow /\ NoEval.baseline = 0
  BY <1>1, OfferedAssumption DEF NoEval, EvalRow, RunStatuses
<1>3. QED BY <1>2 DEF EvalsInv, BaselineIsBefore

\* The record of a run that is not completed changes, and its target only
\* before it starts.
LEMMA RowChanged ==
  ASSUME EvalsInv, NEW i \in RunIds, NEW e \in EvalRow, evals[i].status # "completed",
         evals' = [evals EXCEPT ![i] = e], tasks' \subseteq tasks \cup {i},
         i \in tasks' => e.status = "running",
         e.baseline # 0 => /\ e.status = "completed" /\ e.baseline \in 1..(i - 1)
                           /\ evals[e.baseline].of = e.of
                           /\ evals[e.baseline].status = "completed"
  PROVE  EvalsInv'
<1>1. /\ evals' \in [RunIds -> EvalRow] /\ evals'[i] = e
      /\ \A j \in RunIds \ {i}: evals'[j] = evals[j]
  BY DEF EvalsInv
<1>2. \A j \in tasks': j \in RunIds /\ evals'[j].status = "running"
  BY <1>1 DEF EvalsInv
<1>3. ASSUME NEW k \in RunIds, evals'[k].baseline # 0
      PROVE  /\ evals'[k].baseline < k /\ evals'[k].status = "completed"
             /\ evals'[evals'[k].baseline].of = evals'[k].of
             /\ evals'[evals'[k].baseline].status = "completed"
  <2> DEFINE b == evals'[k].baseline
  <2>1. b \in RunIds
    BY <1>1, <1>3, OfferedAssumption DEF EvalRow, RunIds
  <2>2. CASE k = i
    <3>1. b = e.baseline /\ b \in 1..(i - 1)
      BY <1>1, <1>3, <2>2
    <3>2. b < i /\ b # i
      BY <3>1, OfferedAssumption DEF RunIds
    <3>3. evals'[b] = evals[b]
      BY <1>1, <2>1, <3>2
    <3>4. evals[b].of = e.of /\ evals[b].status = "completed" /\ e.status = "completed"
      BY <1>3, <2>2, <3>1, <1>1
    <3>5. QED BY <1>1, <2>2, <3>2, <3>3, <3>4
  <2>3. CASE k # i
    <3>1. evals'[k] = evals[k] /\ b = evals[k].baseline
      BY <1>1, <2>3
    <3>2. /\ b < k /\ evals[k].status = "completed" /\ evals[b].of = evals[k].of
          /\ evals[b].status = "completed"
      BY <1>3, <3>1 DEF EvalsInv, BaselineIsBefore
    <3>3. evals'[b] = evals[b]
      BY <1>1, <2>1, <3>2
    <3>4. QED BY <3>1, <3>2, <3>3
  <2>4. QED BY <2>2, <2>3
<1>4. QED BY <1>1, <1>2, <1>3 DEF EvalsInv, BaselineIsBefore

LEMMA EvalsStep == EvalsInv /\ [EvalsNext]_evalsVars => EvalsInv'
<1> SUFFICES ASSUME EvalsInv, [EvalsNext]_evalsVars PROVE EvalsInv'
  OBVIOUS
<1>1. \A i \in RunIds: evals[i] \in EvalRow /\ (evals[i].status # "completed" => evals[i].baseline = 0)
  BY DEF EvalsInv, BaselineIsBefore
<1>2. ASSUME NEW c \in Calls, StartRun(c) PROVE EvalsInv'
  <2>1. PICK i \in Unstarted:
          /\ evals' = [evals EXCEPT ![i].of = inquiry[c].of, ![i].status = "running"]
          /\ tasks' = tasks \cup {i}
    BY <1>2 DEF StartRun
  <2> DEFINE e == [evals[i] EXCEPT !.of = inquiry[c].of, !.status = "running"]
  <2>2. i \in RunIds /\ evals[i].status = "none" /\ inquiry[c].of \in Targets
    BY <1>2, OfferedAssumption DEF Unstarted, StartRun
  <2>3. e \in EvalRow /\ e.status = "running" /\ e.baseline = 0
    BY <1>1, <2>2 DEF EvalRow, RunStatuses
  <2>4. evals' = [evals EXCEPT ![i] = e]
    BY <2>1
  <2> HIDE DEF e
  <2>5. QED BY <2>1, <2>2, <2>3, <2>4, RowChanged
<1>3. ASSUME NEW i \in RunIds, Complete(i) PROVE EvalsInv'
  <2>1. PICK b \in Baseline(i): evals' = [evals EXCEPT ![i].status = "completed", ![i].baseline = b]
    BY <1>3 DEF Complete
  <2> DEFINE S == {j \in 1..(i - 1): evals[j].of = evals[i].of /\ evals[j].status = "completed"}
  <2>2. b = 0 \/ b \in S
    BY <2>1 DEF Baseline, Latest
  <2>3. b \in 0..MaxRun
    BY <2>2, OfferedAssumption DEF RunIds
  <2> DEFINE e == [evals[i] EXCEPT !.status = "completed", !.baseline = b]
  <2>4. e \in EvalRow /\ e.status = "completed" /\ e.baseline = b /\ e.of = evals[i].of
    BY <1>1, <2>3 DEF EvalRow, RunStatuses
  <2>5. evals' = [evals EXCEPT ![i] = e]
    BY <2>1
  <2>6. evals[i].status # "completed" /\ tasks' = tasks \ {i}
    BY <1>3 DEF Complete, EvalsInv
  <2> HIDE DEF e
  <2>7. QED BY <2>2, <2>4, <2>5, <2>6, RowChanged
<1>4. ASSUME NEW i \in RunIds, Fail(i) PROVE EvalsInv'
  <2> DEFINE e == [evals[i] EXCEPT !.status = "failed"]
  <2>1. evals[i].status = "running" /\ tasks' = tasks \ {i} /\ evals' = [evals EXCEPT ![i] = e]
    BY <1>4 DEF Fail, EvalsInv
  <2>2. e \in EvalRow /\ e.baseline = 0
    BY <1>1, <2>1 DEF EvalRow, RunStatuses
  <2> HIDE DEF e
  <2>3. QED BY <2>1, <2>2, RowChanged
<1>5. CASE UNCHANGED evals /\ tasks' \subseteq tasks
  BY <1>5 DEF EvalsInv, BaselineIsBefore
<1>6. UNCHANGED evalsVars \/ Restart => UNCHANGED evals /\ tasks' \subseteq tasks
  BY DEF evalsVars, Restart
<1>7. ASSUME NEW c \in Calls,
             \/ ListRuns(c) \/ RefuseInquiry(c) \/ PollRuns(c) \/ StartEval(c) \/ RunsLoaded(c)
             \/ EvalStarted(c) \/ EvalRefused(c) \/ SetsLoaded(c)
             \/ \E t \in Targets: Pick(t, c)
      PROVE  UNCHANGED evals /\ tasks' \subseteq tasks
  BY <1>7 DEF ListRuns, RefuseInquiry, PollRuns, StartEval, RunsLoaded, EvalStarted, EvalRefused,
              SetsLoaded, Pick
<1>8. QED BY <1>2, <1>3, <1>4, <1>5, <1>6, <1>7 DEF EvalsNext

-----------------------------------------------------------------------------
(* The theorems.                                                           *)

LateInv == ComposerInv /\ SettingsInv /\ ViewsInv /\ TargetType /\ EvalsInv

LEMMA LateStart == PartsInit => LateInv
BY PartInits, ComposerStart, SettingsStart, ViewsStart, TargetStart, EvalsStart DEF LateInv

LEMMA LateStep == LateInv /\ [PartsNext]_partsVars => LateInv'
BY PartSteps, ComposerStep, SettingsStep, ViewsStep, TargetStep, EvalsStep DEF LateInv

LEMMA LateAlways == PartsSpec => []LateInv
<1>1. QED BY LateStart, LateStep, PTL DEF PartsSpec

\* However evals overlap and whenever the server restarts, a run's baseline is
\* a completed run of its target that started before it.
THEOREM BaselineBefore == PartsSpec => []BaselineIsBefore
<1>1. LateInv => BaselineIsBefore
  BY DEF LateInv, EvalsInv
<1>2. QED BY <1>1, LateAlways, PTL

\* A late answer takes no confirmation back, overwrites no other half of a
\* setting, turns no guarded view back, and fills in no form that has gone on.
THEOREM LateAnswersAreHarmless == PartsSpec => LateIsHarmless
<1>1. LateInv /\ [PartsNext]_partsVars =>
        [\A p \in Projects, i \in ReqIds:
           row[p][i].status = "confirmed" => row'[p][i].status = "confirmed"]_composerVars
  BY PartSteps, ComposerEffect DEF LateInv
<1>2. LateInv /\ [PartsNext]_partsVars => [OnlyItsHalf]_settingsVars
  BY PartSteps, SettingsEffect DEF LateInv, OnlyItsHalf
<1>3. LateInv /\ [PartsNext]_partsVars =>
        [view.guarded /\ shownOf' # shownOf /\ shownOf'.kind = "data" => shownOf'.of = showing]_viewsVars
  BY PartSteps, ViewsEffect DEF LateInv
<1>4. LateInv /\ [PartsNext]_partsVars =>
        [target'.command \in Projects /\ target'.command # target.command
           => target.command = Blank /\ target'.command = target.project]_webFormVars
  BY PartSteps, TargetEffect DEF LateInv
<1>5. PartsSpec => ConfirmedForGood
  BY <1>1, LateAlways, PTL DEF PartsSpec, ConfirmedForGood
<1>6. PartsSpec => OtherHalfKept
  BY <1>2, LateAlways, PTL DEF PartsSpec, OtherHalfKept
<1>7. PartsSpec => NotTurnedBack
  BY <1>3, LateAlways, PTL DEF PartsSpec, NotTurnedBack
<1>8. PartsSpec => DetectedForTarget
  BY <1>4, LateAlways, PTL DEF PartsSpec, DetectedForTarget
<1>9. QED BY <1>5, <1>6, <1>7, <1>8 DEF LateIsHarmless

=============================================================================
