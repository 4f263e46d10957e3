---------------------------- MODULE WebSettings ----------------------------
(***************************************************************************)
(* The settings page (ModelsPage.tsx, ModelCard.tsx,                        *)
(* DevFallbackChainEditor.tsx) and the state App.tsx keeps for it: values   *)
(* the page read once, the user's edits of them, and the calls that save    *)
(* them.  Settings do not share state, but for the two halves of the role   *)
(* routing, which one call writes together; a behaviour looks at one group  *)
(* of them.                                                                 *)
(***************************************************************************)
EXTENDS Naturals, WebBase

VARIABLES
    group,     \* the settings looked at
    stored,    \* what the server has
    page,      \* what App.tsx, or the page, holds
    draft,     \* what the form shows, where it is saved by a button
    busy,      \* the save button is waiting
    save,      \* the calls
    tainted    \* history: the page may differ from the server

settingsVars == <<group, stored, page, draft, busy, save, tainted>>

Groups == {{"gatekeeper", "chain"}, {"webhook"}, {"endpoints"}, {"instructions"},
           {"tech_lead"}, {"cloud_execution"}, {"chat_reasoner"},
           {"cloud_models"}, {"integrations"}}

\* Shown at once, before the server agrees; taken back when it does not.
Optimistic == {"gatekeeper", "chain", "chat_reasoner"}
TakenBack == {"chat_reasoner"}

\* Typed first and saved by a button.
Drafted == {"webhook", "endpoints", "instructions"}

\* Saved by a first call, and read again by a second.
ReadAgain == {"endpoints", "cloud_models", "integrations"}

\* Lists: an entry is added by a form and removed by a button of its own.  The
\* form of a list waits for ever once the server says it is forbidden.
Listed == {"cloud_models", "integrations"}

\* Read again on request: by the refresh button, when the page is opened, or
\* when a card is opened.
Refreshable == {"endpoints", "integrations", "instructions"}

SettingValues == {0, 1}
Held == [group -> SettingValues]

SaveRecord ==
    [at: {"free", "sent", "again", "answered", "refused", "forbidden", "lost"},
     reads: BOOLEAN, of: group, want: Held, old: Held, clean: BOOLEAN,
     agreed: BOOLEAN]

SettingsTypeOK ==
    /\ group \in Groups
    /\ stored \in Held
    /\ page \in Held
    /\ draft \in Held
    /\ busy \in BOOLEAN
    /\ save \in [Calls -> SaveRecord]
    /\ tainted \in BOOLEAN

Defaults == [f \in group |-> 0]
AnySetting == CHOOSE f \in group: TRUE

NoSave == [at |-> "free", reads |-> TRUE, of |-> AnySetting, want |-> Defaults,
           old |-> Defaults, clean |-> FALSE, agreed |-> FALSE]
Reading == [NoSave EXCEPT !.at = "sent", !.clean = TRUE]

FreeSave(c) == save[c] = NoSave
AllQuiet == \A c \in Calls: FreeSave(c)

\* The page opens on defaults, its read under way.
SettingsInit ==
    /\ group \in Groups
    /\ stored \in Held
    /\ page = Defaults
    /\ draft = Defaults
    /\ busy = FALSE
    /\ \E first \in Calls:
          save = [c \in Calls |-> IF c = first THEN Reading ELSE NoSave]
    /\ tainted = TRUE

-----------------------------------------------------------------------------
(* Calls.                                                                   *)

\* History: a call is clean while no other call or write overlaps it.
StartSave(c, reads, f, want) ==
    /\ FreeSave(c)
    /\ save' = [d \in Calls |->
          IF d = c
          THEN [at |-> "sent", reads |-> reads, of |-> f, want |-> want,
                old |-> page, clean |-> AllQuiet, agreed |-> AllQuiet /\ ~tainted]
          ELSE IF FreeSave(d) THEN NoSave ELSE [save[d] EXCEPT !.clean = FALSE]]

ServeSave(c) ==
    /\ save[c].at = "sent"
    /\ IF save[c].reads
       THEN /\ save' = [save EXCEPT ![c].at = "answered", ![c].want = stored]
            /\ UNCHANGED stored
       ELSE /\ stored' = save[c].want
            /\ save' = [save EXCEPT ![c].at =
                           IF group \subseteq ReadAgain THEN "again" ELSE "answered"]
    /\ UNCHANGED <<group, page, draft, busy, tainted>>

\* The removed integration is taken out of the page's own list.
ServeAgain(c) ==
    /\ save[c].at = "again"
    /\ save' = [save EXCEPT ![c].at = "answered", ![c].want =
                   IF save[c].of = "integrations" /\ @["integrations"] = 0
                   THEN @ ELSE stored]
    /\ UNCHANGED <<group, stored, page, draft, busy, tainted>>

\* Refused, forbidden, or answered to nobody after it was done.
RefuseSave(c) ==
    /\ save[c].at \in {"sent", "again"}
    /\ save' = [save EXCEPT ![c].at = IF @ = "again" THEN "lost" ELSE "refused"]
    /\ UNCHANGED <<group, stored, page, draft, busy, tainted>>

ForbidSave(c) ==
    /\ save[c].at = "sent"
    /\ ~save[c].reads
    /\ save' = [save EXCEPT ![c].at = "forbidden"]
    /\ UNCHANGED <<group, stored, page, draft, busy, tainted>>

LoseSaved(c) ==
    /\ save[c].at = "answered"
    /\ save' = [save EXCEPT ![c].at = IF save[c].reads THEN "refused" ELSE "lost"]
    /\ UNCHANGED <<group, stored, page, draft, busy, tainted>>

\* Another administrator.
OtherAdmin(f, v) ==
    /\ f \in group
    /\ stored' = [stored EXCEPT ![f] = v]
    /\ stored' # stored
    /\ tainted' = TRUE
    /\ save' = [c \in Calls |-> IF FreeSave(c) THEN NoSave
                                ELSE [save[c] EXCEPT !.clean = FALSE]]
    /\ UNCHANGED <<group, page, draft, busy>>

-----------------------------------------------------------------------------
(* The user.                                                                *)

\* A select, a switch or the chain editor: the whole group is sent, the other
\* half of the routing as the page has it.
Change(c, f, v) ==
    /\ f \in group \cap Optimistic
    /\ page[f] # v
    /\ page' = [page EXCEPT ![f] = v]
    /\ StartSave(c, FALSE, f, page')
    /\ UNCHANGED <<group, stored, draft, busy, tainted>>

TypeSetting(f, v) ==
    /\ f \in group \cap Drafted
    /\ draft[f] # v
    /\ draft' = [draft EXCEPT ![f] = v]
    /\ UNCHANGED <<group, stored, page, busy, save, tainted>>

\* The button of a form that was edited.
Save(c, f) ==
    /\ f \in group \cap Drafted
    /\ ~busy
    /\ draft # page
    /\ busy' = TRUE
    /\ StartSave(c, FALSE, f, draft)
    /\ UNCHANGED <<group, stored, page, draft, tainted>>

\* Saved as it is chosen, one at a time: the Tech Lead's model, the switch, and
\* an entry added to a list.  Removing one waits for nothing.
SubmitSetting(c, f, v) ==
    /\ f \in group \ (Drafted \cup Optimistic)
    /\ f \in Listed => v # page[f]
    /\ IF f \in Listed /\ v = 0 THEN UNCHANGED busy ELSE ~busy /\ busy' = TRUE
    /\ StartSave(c, FALSE, f, [page EXCEPT ![f] = v])
    /\ UNCHANGED <<group, stored, page, draft, tainted>>

Refresh(c) ==
    /\ group \subseteq Refreshable
    /\ StartSave(c, TRUE, AnySetting, Defaults)
    /\ UNCHANGED <<group, stored, page, draft, busy, tainted>>

-----------------------------------------------------------------------------
(* Answers.                                                                 *)

SaveEnded(c) == save' = [save EXCEPT ![c] = NoSave]

\* Only the call the button waits for lets go of it.
Released(c) ==
    IF save[c].reads \/ (save[c].of \in Listed /\ save[c].want[save[c].of] = 0)
    THEN busy ELSE FALSE

\* The answer is what the page shows, and what the form is reset to, whatever
\* was typed since.
SaveAnswered(c) ==
    /\ save[c].at = "answered"
    /\ page' = save[c].want
    /\ draft' = IF group \subseteq Drafted THEN page' ELSE draft
    /\ busy' = Released(c)
    /\ tainted' = ~save[c].clean
    /\ SaveEnded(c)
    /\ UNCHANGED <<group, stored>>

\* What was shown too early stays, but for the chat's reasoner; what was not
\* shown yet is not.
SaveRejected(c) ==
    /\ save[c].at \in {"refused", "forbidden", "lost"}
    /\ page' = IF group \subseteq TakenBack /\ ~save[c].reads
               THEN save[c].old ELSE page
    /\ busy' = IF save[c].at = "forbidden" /\ group \subseteq Listed
               THEN busy ELSE Released(c)
    /\ tainted' = (tainted \/ save[c].at = "lost" \/ ~save[c].clean
                     \/ group \subseteq Optimistic \ TakenBack)
    /\ SaveEnded(c)
    /\ UNCHANGED <<group, stored, draft>>

-----------------------------------------------------------------------------
SettingsNext ==
    \/ \E f \in group, v \in SettingValues: OtherAdmin(f, v) \/ TypeSetting(f, v)
    \/ \E c \in Calls:
          \/ ServeSave(c) \/ ServeAgain(c) \/ RefuseSave(c) \/ ForbidSave(c) \/ LoseSaved(c)
          \/ \E f \in group, v \in SettingValues: Change(c, f, v) \/ SubmitSetting(c, f, v)
          \/ \E f \in group: Save(c, f)
          \/ Refresh(c)
          \/ SaveAnswered(c) \/ SaveRejected(c)

SettingsSpec == SettingsInit /\ [][SettingsNext]_settingsVars

-----------------------------------------------------------------------------
(* The page tells the truth: once the last call is over the page has what   *)
(* the server has, provided calls did not overlap, no answer was lost and   *)
(* no refused routing is left on the page; a refused save leaves no trace.  *)
SettingsAgree == (AllQuiet /\ ~tainted) => page = stored

OnlyItsHalf ==
    \A c \in Calls:
       (/\ save[c].at = "sent" /\ ~save[c].reads
        /\ save[c].clean /\ save[c].agreed
        /\ save'[c].at \in {"again", "answered"})
       => \A g \in group \ {save[c].of}: stored'[g] = stored[g]

(* Saving one half of the role routing leaves the other one alone, when the *)
(* page was up to date as the half was changed (routesToRoleRouting sends   *)
(* both).                                                                   *)
OtherHalfKept == [][OnlyItsHalf]_settingsVars

(* A save button waits for a call that is under way, but for a list's after *)
(* a refusal for want of permission.                                        *)
SavingIsAsked ==
    busy => group \subseteq Listed \/ \E c \in Calls: ~FreeSave(c) /\ ~save[c].reads
=============================================================================
