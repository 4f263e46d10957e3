---------------------------- MODULE WebTemplates ----------------------------
(***************************************************************************)
(* The templates of the composer (RequirementComposer.tsx): the list is     *)
(* loaded once, when the composer opens, and what the user saves is put in  *)
(* front of it when the server answers.  Nothing holds the button back      *)
(* while a save is under way.                                               *)
(***************************************************************************)
EXTENDS WebBase

CONSTANTS
    Mine,          \* templates the user saves
    BuiltIn,       \* the server's own template
    NoTemplate

ASSUME BuiltInAssumption == BuiltIn \notin Mine /\ NoTemplate \notin Mine \cup {BuiltIn}

VARIABLES
    filing,      \* each save: how far it is
    listing,     \* the load of the list, and what the server answered
    onOffer,     \* templates: those in the select; "demo": the demo ones are
    prompted,    \* there is a prompt in the form
    selectedTemplate,    \* selectedTemplateId
    saving,      \* showSaveTemplate
    overtaken    \* history: saves the load of the list did not see

templatesVars ==
    <<filing, listing, onOffer, prompted, selectedTemplate, saving, overtaken>>

Templates == Mine \cup {BuiltIn}

TemplatesTypeOK ==
    /\ filing \in [Mine -> {"none", "sent", "stored", "lost", "refused", "over"}]
    /\ listing \in [at: {"sent", "answered", "failed", "over"}, ids: SUBSET Templates]
    /\ onOffer \in [ids: SUBSET Templates, demo: BOOLEAN]
    /\ prompted \in BOOLEAN
    /\ selectedTemplate \in Templates \cup {NoTemplate}
    /\ saving \in BOOLEAN
    /\ overtaken \subseteq Mine

TemplatesInit ==
    /\ filing = [t \in Mine |-> "none"]
    /\ listing = [at |-> "sent", ids |-> {}]
    /\ onOffer = [ids |-> {}, demo |-> FALSE]
    /\ prompted = FALSE
    /\ selectedTemplate = NoTemplate
    /\ saving = FALSE
    /\ overtaken = {}

-----------------------------------------------------------------------------
(* The server.  A save whose answer was lost is stored all the same.        *)

StoredTemplates == {t \in Mine: filing[t] \in {"stored", "lost", "over"}} \cup {BuiltIn}

ServeTemplates ==
    /\ listing.at = "sent"
    /\ listing' \in {[at |-> "answered", ids |-> StoredTemplates],
                     [at |-> "failed", ids |-> {}]}
    /\ overtaken' = IF listing'.at = "failed" THEN StoredTemplates \ {BuiltIn} ELSE overtaken
    /\ UNCHANGED <<filing, onOffer, prompted, selectedTemplate, saving>>

StoreTemplate(t) ==
    /\ filing[t] = "sent"
    /\ \E end \in {"stored", "refused"}: filing' = [filing EXCEPT ![t] = end]
    /\ overtaken' = IF listing.at \in {"answered", "failed"} /\ filing'[t] = "stored"
                    THEN overtaken \cup {t} ELSE overtaken
    /\ UNCHANGED <<listing, onOffer, prompted, selectedTemplate, saving>>

LoseTemplate(t) ==
    /\ filing[t] = "stored"
    /\ filing' = [filing EXCEPT ![t] = "lost"]
    /\ UNCHANGED <<listing, onOffer, prompted, selectedTemplate, saving, overtaken>>

-----------------------------------------------------------------------------
TypePrompt ==
    /\ prompted' \in BOOLEAN
    /\ UNCHANGED <<filing, listing, onOffer, selectedTemplate, saving, overtaken>>

\* applyTemplate
Apply(t) ==
    /\ t \in onOffer.ids
    /\ selectedTemplate' = t
    /\ prompted' = TRUE
    /\ UNCHANGED <<filing, listing, onOffer, saving, overtaken>>

NoneChosen ==
    /\ selectedTemplate' = NoTemplate
    /\ UNCHANGED <<filing, listing, onOffer, prompted, saving, overtaken>>

ToggleSave ==
    /\ prompted
    /\ saving' = ~saving
    /\ UNCHANGED <<filing, listing, onOffer, prompted, selectedTemplate, overtaken>>

\* handleSaveTemplate
SaveTemplate(t) ==
    /\ saving /\ prompted
    /\ filing[t] = "none"
    /\ filing' = [filing EXCEPT ![t] = "sent"]
    /\ UNCHANGED <<listing, onOffer, prompted, selectedTemplate, saving, overtaken>>

TemplateSaved(t) ==
    /\ filing[t] = "stored"
    /\ filing' = [filing EXCEPT ![t] = "over"]
    /\ onOffer' = [onOffer EXCEPT !.ids = @ \cup {t}]
    /\ selectedTemplate' = t
    /\ saving' = FALSE
    /\ UNCHANGED <<listing, prompted, overtaken>>

\* The load replaces the list, whatever was saved since.
TemplatesLoaded ==
    /\ listing.at \in {"answered", "failed"}
    /\ onOffer' = [ids |-> listing.ids, demo |-> (listing.at = "failed")]
    /\ listing' = [at |-> "over", ids |-> {}]
    /\ UNCHANGED <<filing, prompted, selectedTemplate, saving, overtaken>>

TemplatesNext ==
    \/ ServeTemplates \/ TemplatesLoaded
    \/ TypePrompt \/ NoneChosen \/ ToggleSave
    \/ \E t \in Templates: Apply(t)
    \/ \E t \in Mine: SaveTemplate(t) \/ StoreTemplate(t) \/ LoseTemplate(t) \/ TemplateSaved(t)

TemplatesSpec == TemplatesInit /\ [][TemplatesNext]_templatesVars

-----------------------------------------------------------------------------
(* A template the page was told is saved is in the select, also when two    *)
(* are saved at once and answered in either order, unless the list was read *)
(* before it was stored, or could not be, and arrived after.                *)
SavedIsOffered ==
    \A t \in Mine \ overtaken: filing[t] = "over" => t \in onOffer.ids

(* The template shown as chosen is one of the select.                       *)
SelectedIsOffered ==
    selectedTemplate \notin {NoTemplate} \cup overtaken => selectedTemplate \in onOffer.ids
=============================================================================
