---------------------------- MODULE WebChatForm ----------------------------
(***************************************************************************)
(* The form of the chat (ChatPanel.tsx): the text, the files that are       *)
(* uploaded one after the other and wait for the message they go with, and  *)
(* the rail the panel folds to.  The page is connected.                     *)
(*                                                                          *)
(* The form stays as it is when the project of the page changes; leaving    *)
(* the board throws it away, while what it sent goes on.                    *)
(***************************************************************************)
EXTENDS WebBase

CONSTANTS
    Files,    \* files the user attaches
    NoFile    \* none

NoProject == "none"

ASSUME NoFileAssumption == NoFile \notin Files /\ NoProject \notin Projects

VARIABLES
    storedFor,    \* the server: the project each file was uploaded to
    carried,      \* the server: files the messages name, with their project
    onProject,    \* selectedProjectId
    layout,       \* chatLayoutMode, or "away" from the board
    form,         \* draft, pendingAttachments, uploading
    upload,       \* calls of uploadFiles
    post,         \* the message under way: chatSending, its project and its files
    removed,      \* history: files the user took out of the form
    gone          \* history: files that a form that was left or an error lost

formVars == <<storedFor, carried, onProject, layout, form, upload, post, removed, gone>>

EmptyForm == [draft |-> FALSE, pending |-> {}, uploading |-> FALSE]

\* "rest": the files of the batch to come; "seen": the form is still there.
UploadRecord ==
    [file: Files \cup {NoFile}, rest: SUBSET Files, of: Projects,
     at: {"sent", "answered", "failed"}, seen: BOOLEAN]
NoUpload == [file |-> NoFile, rest |-> {}, of |-> DefaultProject,
             at |-> "sent", seen |-> TRUE]

NoPost == [sending |-> FALSE, of |-> DefaultProject, files |-> {}, at |-> "sent"]

FormTypeOK ==
    /\ storedFor \in [Files -> Projects \cup {NoProject}]
    /\ carried \subseteq Files \X Projects
    /\ onProject \in Projects
    /\ layout \in {"balanced", "rail", "hidden", "away"}
    /\ form \in [draft: BOOLEAN, pending: SUBSET Files, uploading: BOOLEAN]
    /\ upload \in [Calls -> UploadRecord]
    /\ post \in [sending: BOOLEAN, of: Projects, files: SUBSET Files,
                 at: {"sent", "answered", "failed"}]
    /\ removed \subseteq Files /\ gone \subseteq Files

FormInit ==
    /\ storedFor = [f \in Files |-> NoProject]
    /\ carried = {}
    /\ onProject \in Projects
    /\ layout = "balanced"
    /\ form = EmptyForm
    /\ upload = [c \in Calls |-> NoUpload]
    /\ post = NoPost
    /\ removed = {} /\ gone = {}

-----------------------------------------------------------------------------
(* The server.  It keeps a message whatever files it names, and refuses to  *)
(* go on if one is not of the project.                                      *)

StoreFile(c) ==
    /\ upload[c].file # NoFile /\ upload[c].at = "sent"
    /\ storedFor' = [storedFor EXCEPT ![upload[c].file] = upload[c].of]
    /\ upload' = [upload EXCEPT ![c].at = "answered"]
    /\ UNCHANGED <<carried, onProject, layout, form, post, removed, gone>>

\* An answer that is lost leaves a file nobody has.
RefuseFile(c) ==
    /\ upload[c].file # NoFile /\ upload[c].at \in {"sent", "answered"}
    /\ upload' = [upload EXCEPT ![c].at = "failed"]
    /\ gone' = IF upload[c].at = "answered" THEN gone \cup {upload[c].file} ELSE gone
    /\ UNCHANGED <<storedFor, carried, onProject, layout, form, post, removed>>

CreateMessage ==
    /\ post.sending /\ post.at = "sent"
    /\ carried' = carried \cup {<<f, post.of>>: f \in post.files}
    /\ \E at \in {"answered", "failed"}:
          /\ at = "answered" => \A f \in post.files: storedFor[f] = post.of
          /\ post' = [post EXCEPT !.at = at]
    /\ UNCHANGED <<storedFor, onProject, layout, form, upload, removed, gone>>

RefuseMessage ==
    /\ post.sending /\ post.at = "sent"
    /\ post' = [post EXCEPT !.at = "failed"]
    /\ gone' = gone \cup post.files
    /\ UNCHANGED <<storedFor, carried, onProject, layout, form, upload, removed>>

-----------------------------------------------------------------------------
(* The user.                                                                *)

OnlyForm == UNCHANGED <<storedFor, carried, onProject, layout, upload, post, gone>>

Open == layout \in {"balanced", "rail"}

Type ==
    /\ Open
    /\ form' = [form EXCEPT !.draft = TRUE]
    /\ UNCHANGED removed /\ OnlyForm

\* The buttons and the drop: not in the rail, and one batch at a time.
Attach(c, fs) ==
    /\ layout = "balanced"
    /\ ~post.sending /\ ~form.uploading
    /\ upload[c] = NoUpload
    /\ fs # {} /\ \A f \in fs: storedFor[f] = NoProject
    /\ \A d \in Calls: fs \cap (upload[d].rest \cup {upload[d].file}) = {}
    /\ form' = [form EXCEPT !.uploading = TRUE]
    /\ \E f \in fs: upload' = [upload EXCEPT ![c] =
          [NoUpload EXCEPT !.file = f, !.rest = fs \ {f}, !.of = onProject]]
    /\ UNCHANGED <<storedFor, carried, onProject, layout, post, removed, gone>>

RemoveFile(f) ==
    /\ layout = "balanced"
    /\ f \in form.pending
    /\ form' = [form EXCEPT !.pending = @ \ {f}]
    /\ removed' = removed \cup {f}
    /\ OnlyForm

\* handleSubmit, also in the rail: the form is emptied at once.
Submit ==
    /\ Open
    /\ form.draft /\ ~post.sending /\ ~form.uploading
    /\ post' = [NoPost EXCEPT !.sending = TRUE, !.of = onProject, !.files = form.pending]
    /\ form' = EmptyForm
    /\ UNCHANGED <<storedFor, carried, onProject, layout, upload, removed, gone>>

\* handleChatCollapse, handleChatExpand, handleBoardExpandToggle
Fold ==
    /\ layout # "away"
    /\ layout' \in CASE layout = "balanced" -> {"rail"}
                     [] layout = "rail" -> {"hidden", "balanced"}
                     [] OTHER -> {"rail"}
    /\ UNCHANGED <<storedFor, carried, onProject, form, upload, post, removed, gone>>

ShowOther(p) ==
    /\ p # onProject
    /\ onProject' = p
    /\ UNCHANGED <<storedFor, carried, layout, form, upload, post, removed, gone>>

\* The layout is the page's and outlives the form; it is not told here.
LeaveBoard ==
    /\ layout # "away"
    /\ layout' = "away"
    /\ form' = EmptyForm
    /\ upload' = [c \in Calls |-> IF upload[c] = NoUpload THEN NoUpload
                                  ELSE [upload[c] EXCEPT !.seen = FALSE]]
    /\ gone' = gone \cup form.pending
    /\ UNCHANGED <<storedFor, carried, onProject, post, removed>>

BackToBoard ==
    /\ layout = "away"
    /\ layout' \in {"balanced", "rail", "hidden"}
    /\ UNCHANGED <<storedFor, carried, onProject, form, upload, post, removed, gone>>

-----------------------------------------------------------------------------
(* Answers.                                                                 *)

\* The next file of the batch, or its end.
After(u) ==
    IF u.rest = {} THEN {NoUpload}
    ELSE {[u EXCEPT !.file = f, !.rest = u.rest \ {f}, !.at = "sent"]: f \in u.rest}

FileStored(c) ==
    LET u == upload[c] IN
    /\ u.file # NoFile /\ u.at = "answered"
    /\ \E next \in After(u): upload' = [upload EXCEPT ![c] = next]
    /\ IF u.seen
       THEN form' = [form EXCEPT !.pending = @ \cup {u.file},
                                 !.uploading = (u.rest # {})] /\ UNCHANGED gone
       ELSE gone' = gone \cup {u.file} /\ UNCHANGED form
    /\ UNCHANGED <<storedFor, carried, onProject, layout, post, removed>>

\* Slip: an error leaves the buttons waiting.
SlipUploadFailed(c) ==
    /\ upload[c].at = "failed"
    /\ upload' = [upload EXCEPT ![c] = NoUpload]
    /\ UNCHANGED <<storedFor, carried, onProject, layout, form, post, removed, gone>>

\* The rest of the batch is not sent.
UploadFailed(c) ==
    /\ upload[c].at = "failed"
    /\ upload' = [upload EXCEPT ![c] = NoUpload]
    /\ form' = [form EXCEPT !.uploading = @ /\ ~upload[c].seen]
    /\ UNCHANGED <<storedFor, carried, onProject, layout, post, removed, gone>>

MessageOver ==
    /\ post.sending /\ post.at \in {"answered", "failed"}
    /\ post' = NoPost
    /\ UNCHANGED <<storedFor, carried, onProject, layout, form, upload, removed, gone>>

-----------------------------------------------------------------------------
FormNext ==
    \/ CreateMessage \/ RefuseMessage \/ MessageOver
    \/ Type \/ Submit \/ Fold \/ LeaveBoard \/ BackToBoard
    \/ \E f \in Files: RemoveFile(f)
    \/ \E p \in Projects: ShowOther(p)
    \/ \E c \in Calls:
          \/ StoreFile(c) \/ RefuseFile(c) \/ FileStored(c) \/ UploadFailed(c)
          \/ \E fs \in SUBSET Files: Attach(c, fs)

FormSpec == FormInit /\ [][FormNext]_formVars

-----------------------------------------------------------------------------
Stored == {f \in Files: storedFor[f] # NoProject}
Coming == {upload[c].file: c \in {d \in Calls: upload[d].at = "answered"}}

(* A file the server has taken is accounted for: it waits in the form or is *)
(* on its way to it, it goes or went with a message, or the user took it    *)
(* out; only a form that was left and an error lose one.                    *)
FilesAreKept ==
    Stored \subseteq form.pending \cup Coming \cup post.files \cup removed \cup gone
                     \cup {f \in Files: \E p \in Projects: <<f, p>> \in carried}

(* A file goes with one message: it does not wait in the form any more once *)
(* a message names it, and no two messages do.                              *)
FilesGoOnce ==
    /\ form.pending \cap post.files = {}
    /\ \A f \in form.pending, p \in Projects: <<f, p>> \notin carried
    /\ \A f \in Files, p, q \in Projects:
          <<f, p>> \in carried /\ <<f, q>> \in carried => p = q

(* The buttons wait for a file that is under way for this form, whichever   *)
(* file of a batch was refused and whatever form was left meanwhile.        *)
UploadingIsAsked ==
    form.uploading => \E c \in Calls: upload[c] # NoUpload /\ upload[c].seen
=============================================================================
