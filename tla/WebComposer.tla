---------------------------- MODULE WebComposer ----------------------------
(***************************************************************************)
(* The composer of requirements (RequirementComposer.tsx) and the rows its  *)
(* calls write (requirements_flow.py): a prompt is decomposed into a        *)
(* preview, and the preview is confirmed into tickets or discarded.         *)
(*                                                                          *)
(* The composer may be closed while a call of it is under way; the call     *)
(* goes on, and so do the parts of its answer that concern the board.       *)
(* Requirement ids are numbered in each project.  The discard call names no *)
(* project: the server takes the default one.                               *)
(***************************************************************************)
EXTENDS Naturals, WebBase

CONSTANTS
    MaxReq,     \* bound: requirements of a project
    MaxBroken   \* bound: confirmations that break or go astray

ASSUME ComposerAssumption == MaxReq \in Nat /\ MaxBroken \in Nat

VARIABLES
    row,        \* row[p][i]: the requirement's status and how often it made tickets
    chosen,     \* selectedProjectId of the board
    composer,   \* the state of the composer that is open
    pending,    \* pending[c]: a call and how far the server and the page are
    broken      \* history: confirmations cut short, failed half way, or gone astray

composerVars == <<row, chosen, composer, pending, broken>>

ReqIds == 1..MaxReq
Statuses == {"absent", "decomposing", "preview_ready", "confirmed", "discarded"}
Steps == {"compose", "decomposing", "review", "created"}

\* "origin": history, the project the preview came from; "drifted": history, the
\* board's project changed under the preview.
ComposerRecord ==
    [open: BOOLEAN, step: Steps, project: Projects, req: 0..MaxReq,
     origin: Projects, confirming: BOOLEAN, drifted: BOOLEAN]

\* "awaited": the page still waits; "mine": the composer that made it is open.
PendingRecord ==
    [kind: {"none", "decompose", "confirm", "discard"}, project: Projects,
     req: 0..MaxReq, server: {"sent", "working", "done", "refused"},
     awaited: BOOLEAN, mine: BOOLEAN]

NoPending == [kind |-> "none", project |-> DefaultProject, req |-> 0,
           server |-> "sent", awaited |-> FALSE, mine |-> FALSE]

FreePending(c) == pending[c] = NoPending

NewComposer(p) == [open |-> TRUE, step |-> "compose", project |-> p, req |-> 0,
                   origin |-> p, confirming |-> FALSE, drifted |-> FALSE]
NoComposer == [NewComposer(DefaultProject) EXCEPT !.open = FALSE]

ComposerTypeOK ==
    /\ row \in [Projects -> [ReqIds -> [status: Statuses, made: 0..2]]]
    /\ chosen \in Projects
    /\ composer \in ComposerRecord
    /\ pending \in [Calls -> PendingRecord]
    /\ broken \in 0..MaxBroken

ComposerInit ==
    /\ row = [p \in Projects |->
                [i \in ReqIds |-> [status |-> "absent", made |-> 0]]]
    /\ chosen \in Projects
    /\ composer = NoComposer
    /\ pending = [c \in Calls |-> NoPending]
    /\ broken = 0

-----------------------------------------------------------------------------
(* The server.                                                              *)

Status(p, i) == row[p][i].status

\* The server is through with a call; one nobody waits for is over.
ServerIs(c, state) ==
    pending' = [pending EXCEPT ![c] =
        IF state \in {"done", "refused"} /\ ~@.awaited THEN NoPending
        ELSE [@ EXCEPT !.server = state]]

\* decompose_preview writes a new row, asks the model, and saves the preview
\* over whatever the row is by then.
BeginDecompose(c, i) ==
    LET q == pending[c] IN
    /\ q.kind = "decompose" /\ q.server = "sent"
    /\ Status(q.project, i) = "absent"
    /\ \A j \in ReqIds: j < i => Status(q.project, j) # "absent"
    /\ row' = [row EXCEPT ![q.project][i].status = "decomposing"]
    /\ pending' = [pending EXCEPT ![c].server = "working", ![c].req = i]
    /\ UNCHANGED <<chosen, composer, broken>>

EndDecompose(c) ==
    LET q == pending[c] IN
    /\ q.kind = "decompose" /\ q.server = "working"
    /\ \/ /\ row' = [row EXCEPT ![q.project][q.req].status = "preview_ready"]
          /\ ServerIs(c, "done")
       \/ ServerIs(c, "refused") /\ UNCHANGED row
    /\ UNCHANGED <<chosen, composer, broken>>

\* confirm checks the status first, makes the tickets one by one, and marks the
\* row last; a decomposition may be refused for its input too.
BeginConfirm(c) ==
    LET q == pending[c] IN
    /\ q.kind = "confirm" /\ q.server = "sent"
    /\ IF Status(q.project, q.req) = "preview_ready"
       THEN ServerIs(c, "working") ELSE ServerIs(c, "refused")
    /\ UNCHANGED <<row, chosen, composer, broken>>

EndConfirm(c) ==
    LET q == pending[c] IN
    /\ q.kind = "confirm" /\ q.server = "working"
    /\ row[q.project][q.req].made < 2
    /\ row' = [row EXCEPT ![q.project][q.req] =
                  [status |-> "confirmed", made |-> @.made + 1]]
    /\ ServerIs(c, "done")
    /\ UNCHANGED <<chosen, composer, broken>>

HalfConfirm(c) ==
    LET q == pending[c] IN
    /\ q.kind = "confirm" /\ q.server = "working"
    /\ row[q.project][q.req].made < 2
    /\ row' = [row EXCEPT ![q.project][q.req].made = @ + 1]
    /\ broken < MaxBroken
    /\ broken' = broken + 1
    /\ ServerIs(c, "refused")
    /\ UNCHANGED <<chosen, composer>>

\* The status is read and the row saved in statements of their own; the save of
\* a confirmation in between is left out.
ServeDiscard(c) ==
    LET q == pending[c] IN
    /\ q.kind = "discard" /\ q.server = "sent"
    /\ IF Status(q.project, q.req) \in {"absent", "confirmed"} THEN UNCHANGED row
       ELSE row' = [row EXCEPT ![q.project][q.req].status = "discarded"]
    /\ ServerIs(c, "done")
    /\ UNCHANGED <<chosen, composer, broken>>

-----------------------------------------------------------------------------
(* The user.                                                                *)

Request(c, kind, p, i, awaited) ==
    /\ FreePending(c)
    /\ pending' = [pending EXCEPT ![c] =
                      [kind |-> kind, project |-> p, req |-> i, server |-> "sent",
                       awaited |-> awaited, mine |-> awaited]]

\* The switcher is behind the composer while it is open.
Choose(p) ==
    /\ ~composer.open
    /\ chosen' = p
    /\ UNCHANGED <<row, composer, pending, broken>>

OpenComposer ==
    /\ ~composer.open
    /\ composer' = NewComposer(chosen)
    /\ UNCHANGED <<row, chosen, pending, broken>>

\* The composer's own choice of project, in its first step only.
Target(p) ==
    /\ composer.open /\ composer.step = "compose"
    /\ composer' = [composer EXCEPT !.project = p]
    /\ UNCHANGED <<row, chosen, pending, broken>>

Decompose(c) ==
    /\ composer.open /\ composer.step = "compose"
    /\ Request(c, "decompose", composer.project, 0, TRUE)
    /\ composer' = [composer EXCEPT !.step = "decomposing", !.drifted = FALSE]
    /\ UNCHANGED <<row, chosen, broken>>

AtReview == composer.open /\ composer.step = "review" /\ ~composer.confirming

Back ==
    /\ AtReview
    /\ composer' = [composer EXCEPT !.step = "compose"]
    /\ UNCHANGED <<row, chosen, pending, broken>>

\* The form is of another project than the preview: the number of the preview
\* is that of another requirement there, or of none yet.
OffTarget == composer.project # composer.origin

\* handleApproveCreate: for the requirement shown, in the project of the form.
Approve(c) ==
    /\ AtReview
    /\ Request(c, "confirm", composer.project, composer.req, TRUE)
    /\ composer' = [composer EXCEPT !.confirming = TRUE]
    /\ OffTarget => broken < MaxBroken
    /\ broken' = IF OffTarget THEN broken + 1 ELSE broken
    /\ UNCHANGED <<row, chosen>>

Abandoned(calls) == [c \in Calls |-> [calls[c] EXCEPT !.mine = FALSE]]

\* The cross in the corner closes the composer at any time.
CloseComposer ==
    /\ composer.open
    /\ composer' = NoComposer
    /\ pending' = Abandoned(pending)
    /\ UNCHANGED <<row, chosen, broken>>

Discard(c) ==
    /\ AtReview
    /\ Request(c, "discard", DefaultProject, composer.req, FALSE)
    /\ composer' = NoComposer
    /\ UNCHANGED <<row, chosen, broken>>

-----------------------------------------------------------------------------
(* Answers.                                                                 *)

\* The page stops waiting; the server may still be at it.
PendingOver(c) ==
    pending' = [pending EXCEPT ![c] =
        IF @.server \in {"done", "refused"} THEN NoPending
        ELSE [@ EXCEPT !.awaited = FALSE]]

Decomposed(c) ==
    LET q == pending[c] IN
    /\ q.kind = "decompose" /\ q.server = "done" /\ q.awaited
    /\ composer' = IF q.mine THEN [composer EXCEPT !.step = "review", !.req = q.req,
                                                   !.origin = q.project]
                   ELSE composer
    /\ PendingOver(c)
    /\ UNCHANGED <<row, chosen, broken>>

\* The composer follows the board's project, whatever it shows.
Followed(k, p) ==
    IF ~k.open \/ p = chosen THEN k
    ELSE [k EXCEPT !.project = p,
                   !.drifted = @ \/ k.step \in {"decomposing", "review"}]

\* The board turns to the project the tickets were made in, the composer that
\* asked for them open or not.
Confirmed(c) ==
    LET q == pending[c] IN
    /\ q.kind = "confirm" /\ q.server = "done" /\ q.awaited
    /\ chosen' = q.project
    /\ composer' =
          Followed(IF q.mine
                   THEN [composer EXCEPT !.step = "created", !.confirming = FALSE]
                   ELSE composer, q.project)
    /\ PendingOver(c)
    /\ UNCHANGED <<row, broken>>

\* A refusal, or a connection that broke: the step before it again.
Broken(q) == q.kind = "confirm" /\ q.server \in {"sent", "working"}

Failed(c) ==
    LET q == pending[c] IN
    /\ q.awaited
    /\ Broken(q) => broken < MaxBroken
    /\ composer' = CASE ~q.mine -> composer
                     [] q.mine /\ q.kind = "decompose" -> [composer EXCEPT !.step = "compose"]
                     [] OTHER -> [composer EXCEPT !.confirming = FALSE]
    /\ broken' = IF Broken(q) THEN broken + 1 ELSE broken
    /\ PendingOver(c)
    /\ UNCHANGED <<row, chosen>>

-----------------------------------------------------------------------------
ComposerNext ==
    \/ \E p \in Projects: Choose(p) \/ Target(p)
    \/ OpenComposer \/ Back \/ CloseComposer
    \/ \E c \in Calls:
          \/ \E i \in ReqIds: BeginDecompose(c, i)
          \/ EndDecompose(c) \/ BeginConfirm(c) \/ EndConfirm(c) \/ HalfConfirm(c)
          \/ ServeDiscard(c)
          \/ Decompose(c) \/ Approve(c) \/ Discard(c)
          \/ Decomposed(c) \/ Confirmed(c) \/ Failed(c)

ComposerSpec == ComposerInit /\ [][ComposerNext]_composerVars

-----------------------------------------------------------------------------
(* What the review shows is on the server: a preview that was saved, and is *)
(* at most confirmed or discarded since (decompose_preview answers last).   *)
PreviewIsSaved ==
    (composer.open /\ composer.step = "review") =>
        /\ composer.req \in ReqIds
        /\ Status(composer.origin, composer.req)
             \in {"preview_ready", "confirmed", "discarded"}

(* What is approved is what is shown: the project a confirmation goes to is *)
(* the one the preview came from, unless a late answer turned the board.    *)
ApprovedIsShown ==
    (composer.open /\ composer.step = "review" /\ ~composer.drifted) =>
        composer.project = composer.origin

(* A requirement makes its tickets once, however often it is approved and   *)
(* whichever composer asks, unless a confirmation failed half way, its      *)
(* connection broke before it was done, or it went to a project the preview *)
(* is not of.                                                               *)
MadeOnce == broken = 0 => \A p \in Projects, i \in ReqIds: row[p][i].made <= 1

(* A confirmed requirement stays so: neither a late preview nor a discard   *)
(* that names the wrong project takes it back.                              *)
ConfirmedForGood ==
    [][\A p \in Projects, i \in ReqIds:
          row[p][i].status = "confirmed" => row'[p][i].status = "confirmed"]_composerVars
=============================================================================
