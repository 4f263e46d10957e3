------------------------------ MODULE WebForm ------------------------------
(***************************************************************************)
(* The fields of the composer that follow a project (RequirementComposer    *)
(* .tsx): the target, the repository and branch it goes by, and the test    *)
(* command, which the page looks up for the target and the user may type.   *)
(* Other fields are plain text of the user's.                               *)
(*                                                                          *)
(* The target is the user's to choose, but follows the board's project when   *)
(* that changes under the form, by an answer that comes late.               *)
(***************************************************************************)
EXTENDS WebBase

CONSTANTS Tested   \* projects whose conventions name a test command

\* What a field may hold beside what is some project's.
Typed == "typed"
Blank == "blank"

ASSUME TestedAssumption ==
    Tested \subseteq Projects /\ Typed \notin Projects /\ Blank \notin Projects

VARIABLES
    ofBoard,      \* selectedProjectId
    target,     \* form.projectId, the project the repository and branch are of,
                \* and whose test command is in the form
    decomposing,\* the step: the fields are disabled, or gone for the review
    detecting,  \* isLoadingConventions
    probe       \* the calls for the conventions of a target

webFormVars == <<ofBoard, target, decomposing, detecting, probe>>

ProbeRecord ==
    [at: {"none", "sent", "answered", "failed"}, of: Projects, live: BOOLEAN]
NoProbe == [at |-> "none", of |-> DefaultProject, live |-> FALSE]

WebFormTypeOK ==
    /\ ofBoard \in Projects
    /\ target \in [project: Projects, repo: Projects \cup {Typed},
                   command: Projects \cup {Typed, Blank}]
    /\ decomposing \in BOOLEAN
    /\ detecting \in BOOLEAN
    /\ probe \in [Calls -> ProbeRecord]

\* The composer is opened, and the target's conventions are asked for.
WebFormInit ==
    /\ ofBoard \in Projects
    /\ target = [project |-> ofBoard, repo |-> ofBoard, command |-> Blank]
    /\ decomposing = FALSE
    /\ detecting = TRUE
    /\ \E first \in Calls:
          probe = [c \in Calls |-> IF c = first THEN [at |-> "sent", of |-> ofBoard, live |-> TRUE]
                                   ELSE NoProbe]

-----------------------------------------------------------------------------
(* The effect on the target: its cleanup cancels the call before.           *)

ProbesDropped == [c \in Calls |-> [probe[c] EXCEPT !.live = FALSE]]

Probed(c, p) ==
    IF p = target.project THEN UNCHANGED <<detecting, probe>>
    ELSE /\ probe[c] = NoProbe
         /\ probe' = [ProbesDropped EXCEPT ![c] = [at |-> "sent", of |-> p, live |-> TRUE]]
         /\ detecting' = TRUE

\* The project select fills in the repository and the branch.
Aim(c, p) ==
    /\ ~decomposing
    /\ p # target.project
    /\ target' = [target EXCEPT !.project = p, !.repo = p]
    /\ Probed(c, p)
    /\ UNCHANGED <<ofBoard, decomposing>>

\* Another project is the board's, or the board's has another name or branch.
BoardTurns(c, p) ==
    /\ ofBoard' = p
    /\ target' = [target EXCEPT !.project = p, !.repo = p]
    /\ Probed(c, p)
    /\ UNCHANGED decomposing

TypeRepo ==
    /\ ~decomposing
    /\ target' = [target EXCEPT !.repo = Typed]
    /\ UNCHANGED <<ofBoard, decomposing, detecting, probe>>

TypeCommand(text) ==
    /\ ~decomposing
    /\ target' = [target EXCEPT !.command = text]
    /\ UNCHANGED <<ofBoard, decomposing, detecting, probe>>

\* handleDecompose, and its answer: back at the form, or on to the review.
SendForm ==
    /\ decomposing' = ~decomposing
    /\ UNCHANGED <<ofBoard, target, detecting, probe>>

-----------------------------------------------------------------------------
ServeProbe(c) ==
    /\ probe[c].at = "sent"
    /\ \E at \in {"answered", "failed"}: probe' = [probe EXCEPT ![c].at = at]
    /\ UNCHANGED <<ofBoard, target, decomposing, detecting>>

\* What was typed stays, and a target that was left fills in nothing.
Detected(p) ==
    IF p \in Tested /\ target.project = p /\ target.command = Blank
    THEN [target EXCEPT !.command = p] ELSE target

ProbeDone(c) ==
    LET q == probe[c] IN
    /\ q.at \in {"answered", "failed"}
    /\ target' = IF q.at = "answered" /\ q.live THEN Detected(q.of) ELSE target
    /\ detecting' = (detecting /\ ~q.live)
    /\ probe' = [probe EXCEPT ![c] = NoProbe]
    /\ UNCHANGED <<ofBoard, decomposing>>

-----------------------------------------------------------------------------
WebFormNext ==
    \/ TypeRepo \/ SendForm
    \/ \E text \in {Typed, Blank}: TypeCommand(text)
    \/ \E c \in Calls:
          \/ \E p \in Projects: Aim(c, p) \/ BoardTurns(c, p)
          \/ ServeProbe(c) \/ ProbeDone(c)

WebFormSpec == WebFormInit /\ [][WebFormNext]_webFormVars

-----------------------------------------------------------------------------
(* The repository and branch that are sent are those of the target, unless  *)
(* the user typed them, whoever changed the target last.                    *)
RepoIsOfTarget == target.repo \in {target.project, Typed}

(* A lookup fills in the command of the target of that moment and nothing   *)
(* else: neither over what is there, nor for a target that was left.        *)
DetectedForTarget ==
    [][target'.command \in Projects /\ target'.command # target.command
        => target.command = Blank /\ target'.command = target.project]_webFormVars

(* The mark that says the command is being looked up is that of a call for  *)
(* the target of the moment, however many lookups were cancelled.           *)
DetectingIsAsked ==
    detecting => \E c \in Calls: probe[c].live /\ probe[c].of = target.project
=============================================================================
