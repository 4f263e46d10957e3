----------------------------- MODULE WebEvals -----------------------------
(***************************************************************************)
(* Eval runs: the server's records with their baselines (evals.py), and the *)
(* panel that starts them and follows them to their end (EvalRunPanel.tsx). *)
(* A target is a model and a task set.                                      *)
(*                                                                          *)
(* A run is carried out by a background task, which a restart of the server *)
(* loses.  The panel asks again only while a run it shows is running.       *)
(***************************************************************************)
EXTENDS Naturals, WebBase

CONSTANTS
    Targets,    \* models with task sets
    Offered,    \* those whose task set the server has
    MaxRun      \* bound: runs; they are numbered as they start

ASSUME OfferedAssumption == Offered \subseteq Targets /\ Offered # {} /\ MaxRun \in Nat

VARIABLES
    evals,      \* the server's records
    tasks,      \* the runs a background task carries out
    picked,     \* the target chosen in the panel
    runs,       \* runs: those shown
    starting,   \* state = "running"
    inquiry     \* the calls

evalsVars == <<evals, tasks, picked, runs, starting, inquiry>>

RunIds == 1..MaxRun
RunStatuses == {"none", "running", "completed", "failed"}
EvalRun == [id: RunIds, of: Targets, status: RunStatuses \ {"none"}]

\* "start" turns into the load that follows it.
InquiryRecord ==
    [kind: {"none", "load", "start", "sets"}, of: Targets,
     at: {"sent", "answered", "refused"}, runs: SUBSET EvalRun]

AnyTarget == CHOOSE t \in Offered: TRUE
NoInquiry == [kind |-> "none", of |-> AnyTarget, at |-> "sent", runs |-> {}]
Inquiry(kind, t) == [NoInquiry EXCEPT !.kind = kind, !.of = t]

NoEval == [of |-> AnyTarget, status |-> "none", baseline |-> 0]

EvalsTypeOK ==
    /\ evals \in [RunIds -> [of: Targets, status: RunStatuses, baseline: 0..MaxRun]]
    /\ tasks \subseteq {i \in RunIds: evals[i].status = "running"}
    /\ picked \in Targets
    /\ runs \subseteq EvalRun
    /\ starting \in BOOLEAN
    /\ inquiry \in [Calls -> InquiryRecord]

\* The panel is opened: it asks for the task sets and for the runs.
EvalsInit ==
    /\ evals = [i \in RunIds |-> NoEval]
    /\ tasks = {}
    /\ picked \in Targets
    /\ runs = {}
    /\ starting = FALSE
    /\ \E c, d \in Calls:
          /\ c # d
          /\ inquiry = [[e \in Calls |-> NoInquiry]
                          EXCEPT ![c] = Inquiry("sets", picked), ![d] = Inquiry("load", picked)]

-----------------------------------------------------------------------------
(* The server.                                                              *)

Unstarted == {i \in RunIds: evals[i].status = "none"}

RunsShown(i) == [id |-> i, of |-> evals[i].of, status |-> evals[i].status]
RunsOf(t) == {RunsShown(i): i \in {j \in RunIds \ Unstarted: evals[j].of = t}}

StartRun(c) ==
    LET q == inquiry[c] IN
    /\ q.kind = "start" /\ q.at = "sent" /\ q.of \in Offered
    /\ \E i \in Unstarted:
          /\ \A j \in Unstarted: i <= j
          /\ evals' = [evals EXCEPT ![i].of = q.of, ![i].status = "running"]
          /\ tasks' = tasks \cup {i}
          /\ inquiry' = [inquiry EXCEPT ![c].at = "answered", ![c].runs =
                            {[id |-> i, of |-> q.of, status |-> "running"]}]
    /\ UNCHANGED <<picked, runs, starting>>

Latest(S) == IF S = {} THEN {0} ELSE {j \in S: \A k \in S: k <= j}

\* Slip: the last run that started before, completed or not.
SlipBaseline(i) == Latest({j \in 1..(i - 1): evals[j].of = evals[i].of})

\* latest_completed_before: the last run that started before and is completed.
Baseline(i) ==
    Latest({j \in 1..(i - 1): evals[j].of = evals[i].of /\ evals[j].status = "completed"})

Complete(i) ==
    /\ i \in tasks
    /\ \E b \in Baseline(i):
          evals' = [evals EXCEPT ![i].status = "completed", ![i].baseline = b]
    /\ tasks' = tasks \ {i}
    /\ UNCHANGED <<picked, runs, starting, inquiry>>

Fail(i) ==
    /\ i \in tasks
    /\ evals' = [evals EXCEPT ![i].status = "failed"]
    /\ tasks' = tasks \ {i}
    /\ UNCHANGED <<picked, runs, starting, inquiry>>

\* The record of a run that was under way stays as it is.
Restart ==
    /\ tasks # {}
    /\ tasks' = {}
    /\ UNCHANGED <<evals, picked, runs, starting, inquiry>>

ListRuns(c) ==
    /\ inquiry[c].kind \in {"load", "sets"} /\ inquiry[c].at = "sent"
    /\ inquiry' = [inquiry EXCEPT ![c].at = "answered",
                      ![c].runs = IF inquiry[c].kind = "load" THEN RunsOf(inquiry[c].of) ELSE {}]
    /\ UNCHANGED <<evals, tasks, picked, runs, starting>>

RefuseInquiry(c) ==
    /\ inquiry[c].kind # "none" /\ inquiry[c].at # "refused"
    /\ inquiry' = [inquiry EXCEPT ![c].at = "refused", ![c].runs = {}]
    /\ UNCHANGED <<evals, tasks, picked, runs, starting>>

-----------------------------------------------------------------------------
(* The panel.                                                               *)

InquiryOver(c) == [inquiry EXCEPT ![c] = NoInquiry]

\* The selects list the models and the task sets the server has.
Pick(t, c) ==
    /\ t \in Offered \ {picked}
    /\ picked' = t
    /\ inquiry[c] = NoInquiry
    /\ inquiry' = [inquiry EXCEPT ![c] = Inquiry("load", t)]
    /\ UNCHANGED <<evals, tasks, runs, starting>>

\* The interval is there while a run that is shown is running.
PollRuns(c) ==
    /\ \E r \in runs: r.status = "running"
    /\ inquiry[c] = NoInquiry
    /\ inquiry' = [inquiry EXCEPT ![c] = Inquiry("load", picked)]
    /\ UNCHANGED <<evals, tasks, picked, runs, starting>>

StartEval(c) ==
    /\ ~starting
    /\ starting' = TRUE
    /\ inquiry[c] = NoInquiry
    /\ inquiry' = [inquiry EXCEPT ![c] = Inquiry("start", picked)]
    /\ UNCHANGED <<evals, tasks, picked, runs>>

\* The demo runs are none of the server's.
RunsLoaded(c) ==
    /\ inquiry[c].kind = "load" /\ inquiry[c].at \in {"answered", "refused"}
    /\ runs' = inquiry[c].runs
    /\ inquiry' = InquiryOver(c)
    /\ UNCHANGED <<evals, tasks, picked, starting>>

\* The run is put before the others, and the runs of its target are loaded.
EvalStarted(c) ==
    LET q == inquiry[c] IN
    /\ q.kind = "start" /\ q.at = "answered"
    /\ runs' = q.runs \cup {r \in runs: \A s \in q.runs: r.id # s.id}
    /\ starting' = FALSE
    /\ inquiry' = [inquiry EXCEPT ![c] = Inquiry("load", q.of)]
    /\ UNCHANGED <<evals, tasks, picked>>

EvalRefused(c) ==
    /\ inquiry[c].kind = "start" /\ inquiry[c].at = "refused"
    /\ starting' = FALSE
    /\ inquiry' = InquiryOver(c)
    /\ UNCHANGED <<evals, tasks, picked, runs>>

\* A target whose task set the server does not have gives way to one it has.
SetsLoaded(c) ==
    LET known == inquiry[c].at = "refused" \/ picked \in Offered IN
    /\ inquiry[c].kind = "sets" /\ inquiry[c].at \in {"answered", "refused"}
    /\ picked' = IF known THEN picked ELSE AnyTarget
    /\ inquiry' = IF known THEN InquiryOver(c)
                  ELSE [inquiry EXCEPT ![c] = Inquiry("load", AnyTarget)]
    /\ UNCHANGED <<evals, tasks, runs, starting>>

-----------------------------------------------------------------------------
EvalsNext ==
    \/ \E i \in RunIds: Complete(i) \/ Fail(i)
    \/ Restart
    \/ \E c \in Calls:
          \/ StartRun(c) \/ ListRuns(c) \/ RefuseInquiry(c)
          \/ \E t \in Targets: Pick(t, c)
          \/ PollRuns(c) \/ StartEval(c)
          \/ RunsLoaded(c) \/ EvalStarted(c) \/ EvalRefused(c) \/ SetsLoaded(c)

EvalsSpec == EvalsInit /\ [][EvalsNext]_evalsVars

-----------------------------------------------------------------------------
(* A run is compared with a completed run of the same target that started   *)
(* before it, whichever of the two is over first; a run that failed has no  *)
(* baseline and is none.                                                    *)
BaselineIsBefore ==
    \A i \in RunIds:
        LET b == evals[i].baseline IN
        b # 0 => /\ b < i /\ evals[b].of = evals[i].of
                 /\ evals[i].status = "completed" /\ evals[b].status = "completed"
=============================================================================
