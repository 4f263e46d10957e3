----------------------------- MODULE WebViews -----------------------------
(***************************************************************************)
(* The parts of the page that show what the server has of a project and     *)
(* change nothing there: how each loads, guards and repeats its calls.      *)
(***************************************************************************)
EXTENDS Naturals, WebBase

CONSTANTS MaxWrites   \* bound: changes of what the server has

ASSUME MaxWritesAssumption == MaxWrites \in Nat

VARIABLES
    view,      \* the view looked at
    written,   \* the server: the version of what it has of each project
    showing,   \* the project the view is asked for
    shownOf,   \* what it shows: a project's data in a version, the demo, nothing
    viewLoading,   \* its viewLoading flag
    glance,    \* the calls
    upset      \* history: a call for the project now asked for has failed

viewsVars == <<view, written, showing, shownOf, viewLoading, glance, upset>>

\* "guarded": an answer counts only if the project is still the one it was asked
\* for; "polled": an interval asks again; "demo": a call that fails shows the
\* demo data, or else what was there stays; "covers": a viewLoading mark hides it.
DecisionPage == [guarded |-> FALSE, polled |-> TRUE, demo |-> TRUE, covers |-> TRUE]
DecisionBadge == [guarded |-> TRUE, polled |-> TRUE, demo |-> FALSE, covers |-> FALSE]
InboxBadge == [guarded |-> TRUE, polled |-> TRUE, demo |-> FALSE, covers |-> FALSE]
RequirementList == [guarded |-> TRUE, polled |-> FALSE, demo |-> FALSE, covers |-> FALSE]
InsightsPage == [guarded |-> TRUE, polled |-> FALSE, demo |-> TRUE, covers |-> TRUE]

Views == {DecisionPage, DecisionBadge, InboxBadge, RequirementList, InsightsPage}

Things == [kind: {"nothing", "demo", "data"}, of: Projects, version: 0..MaxWrites]
Thing(kind, p, n) == [kind |-> kind, of |-> p, version |-> n]
Nothing == Thing("nothing", DefaultProject, 0)
Demo == Thing("demo", DefaultProject, 0)

GlanceRecord ==
    [at: {"none", "sent", "answered", "failed"}, of: Projects,
     version: 0..MaxWrites, active: BOOLEAN]
NoGlance == [at |-> "none", of |-> DefaultProject, version |-> 0, active |-> FALSE]
Glance(p) == [at |-> "sent", of |-> p, version |-> 0, active |-> TRUE]

ViewsTypeOK ==
    /\ view \in Views
    /\ written \in [Projects -> 0..MaxWrites]
    /\ showing \in Projects
    /\ shownOf \in Things
    /\ viewLoading \in BOOLEAN
    /\ glance \in [Calls -> GlanceRecord]
    /\ upset \in BOOLEAN

\* The view is opened: its first call is under way.
ViewsInit ==
    /\ view \in Views
    /\ written = [p \in Projects |-> 0]
    /\ showing \in Projects
    /\ shownOf = Nothing
    /\ viewLoading = view.covers
    /\ \E first \in Calls:
          glance = [c \in Calls |-> IF c = first THEN Glance(showing) ELSE NoGlance]
    /\ upset = FALSE

-----------------------------------------------------------------------------
WriteThing(p) ==
    /\ written[p] < MaxWrites
    /\ written' = [written EXCEPT ![p] = @ + 1]
    /\ UNCHANGED <<view, showing, shownOf, viewLoading, glance, upset>>

ServeGlance(c) ==
    /\ glance[c].at = "sent"
    /\ glance' = [glance EXCEPT ![c].at = "answered", ![c].version = written[glance[c].of]]
    /\ UNCHANGED <<view, written, showing, shownOf, viewLoading, upset>>

FailGlance(c) ==
    /\ glance[c].at \in {"sent", "answered"}
    /\ glance' = [glance EXCEPT ![c].at = "failed", ![c].version = 0]
    /\ upset' = (upset \/ (glance[c].active /\ glance[c].of = showing))
    /\ UNCHANGED <<view, written, showing, shownOf, viewLoading>>

-----------------------------------------------------------------------------
(* The effect of the view runs again when the project is another one; its   *)
(* cleanup comes first.                                                     *)

\* Slip: the effect has no cleanup.
SlipCleaned(calls) == calls

Cleaned(calls) ==
    [c \in Calls |-> [calls[c] EXCEPT !.active = @ /\ ~view.guarded]]

AskFor(p, c) ==
    /\ p # showing
    /\ glance[c] = NoGlance
    /\ showing' = p
    /\ glance' = [Cleaned(glance) EXCEPT ![c] = Glance(p)]
    /\ viewLoading' = (viewLoading \/ view.covers)
    /\ upset' = (\E d \in Calls: glance'[d].at = "failed" /\ glance'[d].active
                                 /\ glance'[d].of = p)
    /\ UNCHANGED <<view, written, shownOf>>

\* Slip: the interval asks for the project the view was of when it started.
SlipAskAgain(c) ==
    /\ view.polled
    /\ glance[c] = NoGlance
    /\ glance' = [glance EXCEPT ![c] = Glance(shownOf.of)]
    /\ UNCHANGED <<view, written, showing, shownOf, viewLoading, upset>>

AskAgain(c) ==
    /\ view.polled
    /\ glance[c] = NoGlance
    /\ glance' = [glance EXCEPT ![c] = Glance(showing)]
    /\ UNCHANGED <<view, written, showing, shownOf, viewLoading, upset>>

GlanceOver(c) == glance' = [glance EXCEPT ![c] = NoGlance]

Arrives(c) ==
    /\ glance[c].at = "answered"
    /\ glance[c].active
    /\ shownOf' = Thing("data", glance[c].of, glance[c].version)
    /\ viewLoading' = FALSE
    /\ GlanceOver(c)
    /\ UNCHANGED <<view, written, showing, upset>>

GlanceFails(c) ==
    /\ glance[c].at = "failed"
    /\ glance[c].active
    /\ shownOf' = IF view.demo THEN Demo ELSE shownOf
    /\ viewLoading' = FALSE
    /\ GlanceOver(c)
    /\ UNCHANGED <<view, written, showing, upset>>

Ignored(c) ==
    /\ glance[c].at \in {"answered", "failed"}
    /\ ~glance[c].active
    /\ GlanceOver(c)
    /\ UNCHANGED <<view, written, showing, shownOf, viewLoading, upset>>

-----------------------------------------------------------------------------
ViewsNext ==
    \/ \E p \in Projects: WriteThing(p)
    \/ \E c \in Calls:
          \/ ServeGlance(c) \/ FailGlance(c) \/ AskAgain(c)
          \/ \E p \in Projects: AskFor(p, c)
          \/ Arrives(c) \/ GlanceFails(c) \/ Ignored(c)

ViewsSpec == ViewsInit /\ [][ViewsNext]_viewsVars

\* What must happen to a call that was made, and the interval.
GlanceGoesOn(c) ==
    ServeGlance(c) \/ FailGlance(c) \/ Arrives(c) \/ GlanceFails(c) \/ Ignored(c)

ViewsPolls == \E c \in Calls: AskAgain(c)

-----------------------------------------------------------------------------
(* A view that guards its calls is never turned back to a project the user  *)
(* has left by an answer that comes late.                                   *)
NotTurnedBack ==
    [][view.guarded /\ shownOf' # shownOf /\ shownOf'.kind = "data"
        => shownOf'.of = showing]_viewsVars

(* While the user stays on a project and no call for it fails, the view is  *)
(* of that project in the end, in the server's version if the view polls,   *)
(* and the loading mark goes, also where late answers are not ignored.      *)
ViewSettles ==
    \A p \in Projects:
        (<>[](showing = p /\ ~upset)) =>
            <>[](/\ ~viewLoading
                 /\ view.guarded => shownOf.kind = "data" /\ shownOf.of = p
                 /\ view.polled => shownOf = Thing("data", p, written[p]))
=============================================================================
