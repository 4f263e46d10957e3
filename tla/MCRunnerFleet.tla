---------------------------- MODULE MCRunnerFleet ----------------------------
(* Two daemons of one workspace for TLC.                                    *)
EXTENDS RunnerFleet, TLC

CONSTANTS w1

MCWorkspaceOf == [r \in Runners |-> w1]

Symmetry == Permutations(Runners) \cup Permutations(Threads)
=============================================================================
