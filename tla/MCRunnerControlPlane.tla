------------------------ MODULE MCRunnerControlPlane ------------------------
(* A small fleet for TLC: runners r1 and r2 serve workspace w1, and jobs are  *)
(* enqueued in w1 and in w2.                                                *)
EXTENDS RunnerControlPlane, TLC

CONSTANTS r1, r2, w1, w2

MCWorkspaceOf == [r \in Runners |-> w1]

Symmetry == Permutations(Runners) \cup Permutations(Threads)
=============================================================================
