---------------------------- MODULE MCWorkerPool ----------------------------
(* Three tickets for TLC: 1 and 2 touch the same file, 3 waits for 1.       *)
EXTENDS WorkerPool

CONSTANTS f, g, a, b, w1, w2, m

MCFiles == <<{f}, {f}, {g}>>

MCDependsOn == <<{}, {}, {1}>>

OneWorker == [w \in Threads |-> a]

TwoWorkers == [w \in Threads |-> IF w = w1 THEN a ELSE b]

\* A worker, the thread of its next start, and a request.
OneAndRequest == [w \in Threads |-> IF w = m THEN NoWorker ELSE a]
=============================================================================
