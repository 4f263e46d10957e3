\* Two workers, no mishap: executions that share a file.
SPECIFICATION Spec
CONSTANTS
  f = f
  g = g
  a = a
  b = b
  w1 = w1
  w2 = w2
  m = m
  MaxTicket = 3
  Files <- MCFiles
  DependsOn <- MCDependsOn
  Threads = {w1, w2}
  Workers = {a, b}
  WorkerOf <- TwoWorkers
  NoWorker = NoWorker
  LeaseTtl = 2
  Mishaps = {}
  MaxMishaps = 0
INVARIANTS DisjointRuns
CHECK_DEADLOCK FALSE
