\* The default pool of one worker: what it can count on.
SPECIFICATION Spec
CONSTANTS
  f = f
  g = g
  a = a
  b = b
  w1 = w1
  w2 = w2
  m = m
  MaxTicket = 3
  Files <- MCFiles
  DependsOn <- MCDependsOn
  Threads = {w1}
  Workers = {a, b}
  WorkerOf <- OneWorker
  NoWorker = NoWorker
  LeaseTtl = 2
  Mishaps = {"crash", "dirty", "error", "requeue"}
  MaxMishaps = 3
INVARIANTS TypeOK DependenciesMet LiveLeasesDisjoint
CHECK_DEADLOCK FALSE
