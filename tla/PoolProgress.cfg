\* One worker, its restarts and requests behind its back: everything gets done.
SPECIFICATION FairSpec
CONSTANTS
  f = f
  g = g
  a = a
  b = b
  w1 = w1
  w2 = w2
  m = m
  MaxTicket = 3
  Files <- MCFiles
  DependsOn <- MCDependsOn
  Threads = {w1, w2, m}
  Workers = {a, b}
  WorkerOf <- OneAndRequest
  NoWorker = NoWorker
  LeaseTtl = 1
  Mishaps = {"crash", "stop", "dirty", "error", "requeue", "execute"}
  MaxMishaps = 1
PROPERTIES EveryTicketLands
CHECK_DEADLOCK FALSE
