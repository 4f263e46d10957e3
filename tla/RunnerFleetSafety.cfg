\* Every fault, and executions of any length.
SPECIFICATION FleetSpec
CONSTANTS
  w1 = w1
  Runners = {r1, r2}
  Workspaces = {w1}
  WorkspaceOf <- MCWorkspaceOf
  MaxJobs = 1
  Results = {ok, err}
  Success = ok
  Failure = err
  Threads = {t1, t2}
  LeaseTtl = 1
  HeartbeatTtl = 1
  NoRunner = NoRunner
  NoResult = NoResult
  NoThread = NoThread
  MaxTries = 2
  MaxFaults = 2
  Faults = {"lost_request", "lost_response", "timeout", "kill", "interrupt", "restart", "revoke"}
  Timely = FALSE
SYMMETRY Symmetry
INVARIANTS FleetTypeOK AtMostOneWorker WorkIsGranted
PROPERTIES ResultIsFinal
CHECK_DEADLOCK FALSE
