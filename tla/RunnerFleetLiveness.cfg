SPECIFICATION FleetFairSpec
CONSTANTS
  w1 = w1
  Runners = {r1, r2}
  Workspaces = {w1}
  WorkspaceOf <- MCWorkspaceOf
  MaxJobs = 1
  Results = {ok, err}
  Success = ok
  Failure = err
  Threads = {t1, t2}
  LeaseTtl = 2
  HeartbeatTtl = 2
  NoRunner = NoRunner
  NoResult = NoResult
  NoThread = NoThread
  MaxTries = 2
  MaxFaults = 1
  Faults = {"lost_request", "kill", "interrupt", "revoke"}
  Timely = TRUE
PROPERTIES EveryJobEnds RevokedLeaseEnds
CHECK_DEADLOCK FALSE
