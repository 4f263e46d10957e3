SPECIFICATION CPSpec
CONSTANTS
  r1 = r1
  r2 = r2
  w1 = w1
  w2 = w2
  Runners = {r1, r2}
  Workspaces = {w1, w2}
  WorkspaceOf <- MCWorkspaceOf
  MaxJobs = 1
  Results = {ok, err}
  Threads = {t1, t2}
  LeaseTtl = 2
  HeartbeatTtl = 1
  NoRunner = NoRunner
  NoResult = NoResult
SYMMETRY Symmetry
INVARIANTS CPTypeOK JobRowCoherent EventsOnlyFromGrantees
PROPERTIES TerminalIsFinal LeaseHeldUntilExpiry ResultOnlyFromOwner ImplementsProtocol
