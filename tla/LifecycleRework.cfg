\* The retry budget, the chain of models, and every way to interrupt a run.
SPECIFICATION FairSpec
CONSTANTS
  t1 = t1
  t2 = t2
  Tickets = {t1}
  RetryBudget = 0
  Models = 2
  GivenModels = {0}
  EscalateTo = "tech_lead"
  SplitSize = 1
  PullRequests = {FALSE}
  CloudClient = FALSE
  MayCrash = TRUE
  MaxCopies = 3
  MaxAttempts = 2
  PoOps <- Rework
INVARIANTS TriesBounded
PROPERTIES FirstBlockIsHandled RunEnds TestingIsTransient
CHECK_DEADLOCK FALSE
