\* Both gates, used as intended, for a ticket and its split child.
SPECIFICATION Spec
CONSTANTS
  t1 = t1
  t2 = t2
  Tickets = {t1, t2}
  RetryBudget = 0
  Models = 1
  GivenModels = {1}
  EscalateTo = "tech_lead"
  SplitSize = 1
  PullRequests = {TRUE, FALSE}
  CloudClient = TRUE
  MayCrash = TRUE
  MaxCopies = 3
  MaxAttempts = 2
  PoOps <- Gates
INVARIANTS BoardIsTrue
PROPERTIES NoRunBeforeApproval PrOnlyWhenAccepted
CHECK_DEADLOCK FALSE
