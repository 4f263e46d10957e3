\* The pipeline and the endpoints that interrupt it, against a run and an audit.
SPECIFICATION Spec
CONSTANTS
  t1 = t1
  t2 = t2
  Tickets = {t1}
  RetryBudget = 0
  Models = 1
  GivenModels = {1}
  EscalateTo = "tech_lead"
  SplitSize = 1
  PullRequests = {FALSE}
  CloudClient = TRUE
  MayCrash = TRUE
  MaxCopies = 2
  MaxAttempts = 2
  PoOps <- Pipeline
INVARIANTS TypeOK VerifiedBeforeReview
CHECK_DEADLOCK FALSE
