\* Everything that writes a status, asked of an abandoned ticket, and a run that retries.
SPECIFICATION Spec
CONSTANTS
  t1 = t1
  t2 = t2
  Tickets = {t1}
  RetryBudget = 1
  Models = 1
  GivenModels = {1}
  EscalateTo = "tech_lead"
  SplitSize = 1
  PullRequests = {FALSE}
  CloudClient = FALSE
  MayCrash = FALSE
  MaxCopies = 1
  MaxAttempts = 2
  PoOps <- Revival
PROPERTIES AbandonedUnlessStaleSave
CHECK_DEADLOCK FALSE
