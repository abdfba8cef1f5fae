SPECIFICATION FairSpec
CONSTANTS
  NumIssues = 1
  Attempts = 2
  LateCreate = TRUE
  Operator = FALSE
  MaxEvents = 0
  MaxCrashes = 1
PROPERTIES
  UpdatesDelivered
  EveryIssueDecided
