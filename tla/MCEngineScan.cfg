SPECIFICATION Spec
CONSTANTS
  NumIssues = 2
  Attempts = 2
  LateCreate = FALSE
  Operator = TRUE
  MaxEvents = 1
  MaxCrashes = 1
INVARIANTS
  RunsWithinBudget
  IdleMeansReconciled
  HasPullIsForeign
  LiveCommentIsKnown
  SubmittedHasPull
PROPERTIES
  DecisionStands
  LifecycleHolds
