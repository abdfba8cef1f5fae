SPECIFICATION Spec
CONSTANTS
  NumIssues = 1
  Attempts = 2
  LateCreate = FALSE
  Operator = FALSE
  MaxEvents = 0
  MaxCrashes = 1
INVARIANTS
  SubmittedIsAnnounced
