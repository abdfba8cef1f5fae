SPECIFICATION Spec
CONSTANTS
  Bots = {b1}
  Attempts = 1
  MaxCommits = 3
  MaxPulls = 1
  Unruly = FALSE
  Town = TRUE
  Losses = {}
INVARIANTS
  WorkContainsPushed
CHECK_DEADLOCK FALSE
