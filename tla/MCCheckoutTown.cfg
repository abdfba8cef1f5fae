SPECIFICATION Spec
CONSTANTS
  Bots = {b1}
  Attempts = 2
  MaxCommits = 4
  MaxPulls = 2
  Unruly = FALSE
  Town = TRUE
  Losses = {"worktree", "checkout", "workspace"}
INVARIANTS
  BaselessIsClean
  PushedIsRecovered

  
CHECK_DEADLOCK FALSE
