SPECIFICATION Spec
CONSTANTS
  Bots = {b1, b2}
  Attempts = 1
  MaxCommits = 3
  MaxPulls = 1
  Unruly = TRUE
  Town = FALSE
  Losses = {}
SYMMETRY Symmetry
INVARIANTS
  CheckoutInv
  RemoteIsVerified
PROPERTIES
  SubmittedIsMine
CHECK_DEADLOCK FALSE
