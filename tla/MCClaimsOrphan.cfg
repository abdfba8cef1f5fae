SPECIFICATION Spec
CONSTANTS
  a = a
  b = b
  Instances = {a, b}
  Timeout = 2
  MaxComments = 2
  MaxTokens = 2
  MaxLate = 0
  Prompt = TRUE
SYMMETRY Interchangeable
INVARIANTS
  NoOrphanClaim
