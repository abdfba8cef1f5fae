SPECIFICATION Spec
CONSTANTS
  a = a
  b = b
  Instances = {a, b}
  Timeout = 1
  MaxComments = 2
  MaxTokens = 2
  MaxLate = 1
  Prompt = FALSE
SYMMETRY Interchangeable
INVARIANTS
  ExclusiveUnlessRevived
  ElectionInv
