SPECIFICATION FairSpec
CONSTANTS
  a = a
  b = b
  Instances = {a, b}
  Timeout = 2
  MaxComments = 2
  MaxTokens = 2
  MaxLate = 0
  Prompt = TRUE
INVARIANTS
  Exclusive
  OneCommentPerToken
PROPERTIES
  CommentKeepsItsToken
  FinishedStaysFinished
  LostClaimStopsWork
  FinalStateDelivered
