SPECIFICATION FairSpec
CONSTANTS
  s1 = s1
  d1 = d1
  d2 = d2
  stateA = stateA
  stateB = stateB
  checkoutA = checkoutA
  checkoutB = checkoutB
  Nobody = Nobody
  Streams = {s1}
  Others = {d1, d2}
  StateDir <- CrossedStates
  Checkout <- CrossedCheckouts
  MaxProgress = 1
INVARIANTS
  Excluded
  LocksReturned
  WellFormed
  CompleteMeansReleased
PROPERTIES
  StopIsPrompt
  AbandonedRunEnds
CHECK_DEADLOCK FALSE
