SPECIFICATION FairSpec
CONSTANTS
  Leads = {"two", "four"}
  OutCapacity = 3
  ErrCapacity = 0
  MaxOut = 4
  MaxErr = 1
INVARIANTS
  TailsAreExact
  TextIsWhole
  WholeOutput
  GroupStops
PROPERTIES
  Returns
CHECK_DEADLOCK FALSE
