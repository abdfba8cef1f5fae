SPECIFICATION Session
CONSTANTS
  Issues = {1, 2, 3}
  Window = 2
  ActivityLimit = 2
  Streams = {s1, s2}
  Log = log
  PageStep = 2
  Far = 9
  Pressed <- MCPressed
  Pasted <- MCPasted
  MaxPending = 5
  MaxEvents = 4
  MaxSlack = 1
CHECK_DEADLOCK FALSE
INVARIANTS
  PaneIsConsistent
  RowsFollowStreams
  KeysAreWhole
PROPERTIES
  SnapshotIsRight
  CursorIsKept
