SPECIFICATION DaemonSpec
CONSTANTS
  nMax = 3
  MaxRuns = 6
INVARIANTS
  Ordered
  OwnLog
  LogOpen
PROPERTIES
  OnlyLastRemoved
  ShutdownEnds
CHECK_DEADLOCK FALSE
