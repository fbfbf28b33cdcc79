SPECIFICATION Spec
CONSTANTS
  Nodes = {n1, n2}
  NULL = NULL
  nMin = 1
  nMax = 2
  MaxPasses = 1
PROPERTIES
  ClosedNodesRemoved
CHECK_DEADLOCK FALSE
