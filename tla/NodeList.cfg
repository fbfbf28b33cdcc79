SPECIFICATION Spec
CONSTANTS
  Nodes = {n1, n2, n3, n4}
  NULL = NULL
  nMin = 1
  nMax = 3
  MaxPasses = 1
INVARIANTS
  TypeOK
  ListSound
  NoUseAfterDelete
PROPERTIES
  ImplementsStack
  NetworkReturns
  FrontNodeDeleted
CHECK_DEADLOCK FALSE
