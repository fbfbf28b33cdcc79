SPECIFICATION Spec
CONSTANTS
  Clients = {c1, c2, c3}
  NULL = NULL
  MaxPasses = 1
INVARIANTS
  TypeOK
  NoClientLost
  NoUseAfterDelete
  TableBounded
PROPERTIES
  WaitingClientServed
  AcceptGetsItsTurn
  ImplementsPool
CHECK_DEADLOCK FALSE
