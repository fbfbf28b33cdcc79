SPECIFICATION Spec
CONSTANTS
  Clients = {c1, c2}
  Nodes = {n1, n2}
  Talking = {n1}
  NULL = NULL
  MaxChunk = 1
INVARIANTS
  TypeOK
PROPERTIES
  FilesPurged
  LocalTaken
CHECK_DEADLOCK FALSE
