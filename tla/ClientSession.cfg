SPECIFICATION Spec
CONSTANTS
  Files = {f1, f2}
  NULL = NULL
  Versions = {0, 1, 2}
  Lengths = {1}
  MaxChunks = 2
  ChunkMod = 65536
  MaxQueue = 2
  HEARTBEAT_WAIT = 1
  HEARTBEAT_DELAY = 2
  HEARTBEAT_MISS = 2
INVARIANTS
  TypeOK
  AssertionsHold
PROPERTIES
  ImplementsStream
  NoRequestNoStay
  SilentPeerDropped
CHECK_DEADLOCK FALSE
