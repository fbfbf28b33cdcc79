SPECIFICATION Spec
CONSTANTS
  szFilename = f1
  NULL = NULL
  Lengths = {1}
  MaxChunks = 1
  ChunkMod = 65536
  MaxQueue = 2
  LOOP_LOOPS = 2
  PROGRAM_WAIT = 2
  CLIENT_WAIT = 1
  HEARTBEAT_DELAY = 1
  HEARTBEAT_MISS = 2
INVARIANTS
  TypeOK
PROPERTIES
  PartsImplemented
  BothEnd
CHECK_DEADLOCK FALSE
