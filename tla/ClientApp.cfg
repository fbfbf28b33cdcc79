SPECIFICATION Spec
CONSTANTS
  MaxChunks = 2
  MaxQueue = 2
  LOOP_LOOPS = 2
  HEARTBEAT_WAIT = 1
  HEARTBEAT_DELAY = 2
  HEARTBEAT_MISS = 1
INVARIANTS
  TypeOK
  FileIsPrefix
PROPERTIES
  NoLengthNoWait
  LostDaemonLeft
CHECK_DEADLOCK FALSE
