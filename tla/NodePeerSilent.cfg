SPECIFICATION Spec
CONSTANTS
  Empty = Empty
  Half = Half
  MaxQueue = 2
  MaxSent = 1
  NODE_HEARTBEAT_DELAY = 2
  NODE_HEARTBEAT_MISS = 2
PROPERTIES
  SilentPeerDropped
CHECK_DEADLOCK FALSE
