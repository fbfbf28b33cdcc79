SPECIFICATION Spec
CONSTANTS
  Empty = Empty
  Half = Half
  MaxQueue = 2
  MaxSent = 2
  NODE_HEARTBEAT_DELAY = 2
  NODE_HEARTBEAT_MISS = 2
INVARIANTS
  TypeOK
  MailInOrder
  LivePeerKept
PROPERTIES
  NothingStuck
  MailTaken
CHECK_DEADLOCK FALSE
