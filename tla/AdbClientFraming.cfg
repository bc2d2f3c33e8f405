SPECIFICATION Spec
CONSTANTS
  MaxStreams = 1
  MaxRequests = 2
  MaxChunks = 1
  MaxSent = 1
  QueueDepth = 1
  WireDepth = 1
INVARIANT WholePackets
CHECK_DEADLOCK FALSE
