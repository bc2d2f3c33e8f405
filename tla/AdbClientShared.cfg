\* Two streams sharing the link and the reader.
SPECIFICATION Spec
CONSTANTS
  MaxStreams = 2
  MaxRequests = 2
  MaxChunks = 1
  MaxSent = 1
  QueueDepth = 1
  WireDepth = 1
INVARIANTS
  IdleMeansSettled
  NoAnswerMissed
  NoOrphanSocket
CHECK_DEADLOCK FALSE
