\* One stream in depth: several writes and payloads, a channel of two; every call returns.
SPECIFICATION FairSpec
CONSTANTS
  MaxStreams = 1
  MaxRequests = 4
  MaxChunks = 2
  MaxSent = 4
  QueueDepth = 2
  WireDepth = 2
INVARIANT TypeOK
PROPERTIES
  KeepsPromise
  CallsReturn
  CloseReachesOwner
CHECK_DEADLOCK FALSE
