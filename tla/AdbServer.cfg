SPECIFICATION FairSpec
CONSTANTS
  MaxStreams = 1
  MaxRequests = 4
  MaxPieces = 2
  MaxSent = 6
  QueueDepth = 2
  SocketDepth = 2
INVARIANT TypeOK
PROPERTIES
  KeepsPromise
  EndReachesOwner
  WaitsOnlyWhenFull
CHECK_DEADLOCK FALSE
