SPECIFICATION FairSpec
CONSTANTS
  NalDepth = 2
  FrameDepth = 1
  MaxChunk = 3
  MaxCmds = 1
INVARIANTS
  TypeOK
  GapEndsWithChunk
  FrameMeetsItsConfigure
PROPERTIES
  ProcessExits
  InputServed
CHECK_DEADLOCK FALSE
