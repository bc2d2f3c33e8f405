\* One recording after another through changes of size, skips and failures, next to a GIF.
SPECIFICATION FairSpec
CONSTANTS
  Sizes = {s1, s2}
  FrameDepth = 2
  GifDepth = 1
  MaxCmds = 1
  MaxSamples = 3
INVARIANTS
  TypeOK
  SamplesPlay
  SavedComplete
  SessionRecords
PROPERTIES
  JoinReturns
CHECK_DEADLOCK FALSE
