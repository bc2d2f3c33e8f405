SPECIFICATION FairSpec
CONSTANTS
  Sizes = {portrait, landscape}
  Rates = {r1}
  ArgRate = r1
  MaxControl = 2
  MaxFailed = 2
INVARIANTS
  TypeOK
  FramesAreAnnounced
  OnlyFailuresLeave
PROPERTY DisconnectEnds
CHECK_DEADLOCK FALSE
