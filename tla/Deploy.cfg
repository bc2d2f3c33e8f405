SPECIFICATION FairSpec
CONSTANTS
  Phones = {a, b}
  Emulators = {e}
  NoSerial = NoSerial
  Address = Address
  MaxLeftover = 2
  PipeDepth = 2
  MaxChunks = 2
  SyncDepth = 2
  MaxPrints = 1
INVARIANTS
  TypeOK
  RightDevice
  NoNeedlessPrompt
  LaunchHasFiles
PROPERTY PrepareEnds
CHECK_DEADLOCK FALSE
