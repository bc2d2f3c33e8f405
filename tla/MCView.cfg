SPECIFICATION ViewSpec
CONSTANTS
  Displays <- MCDisplays
  Windows <- MCWindows
  MaxSizes = {0, 30}
  Toolbar = 3
  WireDepth = 2
INVARIANTS
  ViewTypes
  LandsWhereShown
CHECK_DEADLOCK FALSE
