SPECIFICATION FairSpec
CONSTANTS
  MaxRuns = 2
  Attempts = 2
INVARIANTS
  TypeOK
  SettingRestored
  LiveMirrorIsServed
PROPERTIES
  PrepareEnds
  NoSilentMirror
CHECK_DEADLOCK FALSE
