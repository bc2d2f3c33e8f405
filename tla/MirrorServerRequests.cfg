SPECIFICATION Spec
CONSTANTS
  Sizes = {portrait, landscape}
  Rates = {r1, r2}
  ArgRate = r1
  MaxControl = 2
  MaxFailed = 1
INVARIANT RequestsHold
CHECK_DEADLOCK FALSE
