SPECIFICATION Spec
CONSTANTS
  M = 2
  Values = {0, 1}
  W = 3
  N = 4
  K = 1
  NW_sky = 1
  NW_rest = 2
CONSTRAINT
  TwoWait
INVARIANTS
  SkylineComplete
CHECK_DEADLOCK FALSE
