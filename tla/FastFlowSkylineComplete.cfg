SPECIFICATION Spec
CONSTANTS
  M = 1
  Values = {0, 1}
  W = 2
  N = 3
  K = 1
  NW_sky = 2
  NW_rest = 2
  Garbage = {0}
INVARIANTS
  SkylineComplete
CHECK_DEADLOCK FALSE
