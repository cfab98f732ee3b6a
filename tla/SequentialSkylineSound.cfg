SPECIFICATION Spec
CONSTANTS
  M = 1
  Values = {0, 1, 2}
  W = 3
  N = 4
  K = 1
  Verbose = TRUE
INVARIANTS
  SkylineSound
CHECK_DEADLOCK FALSE
