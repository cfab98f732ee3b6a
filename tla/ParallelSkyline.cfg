SPECIFICATION Spec
CONSTANTS
  M = 2
  Values = {0, 1}
  W = 3
  N = 4
  K = 1
  NW_sky = 2
  NW_rest = 2
CONSTRAINT
  TwoWaitApart
INVARIANTS
  IInv
  TypeOK
  StageExclusion
  MessageIntact
  CountersAgree
  QueuesHoldOne
  WindowThenSkyline
  StoredOnce
PROPERTIES
  ImplementsSkylineStream
  Terminates
CHECK_DEADLOCK FALSE
