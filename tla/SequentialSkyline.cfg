SPECIFICATION Spec
CONSTANTS
  M = 2
  Values = {0, 1}
  W = 4
  N = 7
  K = 2
  Verbose = TRUE
INVARIANTS
  TypeOK
  StoresTheCandidates
  SkylineComplete
  RestWaits
  WindowsSlide
  IInv
  OInv
PROPERTIES
  PromotionSound
  ImplementsSkylineStream
CHECK_DEADLOCK FALSE
