SPECIFICATION Spec
CONSTANTS
  M = 2
  Values = {0, 1}
  W = 3
  N = 4
  K = 1
  NW_sky = 3
  NW_rest = 2
  Garbage = {0, 9}
CONSTRAINT
  ManyWait
INVARIANTS
  IInv
  ListsSound
  PrintedTogether
  OnlyRacesLose
  WaitsForADominator
CHECK_DEADLOCK FALSE
