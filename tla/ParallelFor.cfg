SPECIFICATION Spec
CONSTANTS
  WorkerNumbers = {1, 3}
  Lengths = {0, 2, 4}
  Calls = 2
INVARIANTS
  IInv
  WorkersParked
  NoLostWakeup
PROPERTIES
  ImplementsForkJoin
  Terminates
CHECK_DEADLOCK FALSE
