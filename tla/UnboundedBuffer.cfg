SPECIFICATION Spec
CONSTANTS
  Null = Null
  size = 2
  CacheSize = 1
  Buffers = {b1, b2, b3, b4, b5}
  Nodes = {n1, n2, n3, n4, n5}
  Quota = 9
INVARIANTS
  IInv
  MemoryInPlace
PROPERTIES
  ImplementsFifo
  EverythingArrives
CHECK_DEADLOCK FALSE
