SPECIFICATION Spec
CONSTANTS
  Producers = {p1, p2}
  Consumers = {c1, c2}
  Quota = 2
  queueSize = 1
  SpuriousWakeups = TRUE
INVARIANTS
  TypeOK
  NoLostWakeup
PROPERTIES
  ImplementsFifo
  EveryPushIsPopped
CHECK_DEADLOCK FALSE
