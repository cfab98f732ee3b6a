SPECIFICATION Spec
CONSTANTS
  Producers = {p1}
  Consumers = {c1}
  Quota = 2
  queueSize <- DefaultSize
  SpuriousWakeups = FALSE
INVARIANTS
  PopFindsElement
CHECK_DEADLOCK FALSE
