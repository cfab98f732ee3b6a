SPECIFICATION Spec
CONSTANTS
  Lists = {sky, rest}
  Values = {a, b}
  Cells = {c1, c2, c3, c4}
  NULL = NULL
  Freed = Freed
INVARIANTS
  TypeOK
  OwnedOnce
PROPERTIES
  ImplementsNodeLists
CHECK_DEADLOCK FALSE
