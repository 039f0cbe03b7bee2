CONSTANTS
  Node = {n1, n2, n3, n4, n5, n6}
  NULL = NULL
  MaxEt = 4
SYMMETRY Symmetry
SPECIFICATION Spec
INVARIANTS RedBlack RecycleVisitsOnce
PROPERTIES ImplementsPool
CHECK_DEADLOCK FALSE
