CONSTANTS
  Node = {n1, n2, n3, n4, n5}
  NULL = NULL
  MaxEt = 3
SYMMETRY Symmetry
SPECIFICATION Spec
INVARIANT TimeoutsAreDue
CHECK_DEADLOCK FALSE
