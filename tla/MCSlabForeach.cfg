SPECIFICATION Spec
CONSTANTS
  Chunk = {c1, c2, c3, c4}
  NbSlots = 3
  NULL = NULL
SYMMETRY Addresses
INVARIANT ForeachComplete
CHECK_DEADLOCK FALSE
