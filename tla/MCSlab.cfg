SPECIFICATION Spec
CONSTANTS
  Chunk = {c1, c2, c3, c4}
  NbSlots = 3
  NULL = NULL
SYMMETRY Addresses
INVARIANT TypeOK
INVARIANT WellLinked
INVARIANT ForeachSound
INVARIANT SlotsAreOwned
CHECK_DEADLOCK FALSE
