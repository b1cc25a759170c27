SPECIFICATION Spec
CONSTANTS
  NbElements = 4
  Element = {a, b, c}
  NoSlot = NoSlot
  Null = Null
  Stored = Stored
  Refused = Refused
  Garbage = Garbage
INVARIANT TypeOK
INVARIANT RingConsistent
PROPERTY FifoSpec
