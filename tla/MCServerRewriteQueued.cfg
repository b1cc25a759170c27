SPECIFICATION Spec
CONSTANTS
  Layer <- LayerSet
  Key <- OneKey
  DecodedKey <- SameKey
  DecodedText <- SameText
  LongValue <- LongTexts
  InBounds <- PosSet
  layer = layer
  k1 = k1
  pos = pos
  Absent = Absent
  NoPosition = NoPosition
  NoKey = NoKey
  EmptyValue = EmptyValue
  LongText = LongText
  PlusText = PlusText
  SpaceText = SpaceText
  FinePosition = FinePosition
  SixDecimals = SixDecimals
  NoOp = NoOp
  NoProcess = NoProcess
  Child = Child
  Torn = Torn
  Worker = {w1}
  Request <- CountRequests
  Oversized <- NoRequests
  FsyncPeriod = 0
  JournalBufferSize = 1
  Capacity = 2
  PromptParent = TRUE
  WriteMayFail = FALSE
  DumpMayFail = FALSE
  IntMax = 1
  ForkMayFail = FALSE
  MaxOps = 2
  MaxCrashes = 0
  MaxRewrites = 1
  MaxTime = 1
CHECK_DEADLOCK FALSE
INVARIANT AckedDurable
