SPECIFICATION Spec
CONSTANTS
  Layer <- LayerSet
  Key <- OneKey
  DecodedKey <- SameKey
  DecodedText <- SameText
  LongValue <- LongTexts
  InBounds <- PosSet
  layer = layer
  k1 = k1
  pos = pos
  Absent = Absent
  NoPosition = NoPosition
  NoKey = NoKey
  EmptyValue = EmptyValue
  LongText = LongText
  PlusText = PlusText
  SpaceText = SpaceText
  FinePosition = FinePosition
  SixDecimals = SixDecimals
  NoOp = NoOp
  NoProcess = NoProcess
  Child = Child
  Torn = Torn
  Worker = {w1}
  Request <- StoreRequests
  Oversized <- OversizedRequests
  FsyncPeriod = 0
  JournalBufferSize = 1
  Capacity = 1
  PromptParent = TRUE
  WriteMayFail = FALSE
  DumpMayFail = TRUE
  IntMax = 1
  ForkMayFail = TRUE
  MaxOps = 3
  MaxCrashes = 2
  MaxRewrites = 2
  MaxTime = 1
CHECK_DEADLOCK FALSE
INVARIANT TypeOK
INVARIANT JournalMatchesMemory
INVARIANT AckedOnDisk
INVARIANT LoggedOnce
