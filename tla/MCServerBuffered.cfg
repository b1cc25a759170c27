SPECIFICATION FairSpec
CONSTANTS
  Layer <- LayerSet
  Key <- OneKey
  DecodedKey <- CutKey
  DecodedText <- SpaceForPlus
  LongValue <- LongTexts
  InBounds <- PosSet
  layer = layer
  k1 = k1
  pos = pos
  Absent = Absent
  NoPosition = NoPosition
  NoKey = NoKey
  EmptyValue = EmptyValue
  LongText = LongText
  PlusText = PlusText
  SpaceText = SpaceText
  FinePosition = FinePosition
  SixDecimals = SixDecimals
  NoOp = NoOp
  NoProcess = NoProcess
  Child = Child
  Torn = Torn
  Worker = {w1}
  Request <- ExpiringRequests
  Oversized <- NoRequests
  FsyncPeriod = 5
  JournalBufferSize = 1
  Capacity = 2
  PromptParent = TRUE
  WriteMayFail = TRUE
  DumpMayFail = FALSE
  IntMax = 1
  ForkMayFail = TRUE
  MaxOps = 3
  MaxCrashes = 1
  MaxRewrites = 1
  MaxTime = 2
CHECK_DEADLOCK FALSE
PROPERTY RecoveryIsPrefix
PROPERTY CleanStopKeepsAll
PROPERTY EventuallyOnDisk
PROPERTY RewriteEnds
