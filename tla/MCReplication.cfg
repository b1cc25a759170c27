SPECIFICATION FairSpec
CONSTANTS
  Slaves = {s1}
  FsyncPeriod = 5
  MaxLag = 1
  MaxQueued = 1
  SplitRecords = {2}
  RefusedRecords = {4}
  NbFds = 2
  MaxRecords = 4
  MaxConns = 3
  MaxFaults = 1
INVARIANTS TypeOK SlaveFollowsMaster MemoryFollowsJournal SlavesAreCounted
PROPERTIES CatchesUp
CHECK_DEADLOCK FALSE
