SPECIFICATION FairSpec
CONSTANTS
  Worker = {w1, w2}
  OpTypes = {"records_put", "records_get", "ping"}
  MaxOps = 1
  MaxStops = 1
  Capacity = 2
  NoOp = NoOp
  Main = Main
  Free = Free
PROPERTY StopReturns
CHECK_DEADLOCK FALSE
