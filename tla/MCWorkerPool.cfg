SPECIFICATION FairSpec
CONSTANTS
  Worker = {w1, w2}
  OpTypes = {"records_put", "records_get", "ping"}
  MaxOps = 3
  MaxStops = 2
  Capacity = 2
  NoOp = NoOp
  Main = Main
  Free = Free
INVARIANT TypeOK
INVARIANT OneOwner
INVARIANT NotStranded
INVARIANT QuiescentWhenJoined
INVARIANT WriterAlone
PROPERTY EveryOpReplied
CHECK_DEADLOCK FALSE
