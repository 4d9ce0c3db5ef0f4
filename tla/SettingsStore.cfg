SPECIFICATION FairSettings
CONSTANTS
  Nodes = {n1, n2}
  Writers = {w1, w2}
  NoNode = none
  MaxWrites = 2
  MaxFailures = 1
CHECK_DEADLOCK FALSE
INVARIANT WriterSeesItsWrite
PROPERTY EveryoneCatchesUp
