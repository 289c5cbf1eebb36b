SPECIFICATION FairSpec
CONSTANTS
  Nodes = {n1, n2, n3, n4}
  Threads = {t1, t2}
  Front = Front
  Null = Null
  MaxBatch = 2
INVARIANTS ListWhole LinksLiveItem BatchChained CountCovers
PROPERTIES ImplementsChannel Delivered
CHECK_DEADLOCK FALSE
