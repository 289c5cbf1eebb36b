SPECIFICATION Spec
CONSTANTS
  Contexts = {c1}
  Sockets = {s1, s2, s3}
  Null = Null
  Calls = {"create", "free", "connect", "close", "lowprio"}
  EventSets <- ReadWrite
  LowPrioBudget = 1
  CallsPerCallback = 1
  MaxDepth = 12
  MaxTicks = 1
  MaxRepeat = 1
  MaxReady = 3
  MaxRef = 5
SYMMETRY Symmetry
INVARIANTS TypeOK QueueExact NoEarlyFree PendingOpen
