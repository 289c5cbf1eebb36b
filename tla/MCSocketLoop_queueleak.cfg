SPECIFICATION Spec
CONSTANTS
  Contexts = {c1}
  Sockets = {s1, s2, s3}
  Null = Null
  Calls = {"create", "free", "listen", "close", "lowprio"}
  EventSets <- AllEvents
  LowPrioBudget = 1
  CallsPerCallback = 1
  MaxDepth = 12
  MaxTicks = 1
  MaxRepeat = 1
  MaxReady = 2
  MaxRef = 4
SYMMETRY Symmetry
INVARIANTS RefExact
