SPECIFICATION FairSpec
CONSTANTS
  Contexts = {c1}
  Sockets = {s1, s2}
  Null = Null
  Calls = {"create", "free", "connect", "listen", "close", "pause", "write"}
  EventSets <- ReadWrite
  LowPrioBudget = 1
  CallsPerCallback = 1
  MaxDepth = 12
  MaxTicks = 1
  MaxRepeat = 1
  MaxReady = 1
  MaxRef = 4
INVARIANTS UnsentIsPolled
PROPERTIES ClosedIsFreed
