SPECIFICATION FairSpec
CONSTANTS
  WorkTasks = {w1}
  CppTasks = {c1}
  Posts = {p1}
  Locals = {l1}
  ImmediateObjects = {i1, i2}
  TimeoutObjects = {t1, t2}
  Works <- AllWorks
  Kind <- KindOf
  NoWork = NoWork
  Immediates = {}
  Capacity = 1
  MaxBegun = 3
  MaxDepth = 2
INVARIANTS TypeOK NoLostWakeup CountsExact ExitsDone
PROPERTIES Exits
CHECK_DEADLOCK FALSE
