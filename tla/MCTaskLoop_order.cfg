SPECIFICATION Spec
CONSTANTS
  WorkTasks = {w1}
  CppTasks = {c1}
  Posts = {p1, p2}
  Locals = {l1}
  ImmediateObjects = {}
  TimeoutObjects = {}
  Works <- AllWorks
  Kind <- KindOf
  NoWork = NoWork
  Immediates = {}
  Capacity = 1
  MaxBegun = 5
  MaxDepth = 1
INVARIANTS NoTaskDropped
CHECK_DEADLOCK FALSE
