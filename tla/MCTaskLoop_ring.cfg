SPECIFICATION Spec
CONSTANTS
  WorkTasks = {}
  CppTasks = {}
  Posts = {p1, p2, p3, p4, p5}
  Locals = {}
  ImmediateObjects = {}
  TimeoutObjects = {}
  Works <- AllWorks
  Kind <- KindOf
  NoWork = NoWork
  Immediates = {}
  Capacity = 4
  MaxBegun = 5
  MaxDepth = 2
INVARIANTS NoTaskDropped
CHECK_DEADLOCK FALSE
