SPECIFICATION Spec
CONSTANTS
  MaxCmds = 3
  MaxSockets = 1
  MaxRetries = 1
  Kinds = {"plain", "serial"}
  Options <- EachOption
  Database = FALSE
INVARIANTS TypeOK FirstRepliesMatch InFlightExact OrderKept NoStall
PROPERTIES SerialAlone Settles
CHECK_DEADLOCK FALSE
