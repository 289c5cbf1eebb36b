SPECIFICATION Spec
CONSTANTS
  MaxCmds = 2
  MaxSockets = 1
  MaxRetries = 1
  Kinds = {"plain"}
  Options <- Defaults
  Database = FALSE
INVARIANTS RepliesMatch
CHECK_DEADLOCK FALSE
