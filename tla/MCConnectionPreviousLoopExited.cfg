CONSTANTS
  MaxSessions = 2
  MaxConnects = 1
  MaxErrors = 1
  Reconnection = TRUE
SPECIFICATION Spec
INVARIANT PreviousLoopExited
CHECK_DEADLOCK FALSE
