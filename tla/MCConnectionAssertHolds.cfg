CONSTANTS
  MaxSessions = 2
  MaxConnects = 1
  MaxErrors = 1
  Reconnection = TRUE
SPECIFICATION Spec
INVARIANT AssertHolds
CHECK_DEADLOCK FALSE
