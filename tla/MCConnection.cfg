CONSTANTS
  MaxSessions = 2
  MaxConnects = 2
  MaxErrors = 1
  Reconnection = TRUE
SPECIFICATION Spec
INVARIANTS TypeOK WaitMeansClosed HeartbeatWhileUp
PROPERTIES  ConnectEnds ListenEnds HeartbeatsEnd ImplementsLifecycle
CHECK_DEADLOCK FALSE
