CONSTANTS
  Threads = {t1, t2}
  MaxCalls = 1
  MaxErrors = 1
  MaxDrops = 1
SPECIFICATION Spec
INVARIANT RejectedBeforeAck
CHECK_DEADLOCK FALSE
