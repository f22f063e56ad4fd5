CONSTANTS
  Threads = {t1, t2}
  MaxRequests = 2
SPECIFICATION Spec
INVARIANTS TypeOK RotateAtMostOnce RevealedIsNotOlder ExpiryHolds
SYMMETRY Symmetry
CHECK_DEADLOCK FALSE
