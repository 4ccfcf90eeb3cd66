SPECIFICATION Spec
CONSTANTS
  k1 = k1 f1 = f1 a1 = a1
  Client = {c1, c2, c3}
  None = None
  SyncId = {k1, f1, a1}
  Sessions <- SessionsAll
  MaxRequests = 5
SYMMETRY Symmetry
INVARIANTS NothingStranded SequenceNumbersExact GrabHolderConnected AlarmsSettled ParkedOnlyWhileUnsatisfied ParkedOnce
PROPERTIES EventEnds
CHECK_DEADLOCK FALSE
