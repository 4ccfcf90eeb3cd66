SPECIFICATION FairSpec
CONSTANTS
  p1 = p1 p2 = p2
  Process = {p1, p2}
  XId = {x1, x2}
  None = None
  NSockets = 2
  PidOf <- Pids
  MaxCounter = 2
  MaxSegments = 2
  Sessions <- AllSessions
INVARIANTS SameMemory RemovedGoes
PROPERTIES StaysMapped AttachReturns
CHECK_DEADLOCK FALSE
