SPECIFICATION FairSpec
CONSTANTS
  t1 = t1 t2 = t2 t3 = t3 p1 = p1 p2 = p2 p3 = p3
  Thread = {t1, t2, t3}
  Process = {p1, p2, p3}
  ProcOf <- OneThreadEach
  NoProcess = NoProcess
  NSems = 2
  Calls <- CallsRefine
  MaxSet = 2
  MaxCalls = 3
  MaxCrashes = 1
  MaxSequence = 8
INVARIANT LockNeverOrphaned
PROPERTIES ImplementsAbstractSem LockEventuallyGranted
CHECK_DEADLOCK FALSE
