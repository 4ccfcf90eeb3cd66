SPECIFICATION FairSpec
CONSTANTS
  t1 = t1 t2 = t2 t3 = t3 p1 = p1 p2 = p2 p3 = p3
  Thread = {t1, t2, t3}
  Process = {p1, p2, p3}
  ProcOf <- OneThreadEach
  NoProcess = NoProcess
  NSems = 2
  Calls <- CallsAll
  MaxSet = 2
  MaxCalls = 3
  MaxCrashes = 0
  MaxSequence = 8
INVARIANTS TypeOK OperationSetsSerialized NoLostWakeup WaitCountsExact
PROPERTY SleepsOnlyWhileBlocked
CHECK_DEADLOCK FALSE
