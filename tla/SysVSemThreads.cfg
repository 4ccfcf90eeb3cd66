SPECIFICATION Spec
CONSTANTS
  t1 = t1 t2 = t2 t3 = t3 p1 = p1 p2 = p2 p3 = p3
  Thread = {t1, t2}
  Process = {p1}
  ProcOf <- TwoThreadsOneProcess
  NoProcess = NoProcess
  NSems = 1
  Calls <- CallsThreads
  MaxSet = 2
  MaxCalls = 3
  MaxCrashes = 0
  MaxSequence = 8
INVARIANT OperationSetsSerialized
CHECK_DEADLOCK FALSE
