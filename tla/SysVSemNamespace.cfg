SPECIFICATION FairSpec
CONSTANTS
  k1 = k1
  Process = {p1, p2, p3}
  Key = {k1}
  Id = {i1, i2}
  IPC_PRIVATE = IPC_PRIVATE
  None = None
  Requests <- RequestsAll
  MaxFiles = 3
  MaxCalls = 3
  MaxRmid = 1
  MaxCrashes = 1
INVARIANTS KeyNamesCompleteSet IdAndKeyAgree OneSetPerKey
PROPERTIES RemovedKeyIsFreed CallsReturn
CHECK_DEADLOCK FALSE
