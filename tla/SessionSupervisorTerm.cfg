SPECIFICATION FairSpec
CONSTANTS
  Proc = {app, d1, d2, d3}
  Primary = app
  Stubborn = {d2}
  Supervisor = Supervisor
  InitProcess = InitProcess
  MaxAttempts = 2
  MaxSignals = 1
PROPERTY TermEndsSession
CHECK_DEADLOCK FALSE
