SPECIFICATION FairSpec
CONSTANTS
  Proc = {app, d1, d2, d3}
  Primary = app
  Stubborn = {d2}
  Supervisor = Supervisor
  InitProcess = InitProcess
  MaxAttempts = 2
  MaxSignals = 2
INVARIANTS ReturnsAfterEverybody
PROPERTIES TerminationEnds DrainEnds HandoffLeavesNoPrimary
CHECK_DEADLOCK FALSE
