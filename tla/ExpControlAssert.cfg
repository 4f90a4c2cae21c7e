CONSTANTS
  Workers = {w1, w2}
  NoName = NoName
  MaxExp = 1
  AckTimeoutRound = 1
  MaxWaitToleration = 1
  HealthMissToleration = 1
  BehindClocks = {}
  MaxFaults = 0
  ManagerMayDie = TRUE
SPECIFICATION Spec
INVARIANTS
  InitEndsRunning
\* Experiments end: then only the polling of the workers goes on.
CHECK_DEADLOCK FALSE
