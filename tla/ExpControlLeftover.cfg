CONSTANTS
  Workers = {w1}
  NoName = NoName
  MaxExp = 2
  AckTimeoutRound = 1
  MaxWaitToleration = 1
  HealthMissToleration = 1
  BehindClocks = {}
  MaxFaults = 0
  ManagerMayDie = TRUE
SPECIFICATION Spec
INVARIANTS
  ServersStopped
\* Experiments end: then only the polling of the workers goes on.
CHECK_DEADLOCK FALSE
