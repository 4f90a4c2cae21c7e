CONSTANTS
  Workers = {w1}
  NoName = NoName
  MaxExp = 2
  AckTimeoutRound = 0
  MaxWaitToleration = 0
  HealthMissToleration = 1
  BehindClocks = {}
  MaxFaults = 2
  ManagerMayDie = TRUE
SPECIFICATION FairSpec
INVARIANTS
  ServersStarted
  NoSecondRun
  ConfigUnique
PROPERTIES
  SilenceNoticed
\* Experiments end: then only the polling of the workers goes on.
CHECK_DEADLOCK FALSE
