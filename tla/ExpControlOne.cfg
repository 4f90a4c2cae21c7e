CONSTANTS
  Workers = {w1, w2}
  NoName = NoName
  MaxExp = 1
  AckTimeoutRound = 2
  MaxWaitToleration = 1
  HealthMissToleration = 1
  BehindClocks = {w1}
  MaxFaults = 1
  ManagerMayDie = TRUE
SPECIFICATION FairSpec
INVARIANTS
  TypeOK
  NamedHeartbeats
  ServersStopped
  NormalEnd
  ManagerAssertions
PROPERTIES
  LifecycleSpec
  StartEnds
  InitWaitEnds
  ServersStop
  DeathNoticed
\* Experiments end: then only the polling of the workers goes on.
CHECK_DEADLOCK FALSE
