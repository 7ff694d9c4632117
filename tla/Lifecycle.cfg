SPECIFICATION FairSpec
CONSTANTS
  r1 = r1
  r2 = r2
  k1 = k1
  Requests = {r1, r2}
  Tasks = {k1}
  Configs <- MCConfigs
INVARIANTS
  ReadyAfterAll
  CleanExit
  RegistryOutlivesWork
  NoTaskAbandoned
PROPERTIES
  StopsWhenTold
  FailureEndsProcess
CHECK_DEADLOCK FALSE
