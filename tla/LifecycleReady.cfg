SPECIFICATION Spec
CONSTANTS
  r1 = r1
  r2 = r2
  k1 = k1
  Requests = {r1}
  Tasks = {k1}
  Configs <- MCApi
PROPERTY ReadyMeansAccepting
CHECK_DEADLOCK FALSE
