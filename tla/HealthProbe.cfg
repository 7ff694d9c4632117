SPECIFICATION FairSpec
CONSTANTS
  p1 = p1
  Probes = {p1}
  Deadline = 2
  AttemptLimit = 3
  Horizon = 6
  MaxChanges = 2
INVARIANTS
  UnhealthyHasReason
  HealthyIsReported
  AnswersInTime
PROPERTY NoPingLeaks
CHECK_DEADLOCK FALSE
