SPECIFICATION HSpec
CONSTANTS
  i1 = i1
  Ips = {i1}
  Burst = 2
  Sub = 1
  Late = 0
  MaxTime = 9
INVARIANTS
  MapIsBounded
PROPERTIES
  AnswersAreExact
  BucketSpec
  StopIsAnswered
CHECK_DEADLOCK FALSE
