SPECIFICATION FairSpec
CONSTANTS
  q1 = q1
  q2 = q2
  Requests = {q1, q2}
  Sends <- MCSends
  Configs <- MCConfigs
INVARIANTS
  GaugeIsExact
  OneAnswer
  CountedAsAnswered
  BlameIsRight
  AnswerIsHonest
  ListIsOneMoment
PROPERTY RequestEnds
CHECK_DEADLOCK FALSE
