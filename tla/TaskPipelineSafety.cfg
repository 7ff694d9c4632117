SPECIFICATION FairSpec
CONSTANTS
  t1 = t1
  w1 = w1
  w2 = w2
  s1 = s1
  NoTask = NoTask
  NoHandler = NoHandler
  Tasks = {t1}
  Workers = {w1, w2}
  Slots = {s1}
  MaxRetry = 1
  MaxDisruptions = 2
  Deployments <- MCDeployments
  OtherPayloads <- MCOtherPayloads
  Width = 16
  Threshold = 7
INVARIANTS
  AtMostOneRowPerKey
  DoneLeavesRow
  UnreadableNeverProcessed
  AttemptsAccounted
  SuccessLabelIsTrue
  ArchivedIsVisible
PROPERTIES
  EffectSpec
  QueuedIsSettled
CHECK_DEADLOCK FALSE
