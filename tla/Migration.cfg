SPECIFICATION Spec
CONSTANTS
  newUp = newUp
  oldUp = oldUp
  newDown = newDown
  oldDown = oldDown
  NoOne = NoOne
  Instances = {newUp, oldUp, newDown, oldDown}
  Cmd <- MCCmd
  Files <- MCFiles
  MaxTries = 2
INVARIANTS
  TableIsTrue
  NoGaps
  UpMeansMigrated
  LockIsExact
CHECK_DEADLOCK FALSE
