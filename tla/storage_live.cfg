SPECIFICATION LiveSpec
CONSTANTS
  w1 = w1  w2 = w2  w3 = w3  w4 = w4  none = none  rd1 = rd1
  Request = {w1, w2, w4}
  NoRequest = none
  BatchLen <- MCLiveLen
  Tombstone <- MCNoTombstone
  Reader = {}
  MaxMemTableSize = 1
  LevelLimit <- MCLevelLimit
  CompactEvery = 2
  PromptDrop = TRUE
INVARIANTS LevelsUnderLimit LevelsAgeOrdered MergedOnce
PROPERTIES PendingDrains WritesAnswered CloseSettles
CHECK_DEADLOCK FALSE
