SPECIFICATION Spec
CONSTANTS
  w1 = w1  w2 = w2  w3 = w3  w4 = w4  none = none  rd1 = rd1
  Request = {w1, w2, w3}
  NoRequest = none
  BatchLen <- MCBatchLen
  Tombstone <- MCTombstone
  Reader = {rd1}
  MaxMemTableSize = 1
  LevelLimit <- MCLevelLimit
  CompactEvery = 2
  PromptDrop = FALSE
INVARIANTS TypeOK SnapshotCoverage AckedVisible NoTombstoneInIndex BatchUndivided
PROPERTY SealedFrozen
