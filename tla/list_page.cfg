SPECIFICATION ListSpec
CONSTANTS
  none = none
  Key <- MCKey
  Tombstone <- MCTombstone
  Filters <- MCFilters
  ReadTs = 3
  Indexes = 2
  None = none
  Unit = 2
  Sizes <- MCSizes
  MaxSize = 7
INVARIANTS EmittedDescend OnePerSource NewestEmitted
INVARIANTS ListedCurrent CurrentListed ListedFromSelected PageAndToken
CHECK_DEADLOCK FALSE
