SPECIFICATION InOrderSpec
CONSTANTS
  none = none
  Key <- MCKey
  Tombstone <- MCTombstone
  Filters <- MCNoFilter
  ReadTs = 3
  Indexes = 2
  None = none
INVARIANT EventsOnce
CHECK_DEADLOCK FALSE
