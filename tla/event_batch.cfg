SPECIFICATION Spec
CONSTANTS
  x1 = x1  x2 = x2  x3 = x3  x4 = x4
  Id = {2, 3}
  Time = {2, 3, 4}
  Title = {1, 2, 3}
  None = None
  Keep = Keep
  Call = {x1, x2, x3, x4}
  Kind <- MCBatchKind
  Ids <- MCBatchIds
  New <- MCBatchNew
  Mask <- MCBatchMask
  Stored <- MCBatchStored
  Unit = 2
  MaxCrashes = 1
INVARIANTS TablesAgree LastChangeIndexed OldKeyBuried
PROPERTY AtomicEvents
CHECK_DEADLOCK FALSE
