SPECIFICATION Spec
CONSTANTS
  go = go  fast = fast
  Key <- MCKey
  Label = {go, fast}
  Labels <- MCLabels
  StartDigits <- MCStartDigits
  EndDigits <- MCEndDigits
  MaxItems = 2
  MaxTables = 3
  Deepest = 2
INVARIANTS TypeOK PostingsFollowRows TimesReadBack KeyMapExact RowsDealtOut
CHECK_DEADLOCK FALSE
