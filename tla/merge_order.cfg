SPECIFICATION Spec
CONSTANTS
  go = go  fast = fast
  Key <- MCKey
  Label = {go, fast}
  Labels <- MCLabels
  StartDigits <- MCStartDigits
  EndDigits <- MCEndDigits
  MaxItems = 2
  MaxTables = 2
  Deepest = 2
INVARIANT KeysDescend
CHECK_DEADLOCK FALSE
