SPECIFICATION Spec
CONSTANTS
  nil = nil
  Nil = nil
  Char <- MCChar
  MaxLen = 4
INVARIANTS TokensSpell TokensWhole
CHECK_DEADLOCK FALSE
