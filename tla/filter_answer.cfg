SPECIFICATION Spec
CONSTANTS
  nil = nil
  Nil = nil
  Items <- MCItems
  MaxDepth = 4
  ClientTerms <- MCTerms
  Ranges <- MCRanges
  ComposeMax = 3
  EditMax = 2
  Typo <- MCTypo
INVARIANTS ParsesTree TokensKept SameAnswer
PROPERTY IndexUnchanged
CHECK_DEADLOCK FALSE
