SPECIFICATION Spec
CONSTANTS
  W = 3
  C = 1
  Name = {x, y}
  Operand = {y}
  None = None
  Ranges <- MCRanges
  Optimized = {x}
  Parallel = {1, 2}
  MaxWidth = 4
INVARIANTS ComparisonsExact QueriesAgree
PROPERTY ColumnsKept
CHECK_DEADLOCK FALSE
