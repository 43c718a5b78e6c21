SPECIFICATION Spec
CONSTANTS
  File <- Mixed
  Nil = Nil
  Worker = {w1, w2}
  BatchSize = 2
  ResultsCap = 9
  JobsFactor = 1
INVARIANTS JobsConserved CreatedOnce
PROPERTIES Terminates
CHECK_DEADLOCK FALSE
