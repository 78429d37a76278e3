SPECIFICATION Spec
CONSTANTS
  a1 = a1  b1 = b1  a2 = a2  x1 = x1
  Nil = Nil
  MaxStarts = 2
  Own <- MCOwn
  Foreign <- MCForeign
  number <- MCnumber
CHECK_DEADLOCK FALSE
INVARIANT CommitWatched
