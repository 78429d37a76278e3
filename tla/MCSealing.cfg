SPECIFICATION Spec
CONSTANTS
  a1 = a1  b1 = b1  a2 = a2  x1 = x1
  Nil = Nil
  MaxStarts = 2
  Own <- MCOwn
  Foreign <- MCForeign
  number <- MCnumber
INVARIANTS TypeOK DecidedIsInserted OnlyDecidedSealed
PROPERTIES EventLoopFree LatestIsRequested
CHECK_DEADLOCK FALSE
