SPECIFICATION Spec
CONSTANTS
  Messages <- MCMessages
  LastRound = 10
  MaxHeight = 3
  MaxRound = 10
INVARIANT OnlyFuture
CHECK_DEADLOCK FALSE
