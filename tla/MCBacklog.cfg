SPECIFICATION FairSpec
CONSTANTS
  Messages <- MCMessages
  LastRound = 9
  MaxHeight = 3
  MaxRound = 9
INVARIANTS TypeOK OnlyFuture Kept
PROPERTY Replayed
CHECK_DEADLOCK FALSE
