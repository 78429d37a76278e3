SPECIFICATION MCSpec
CONSTANTS
  a1 = a1  b1 = b1  a2 = a2  a3 = a3
  Nil = Nil
  Blocks <- MCBlocks
  number <- MCnumber
  MaxHeight = 3
  MaxRound = 1
  MaxStarts = 3
INVARIANTS TypeOK RequestKept StartedIsServed
PROPERTIES OneProposal LeaderProposes StopEndsLoops
CHECK_DEADLOCK FALSE
