SPECIFICATION Spec
CONSTANTS
  Txs = {t, u}
  MaxBlocks = 3
  MaxRoles = 2
  Room = 1
  HeadRoom = 1
  InvalidRoom = 1
INVARIANTS ParentIsCurrent
CHECK_DEADLOCK FALSE
