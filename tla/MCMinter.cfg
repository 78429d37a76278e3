SPECIFICATION MCSpec
CONSTANTS
  Txs = {t}
  MaxBlocks = 3
  MaxRoles = 1
  Room = 1
  HeadRoom = 1
  InvalidRoom = 1
INVARIANT TxsTracked
PROPERTIES TxsAreMinted ImplementsRaftLoop RaftLoopFree
CHECK_DEADLOCK FALSE
