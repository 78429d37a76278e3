SPECIFICATION Spec
CONSTANTS
  s1 = s1
  s2 = s2
  s3 = s3
  s4 = s4
  noAddress = noAddress
  nil = nil
  genesis = genesis
  genesisNode = genesisNode
  Validators <- MCValidators
  valList <- MCValList
  NoAddress <- noAddress
  Blocks <- MCBlocks
  Genesis <- genesis
  number <- MCNumber
  parentHash <- MCParentHash
  coinbase <- MCCoinbase
  GenesisNode <- genesisNode
  Nil <- nil
  MaxRound = 1
VIEW ReducedView
ACTION_CONSTRAINT QuorumAtOnce
CONSTRAINT OneHeight
INVARIANTS Agreement NoConflictingQC ProposalsAreSafe
CHECK_DEADLOCK FALSE
