SPECIFICATION Spec
CONSTANTS
  s1 = s1
  s2 = s2
  noAddress = noAddress
  nil = nil
  genesis = genesis
  genesisNode = genesisNode
  Validators <- MCValidators
  valList <- MCValList
  NoAddress <- noAddress
  Blocks <- MCBlocks
  Genesis <- genesis
  number <- MCNumber
  parentHash <- MCParentHash
  coinbase <- MCCoinbase
  GenesisNode <- genesisNode
  Nil <- nil
  MaxRound = 1
VIEW ReducedView
ACTION_CONSTRAINT QuorumAtOnce
INVARIANTS TypeOK InductiveInv
PROPERTIES LockHeld CertificatesAdvance ImplementsLedger
CHECK_DEADLOCK FALSE
