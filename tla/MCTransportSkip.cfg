SPECIFICATION Spec
CONSTANTS
  leader = leader  replica = replica
  proposal = proposal  vote = vote  ownVote = ownVote
  Everyone = Everyone
  Nodes <- MCNodes
  Messages <- MCMessages
  sender <- MCsender
  target <- MCtarget
  MaxSends <- MCMaxSends
  MaxStops = 1
CHECK_DEADLOCK FALSE
INVARIANT SkippedPeerHadIt
