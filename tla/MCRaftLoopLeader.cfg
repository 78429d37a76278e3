SPECIFICATION FairSpec
CONSTANTS
  HeadRoom = 10
  InvalidRoom = 1
  Room = 12
PROPERTY RaftLoopNeverWaits
