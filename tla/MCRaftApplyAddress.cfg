SPECIFICATION Spec
CONSTANTS
  Ids = {i, j}
  SnapshotPeriod = 2
  MaxLog = 4
  MaxCrashes = 2
  i = i
  j = j
CHECK_DEADLOCK FALSE
INVARIANTS
  ConfStateHasAddresses
