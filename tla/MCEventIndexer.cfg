SPECIFICATION FairSpec
CONSTANTS
  Loops = {s1, s2}
  BatchSize = 4
  PageLimit = 3
  Origin = 1
  MaxLedger = 4
  LedgerOf <- MCLedgerOf
  None = None
INVARIANTS
  TypeOK
  CheckpointCovers
PROPERTIES
  IndexedWhileRunning
  StopsInTheEnd
