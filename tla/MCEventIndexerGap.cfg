SPECIFICATION Spec
CONSTANTS
  Loops = {s1}
  BatchSize = 2
  PageLimit = 3
  Origin = 1
  MaxLedger = 4
  LedgerOf <- MCLedgerOf
  None = None
INVARIANTS
  CheckpointCovers
