SPECIFICATION ViewSpec
CONSTANTS
  Txn = {t1, t2}
  Batch = {b1, b2}
  Time = {0}
  Limits = {1, 2}
  MaxSequence = 9
  MaxAttempts = 2
  NULL = NULL
SYMMETRY Symmetry
INVARIANTS
  SequenceAllocation
  HighWaterMarkSound
  OneActiveBatch
  AppliedMeansAcknowledged
  HealthAddsUp
  StoredRowsLoad
PROPERTIES
  FinalStatesStay
  NoPendingWorkIsRest
