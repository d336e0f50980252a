SPECIFICATION BatchViewSpec
CONSTANTS
  Txn = {t1, t2}
  Batch = {b1, b2}
  Time = {0, 1}
  Limits = {1, 2}
  MaxSequence = 9
  MaxAttempts = 2
  NULL = NULL
SYMMETRY Symmetry
INVARIANTS
  InFlightIsReserved
  AttemptsAccounted
  ReadyIsUsable
PROPERTIES
  RequestStable
