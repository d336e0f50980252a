SPECIFICATION FairSpec
CONSTANTS
  NULL = NULL
  t1 = t1 t2 = t2 t3 = t3 r1 = r1 env = env
  MaxSequence = 4
  MaxAttempts = 2
  MaxEntries = 1
  MaxRequestBytes = 2
  MaxEnvelopeBytes = 2
  ProtocolText <- MCProtocolText
  CurrentVersion = 1
  Reader = r1
  Environment = env
  Txn = {t1, t2, t3}
  Batch = {b1}
  Time = {1}
  Limits = {1, 2}
  Submission = {s1, s2}
  Identity <- AnyIdentity
  JsonObject <- PlainObjects
  ForeignStatus <- Statuses
  EnvelopeBytes <- SmallTogether
INVARIANTS
  InFlightBatchLoads
PROPERTIES
  SubmissionsEnd
