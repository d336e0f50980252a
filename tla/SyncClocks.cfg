SPECIFICATION Spec
CONSTANTS
  NULL = NULL
  t1 = t1 t2 = t2 t3 = t3 r1 = r1 env = env
  MaxSequence = 3
  MaxAttempts = 2
  MaxEntries = 2
  MaxRequestBytes = 2
  MaxEnvelopeBytes = 2
  ProtocolText <- MCProtocolText
  CurrentVersion = 1
  Reader = r1
  Environment = env
  Txn = {t1}
  Batch = {b1}
  Time = {1, 2}
  Limits = {1}
  Submission = {s1, s2}
  Identity <- MCIdentity
  JsonObject <- PlainObjects
  ForeignStatus <- Statuses
  EnvelopeBytes <- SmallTogether
INVARIANTS
  AcknowledgementIsCommitted
