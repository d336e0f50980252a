SPECIFICATION Spec
CONSTANTS
  NULL = NULL
  b1 = b1 b2 = b2 t1 = t1 t2 = t2 r1 = r1
  env = env otherEnv = otherEnv
  Batch = {b1, b2}
  Txn = {t1, t2}
  Reader = {r1}
  ApiEnvironment = env
  CurrentVersion = 1
  MaxEntries = 2
  MaxRequestBytes = 4
  MaxEnvelopeBytes = 4
  ProtocolText <- MCProtocolText
  Headers <- MCHeaders
  Handler = {h1, h2}
  EquipmentKey = {k1}
  DisablementReason = {lost}
  RevocationReason = {}
  MaxVersion = 4
  Request <- Races
  Time = {1, 2}
  Result <- Review
  Registered = {r1}
  Session = {}
INVARIANTS
  AcknowledgedIsStored
  ConflictsAreReal
  NewestResolution
  NoWaitCycle
PROPERTIES
  ImplementsIngest
