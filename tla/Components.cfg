SPECIFICATION ComponentsSpec
CONSTANTS
  NULL = NULL
  MaxVersion = 4
  Reader = {reader1}
  EquipmentKey = {k1, k2}
  DisablementReason = {lost, administrative}
  RevocationReason = {exposed, incident}
  Session = {s1, s2}
  Currency = {"USD", "CAD"}
  MaxUnits = 3
  Account = {a1, a2}
  Rider = {r1}
  Eligibility = {standard}
  Amount <- MCAmount
  AccountSession = {s1, s2}
  Transaction = {t1, t2}
  ApprovalReason = {"standard_fare", "offline_provisional"}
  RejectionReason = {"stale_policy"}
  Charge <- MCCharge
  Handler = {h1, h2}
  Outcome = {"acknowledged"}
  Category = {"network_timeout"}
  MaxEntries = 1
  Monitor = {m1}
  MaxRequests = 2
SYMMETRY MCSymmetry
INVARIANTS
  QuietIsConsistent
  SnapshotsAreCurrent
PROPERTIES
  TerminalForever
  BalanceConserved
  DecisionFinal
