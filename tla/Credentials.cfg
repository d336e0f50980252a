SPECIFICATION Spec
CONSTANTS
  NULL = NULL
  Credential = {c1, c2}
  Account = {a1}
  Rider = {r1}
  Unit = {u1, u2}
  DirectCredential = {c2}
  ChangingAccount = {a1}
  RevocationReason = {lost}
  MaxVersion = 3
  Currency = {"USD"}
  MaxUnits = 1
  Eligibility = {standard}
  Amount <- MCAmount
SYMMETRY Symmetry
INVARIANTS
  StoredCredentialLoads
  EventLogExact
PROPERTIES
  TerminalCredentialForever
CHECK_DEADLOCK FALSE
