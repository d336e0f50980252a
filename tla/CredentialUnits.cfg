SPECIFICATION FairSpec
CONSTANTS
  NULL = NULL
  Credential = {c1, c2}
  Account = {a1, a2}
  Rider = {r1, r2}
  Unit = {u1, u2}
  DirectCredential = {}
  ChangingAccount = {}
  RevocationReason = {lost}
  MaxVersion = 3
  Currency = {"USD"}
  MaxUnits = 1
  Eligibility = {standard}
  Amount <- MCAmount
INVARIANTS
  SuccessorRecorded
PROPERTIES
  UnitsEnd
CHECK_DEADLOCK FALSE
