SPECIFICATION AlgorithmsSpec
CONSTANTS
  NULL = NULL
  Currency = {"USD", "CAD"}
  MaxUnits = 8
  FullFare = 3
  Eligibility = {"standard", "youth"}
  Zone = {1, 2, 3}
  RulesPolicy <- MCRulesPolicy
  Input <- MCInput
  Context <- MCContext
  Policy <- MCPolicy
  Tap <- MCTap
  Offline <- MCOffline
  MaxSequence = 4
  MaxActions = 3
  Funds = 7
  MaxEntries = 2
  MaxRequestBytes = 100
  MaxEnvelopeBytes = 100
  ProtocolText = {}
  CurrentVersion = 1
  Request <- MCRequest
  Acknowledgement <- MCAcknowledgement
INVARIANTS
  ChargeIsReference
  EvidenceAddsUp
  OfflineIsStricter
  ReportFaithful
  TextExact
PROPERTIES
  CapsHold
CHECK_DEADLOCK FALSE
