CONSTANTS
  r1 = r1
  r2 = r2
  walletA = walletA
  walletB = walletB
  Row = {r1}
  Legacy = {}
  Collector = {c1, c2}
  Token = {k1, k2, k3, k4}
  NoToken = NoToken
  Terms <- SameTerms
  NoTx = NoTx
  NoJob = NoJob
  MaxAttempts = 2
  MaxSlot = 1
  MaxFaults = 3
SPECIFICATION Spec
SYMMETRY Symmetry
CHECK_DEADLOCK FALSE
INVARIANTS
  PersistedBeforeBroadcast
  ClaimableOnlyAfterConfirmation
  LedgerAgreesWithCollection
PROPERTIES
  SettledRowsStaySettled
  PromiseKept
