CONSTANTS
  r1 = r1
  r2 = r2
  walletA = walletA
  walletB = walletB
  Row = {r1, r2}
  Legacy = {r2}
  Collector = {c1}
  Token = {k1, k2, k3, k4}
  NoToken = NoToken
  Terms <- OwnTerms
  NoTx = NoTx
  NoJob = NoJob
  MaxAttempts = 2
  MaxSlot = 1
  MaxFaults = 1
SPECIFICATION FairSpec
CHECK_DEADLOCK FALSE
PROPERTIES
  PendingRowsAdvance
  DecidedRowsSettle
