CONSTANTS
  r1 = r1
  r2 = r2
  walletA = walletA
  walletB = walletB
  Row = {r1, r2}
  Legacy = {}
  Collector = {c1, c2}
  Token = {k1, k2, k3}
  NoToken = NoToken
  Terms <- SameTerms
  NoTx = NoTx
  NoJob = NoJob
  MaxAttempts = 1
  MaxSlot = 1
  MaxFaults = 0
SPECIFICATION Spec
SYMMETRY Symmetry
CHECK_DEADLOCK FALSE
INVARIANTS
  SeparateTransferPerRow
