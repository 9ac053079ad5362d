CONSTANTS
  Buys = {b1, b2}
  End <- Landed
  Null = Null
  BatchRows = 2
  Chunks = {2, 4}
  Recent = 2
  Backfill = 0
  Keep = 3
  MaxLines = 3
  MaxQueue = 1
  MaxTroubles = 1
  Bought = 4
  Held = {0, 2}
  Plan <- Plans
  MaxSteps = 20
  Fee = 1
  MaxTargets = 1
  Fees = {0, 1, 2}
SPECIFICATION Spec
SYMMETRY Symmetry
CHECK_DEADLOCK FALSE
INVARIANTS
  NothingSkipped
  PlannedAmountsOnly
  BuysPayTheirLanes
