CONSTANTS
  Parts = {"dialogue"}
  k1 = k1
  t1 = t1
  t2 = t2
  Buyer = {b1, b2, b3}
  Request <- TwoOrders
  NoRequest = NoRequest
  NoTx = NoTx
  MaxFaults = 1
  MaxRestarts = 1
  Wallet = {w1, w2}
  Key = {d1}
  StateKey = {d1}
  Setting = {e0, e1}
  Default = e0
  Nothing = Nothing
  TradingState = TradingState
  MaxCalls = 3
  MaxFailedCalls = 1
  Address = {1, 2}
  MaxKeys = 2
  Amount = {1, 2}
  Cap = 1
  Inherited = Inherited
  MaxUpdates = 5
  x1 = x1
  Executor = {x1, x2, x3}
  Refresher = {f1, f2}
  Spend <- SpendOfEach
  Funds = 3
  Reconcile = 2
  Stale = 2
  MaxTime = 4
SPECIFICATION SpecOfAll
CHECK_DEADLOCK FALSE
INVARIANT
  RemovesWhatItNamed
