CONSTANTS
  t1 = t1
  t2 = t2
  k1 = k1
  k2 = k2
  d1 = d1
  d2 = d2
  d3 = d3
  Chat = {c1}
  Repeat = {}
  Signal <- ThreeBuys
  Delivery = {d1, d2, d3}
  NoSignal = NoSignal
  Amount <- EvenAmount
  DailyCap = 3
  CacheSize = 1
  MaxDays = 2
  MaxLost = 1
  MaxStops = 1
  MaxRestarts = 1
SPECIFICATION SomeFairSpec
CHECK_DEADLOCK FALSE
INVARIANTS
  GuardsMatchRuns
  OneBuyPerCoin
  DailyCapHolds
PROPERTIES
  StopHoldsBack
  CoinFreedOrBought
