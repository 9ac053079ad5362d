CONSTANTS
  Request = {q1, q2, q3, q4, q5}
  Copy = {q1, q2}
  Unarmed = {q5}
  Worker = {w1, w2}
  NoRequest = NoRequest
  Capacity = 2
  Buy = {r1, o1}
  Rust = {r1}
  NoBuy = NoBuy
  Position <- OnePosition
  Schedule = {s1, s2}
  Steps = 2
  CacheSize = 1
  MaxFaults = 1
  MaxStops = 1
  MaxRestarts = 1
  x1 = x1
  x2 = x2
  NoStream = NoStream
  MaxChanges = 2
  MaxLosses = 2
SPECIFICATION FairSpecOfAll
CHECK_DEADLOCK FALSE
INVARIANTS
  NoLostWakeup
  OneSchedulePerPosition
  SoldOnlyAfterLanding
PROPERTIES
  QueuedIsHandled
  StopHoldsSellsBack
  SchedulesEnd
  FeedsReturn
