CONSTANTS
  Watcher = {w1}
  Buy = {b1}
  MinBuys = 1
  None = None
  Timer = Timer
  MaxFailures = 1
  MaxRestarts = 0
SPECIFICATION Spec
CHECK_DEADLOCK FALSE
INVARIANT FallbackArmed
