CONSTANTS
  Watcher = {w1, w2}
  Buy = {b1}
  MinBuys = 1
  None = None
  Timer = Timer
  MaxFailures = 1
  MaxRestarts = 1
SPECIFICATION FairSpec
CHECK_DEADLOCK FALSE
INVARIANTS
  SoldOnce
  SoldNeverResumes
  ChangesAreSaved
PROPERTY WatchersEnd
