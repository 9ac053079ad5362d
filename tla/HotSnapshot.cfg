CONSTANTS
  Wallet = {w1}
  MaxCommands = 2
  MaxFaults = 2
SPECIFICATION FairSpec
CHECK_DEADLOCK FALSE
INVARIANTS
  StopIsEffective
  ProfilesHaveKeys
  LastCommandWins
PROPERTY ExecutorFollows
