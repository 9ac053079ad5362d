CONSTANTS
  e1 = e1
  e2 = e2
  e3 = e3
  Bot = {b1, b2}
  Entry = {e1, e2, e3}
  Lamports <- MixedLamports
  Payout = {p1, p2, p3}
  NoPayout = NoPayout
  MinClaim = 2
  DailyCap = 4
  MaxFaults = 3
  MaxTimeouts = 1
SPECIFICATION Spec
SYMMETRY Symmetry
CHECK_DEADLOCK FALSE
INVARIANTS
  PaidEntriesWereTransferred
  ReportedPayoutsArePaid
  EntriesPaidOnce
  UnsettledPayoutStaysOpen
