\* One caller at a time, as when a single monitor runs and nobody uses the command line.
CONSTANTS
  Caller = {agent}
  NoCaller = NoCaller
  Price = {p1, p2}
  Principal = 2
  Dust = 1
  Timeouts = TRUE
  MaxCalls = 3
  MaxMoves = 1
  MaxFees = 0
  MaxAborts = 1
SPECIFICATION FairSpec
INVARIANTS FundedIsManagedOrUnrecorded HistoryNeverGoesBack
PROPERTIES NeverAbandonFunded LockReleased
\* The system stops when every call the bound allows has returned.
CHECK_DEADLOCK FALSE
