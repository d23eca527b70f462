\* Two callers, and nothing fails.
CONSTANTS
  Caller = {monitor, operator}
  NoCaller = NoCaller
  Price = {p1, p2}
  Principal = 2
  Dust = 1
  Timeouts = FALSE
  MaxCalls = 2
  MaxMoves = 0
  MaxFees = 0
  MaxAborts = 0
SPECIFICATION Spec
PROPERTIES NeverAbandonFunded
\* The system stops when every call the bound allows has returned.
CHECK_DEADLOCK FALSE
