\* One caller that retries a pass which failed between the decrease and the collect.
CONSTANTS
  Caller = {agent}
  NoCaller = NoCaller
  Price = {p1, p2}
  Principal = 2
  Dust = 1
  Timeouts = FALSE
  MaxCalls = 2
  MaxMoves = 0
  MaxFees = 0
  MaxAborts = 1
SPECIFICATION Spec
INVARIANTS FeesNotOverbooked
\* The system stops when every call the bound allows has returned.
CHECK_DEADLOCK FALSE
