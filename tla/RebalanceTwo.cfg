\* Two callers: the monitor thread and the operator (or POST /execute).
CONSTANTS
  Caller = {monitor, operator}
  NoCaller = NoCaller
  Price = {p1, p2}
  Principal = 2
  Dust = 1
  Timeouts = TRUE
  MaxCalls = 3
  MaxMoves = 0
  MaxFees = 1
  MaxAborts = 1
SYMMETRY Symmetry
SPECIFICATION Spec
INVARIANTS TypeOK OneMover NoLostUpdate CleanPassLeavesFunded CleanFeesNotOverbooked HistoryAccountsForCount
PROPERTIES EmptiedBeforeRepointed ImplementsSingleFlight
\* The system stops when every call the bound allows has returned.
CHECK_DEADLOCK FALSE
