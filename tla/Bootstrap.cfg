\* Two runs of each script and a pass of the agent; one fault, one move of the price.
CONSTANTS
  PriceAt <- MCPriceAt
  SqrtAt <- MCSqrtAt
  Unit = 1000
  Spacing = 2
  RangePct = 10
  TriggerPct = 5
  Live <- MCLive
  Total = 20
  Native = 140
  Cost = 2
  Plain = 1
  MintSlip = 5
  SwapSlip = 2
  MaxMints = 2
  MaxMigrations = 2
  MaxPasses = 1
  MaxMoves = 1
  MaxFaults = 1
SPECIFICATION Spec
INVARIANTS TypeOK WrapsWhatIsMissing AllowancesCovered SweptLast
CHECK_DEADLOCK FALSE
