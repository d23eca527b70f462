\* Two runs of mint_position.py and one fault.
CONSTANTS
  PriceAt <- MCPriceAt
  SqrtAt <- MCSqrtAt
  Unit = 1000
  Spacing = 2
  RangePct = 10
  TriggerPct = 5
  Live <- MCLive
  Total = 20
  Native = 140
  Cost = 2
  Plain = 1
  MintSlip = 5
  SwapSlip = 2
  MaxMints = 2
  MaxMigrations = 0
  MaxPasses = 0
  MaxMoves = 0
  MaxFaults = 1
SPECIFICATION Spec
INVARIANT ResumesWithoutWrapping
CHECK_DEADLOCK FALSE
