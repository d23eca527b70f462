\* One session that outlives its daily window; a day is two units, the minimum hold one.
CONSTANTS
  PriceAt <- MCPriceAt
  SqrtAt <- MCSqrtAt
  Unit = 1
  Spacing = 2
  RangePct = 10
  TriggerPct = 5
  Live <- MCLive
  BuyBelow = 35
  SellAbove = 65
  MinEntry = 1
  MaxEntries = 2
  MinHold = 1
  ExitBuffer = 2
  Allocation = 4
  DailyCap = 3
  Term = 6
  Day = 2
  Rate = 10
  Grain = 3
  MaxFaults = 1
SPECIFICATION Spec
INVARIANTS TypeOK CleanCapKept CleanClosedIsFlat FreshBandSettles
PROPERTIES CleanHoldKept
CHECK_DEADLOCK FALSE
