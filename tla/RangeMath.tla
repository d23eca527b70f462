---------------------------- MODULE RangeMath ----------------------------
(***************************************************************************)
(* The arithmetic that blockchain.py and risk.py do on prices, ticks,      *)
(* ranges and liquidity.  Prices of BNB are those of a table: token0 of    *)
(* the pool is USDT, so they fall as the tick rises.  Bounds that are not  *)
(* prices of a tick, and everything the code does in percent, are integers *)
(* in hundredths of the unit; floats are the reals they stand for.         *)
(***************************************************************************)
EXTENDS Integers

CONSTANTS
  PriceAt,    \* USDT per BNB at each tick of the table, whole units
  SqrtAt,     \* sqrt ratio at each tick, token1 per token0, in 1/Unit
  Unit,       \* fixed-point unit of the sqrt ratios
  Spacing,    \* tickSpacing of the pool
  RangePct,   \* [strategy].range_pct
  TriggerPct  \* [strategy].trigger_pct

Tick == DOMAIN PriceAt

ASSUME PriceAssumption ==
  /\ Tick \subseteq Int
  /\ \A t \in Tick : PriceAt[t] \in Nat \ {0}
  /\ \A s, t \in Tick : s < t => PriceAt[t] < PriceAt[s]
ASSUME SpacingAssumption == Spacing \in Nat \ {0}
ASSUME PercentAssumption == RangePct \in 1..99 /\ TriggerPct \in 0..49
ASSUME SqrtAssumption ==
  /\ Unit \in Nat \ {0}
  /\ \A t \in DOMAIN SqrtAt : SqrtAt[t] \in Nat \ {0}

-----------------------------------------------------------------------------
(* Ticks and ranges. *)

\* The tick nearest to a price, as a ratio: t's neighbours are further from it.
Between(s, t) == 10000 * (PriceAt[s] * PriceAt[t])
Nearest(price, t) ==
  /\ t - 1 \in Tick => price * price <= Between(t - 1, t)
  /\ t + 1 \in Tick => price * price > Between(t, t + 1)
TickOf(price) == CHOOSE t \in Tick : Nearest(price, t)

\* Mutation of SnapUp: rounded the same way as the lower tick.
SnapUpTowardsZero(t) == (t \div Spacing) * Spacing

\* snap_tick, downwards (floor) and upwards (ceil).
SnapDown(t) == (t \div Spacing) * Spacing
SnapUp(t) == -(((-t) \div Spacing) * Spacing)

\* The higher price is at the lower tick.  The code refuses a band that collapses.
PriceRangeToTicks(range) ==
  [lower |-> SnapDown(TickOf(range.upper)), upper |-> SnapUp(TickOf(range.lower))]
Collapsed(band) == band.lower >= band.upper

LowerPrice(band) == PriceAt[band.upper]
UpperPrice(band) == PriceAt[band.lower]
Width(band) == UpperPrice(band) - LowerPrice(band)

\* RangePct to either side of a price, in hundredths.
RebalanceRange(price) ==
  [lower |-> price * (100 - RangePct), upper |-> price * (100 + RangePct)]

FreshBand(t) == PriceRangeToTicks(RebalanceRange(PriceAt[t]))

\* No price is more than slip% above that of a tick at most a spacing further up.
Close(slip) ==
  \A s, t \in Tick : s < t /\ t - s <= Spacing => 100 * PriceAt[s] <= (100 + slip) * PriceAt[t]

-----------------------------------------------------------------------------
(* Where a price is inside a band, and whether that calls for a new one. *)

Abs(n) == IF n < 0 THEN -n ELSE n

\* 0 in the centre, 100 at either bound.
RangeUtilizationPct(price, band) ==
  (100 * Abs(2 * price - LowerPrice(band) - UpperPrice(band))) \div Width(band)

InRange(price, band) == LowerPrice(band) <= price /\ price <= UpperPrice(band)

RebalanceRequired(price, band) ==
  \/ ~InRange(price, band)
  \/ 100 * price >= 100 * UpperPrice(band) - Width(band) * TriggerPct
  \/ 100 * price <= 100 * LowerPrice(band) + Width(band) * TriggerPct

-----------------------------------------------------------------------------
(* Liquidity and the amounts it stands for, at sqrt ratios in 1/Unit. *)

Amount0(liquidity, from, to) == (liquidity * (to - from) * Unit) \div (from * to)
Amount1(liquidity, from, to) == (liquidity * (to - from)) \div Unit
Liquidity0(amount, from, to) == (amount * from * to) \div ((to - from) * Unit)
Liquidity1(amount, from, to) == (amount * Unit) \div (to - from)

\* The part of a band that is on the token1 side of the pool ends here.
Clamp(sqrt, low, high) == IF sqrt < low THEN low ELSE IF sqrt > high THEN high ELSE sqrt

LiquidityToAmounts(liquidity, sqrt, low, high) ==
  LET at == Clamp(sqrt, low, high)
  IN  [usdt |-> Amount0(liquidity, at, high), wbnb |-> Amount1(liquidity, low, at)]

\* The side that binds; a side whose part of the band is empty does not.
AmountsToLiquidity(amount, sqrt, low, high) ==
  LET at == Clamp(sqrt, low, high)
      side0 == Liquidity0(amount.usdt, at, high)
      side1 == Liquidity1(amount.wbnb, low, at)
  IN  IF at = low THEN side0
      ELSE IF at = high THEN side1
      ELSE IF side0 < side1 THEN side0 ELSE side1

\* risk.py: what may be lost between a reading and the transaction.
Floor(amount, slippage) == (amount * (100 - slippage)) \div 100
LiquidityAmountFloors(liquidity, sqrt, low, high, slippage) ==
  LET expected == LiquidityToAmounts(liquidity, sqrt, low, high)
  IN  [usdt |-> Floor(expected.usdt, slippage), wbnb |-> Floor(expected.wbnb, slippage)]
=============================================================================
