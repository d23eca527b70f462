------------------------- MODULE RangeMathProofs -------------------------
(***************************************************************************)
(* What the snapping of ticks and the rounding of liquidity keep, for all  *)
(* price tables, ranges and amounts.                                       *)
(***************************************************************************)
EXTENDS RangeMath, TLAPS

-----------------------------------------------------------------------------
(* Integer division and products. *)

\* The quotient is the last multiple of the divisor that does not exceed the dividend.
LEMMA DivBounds ==
  ASSUME NEW a \in Int, NEW d \in Nat \ {0}
  PROVE  /\ a \div d \in Int
         /\ (a \div d) * d <= a /\ a < (a \div d) * d + d
OBVIOUS

\* ... and is not negative when the dividend is not.
LEMMA DivNat ==
  ASSUME NEW a \in Nat, NEW d \in Nat \ {0}
  PROVE  a \div d \in Nat
OBVIOUS

\* A factor that is not zero can be cancelled.
LEMMA MulCancel ==
  ASSUME NEW a \in Int, NEW b \in Int, NEW c \in Nat \ {0}, a * c <= b * c
  PROVE  a <= b
OBVIOUS

\* A product of two naturals is one, and not zero unless a factor is.
LEMMA MulNat ==
  ASSUME NEW a \in Nat, NEW b \in Nat
  PROVE  /\ a * b \in Nat
         /\ a # 0 /\ b # 0 => a * b # 0
OBVIOUS

\* Products are monotonic in both factors.
LEMMA MulMono ==
  ASSUME NEW a \in Nat, NEW b \in Nat, NEW c \in Nat, NEW d \in Nat, a <= c, b <= d
  PROVE  a * b <= c * d
<1>1. a * b <= c * b
  OBVIOUS
<1>2. c * b <= c * d
  OBVIOUS
<1> QED BY <1>1, <1>2, MulNat

\* ... strictly so in one that is larger when the other is not zero.
LEMMA MulStrict ==
  ASSUME NEW a \in Nat, NEW b \in Nat, NEW c \in Nat \ {0}, a < b
  PROVE  a * c < b * c
<1>1. (a + 1) * c <= b * c
  BY MulMono
<1>2. (a + 1) * c = a * c + c /\ a * c \in Nat /\ b * c \in Nat
  BY MulNat
<1> QED BY <1>1, <1>2

\* A square that is not above another has a root that is not.
LEMMA SquareCancel ==
  ASSUME NEW a \in Nat, NEW b \in Nat, a * a <= b * b
  PROVE  a <= b
<1> SUFFICES ASSUME b + 1 <= a PROVE FALSE
  OBVIOUS
<1>1. (b + 1) * (b + 1) <= a * a
  BY MulMono
<1>2. (b + 1) * (b + 1) = b * b + 2 * b + 1 /\ b * b \in Nat /\ a * a \in Nat
  BY MulNat
<1> QED BY <1>1, <1>2

-----------------------------------------------------------------------------
(* Ticks. *)

\* snap_tick downwards reaches the last multiple of the spacing that is not above the tick.
LEMMA SnapDownBounds ==
  ASSUME NEW t \in Int
  PROVE  /\ SnapDown(t) \in Int /\ SnapDown(t) <= t /\ t < SnapDown(t) + Spacing
         /\ \E k \in Int : SnapDown(t) = k * Spacing
<1> DEFINE q == t \div Spacing
<1>1. q \in Int /\ q * Spacing <= t /\ t < q * Spacing + Spacing
  BY SpacingAssumption, DivBounds
<1>2. SnapDown(t) = q * Spacing
  BY DEF SnapDown
<1> HIDE DEF q
<1> QED BY <1>1, <1>2, SpacingAssumption

\* snap_tick upwards reaches the first multiple of the spacing that is not below the tick.
LEMMA SnapUpBounds ==
  ASSUME NEW t \in Int
  PROVE  /\ SnapUp(t) \in Int /\ t <= SnapUp(t) /\ SnapUp(t) - Spacing < t
         /\ \E k \in Int : SnapUp(t) = k * Spacing
<1> DEFINE q == (-t) \div Spacing
<1>1. /\ q \in Int
      /\ q * Spacing <= -t /\ -t < q * Spacing + Spacing
  BY SpacingAssumption, DivBounds
<1>2. SnapUp(t) = -(q * Spacing) /\ -(q * Spacing) = (-q) * Spacing /\ -q \in Int
  BY <1>1, SpacingAssumption DEF SnapUp
<1> HIDE DEF q
<1> QED BY <1>1, <1>2, SpacingAssumption

\* The range that the code snaps is never lost: the band holds the ticks of both bounds, its
\* ends are less than a spacing away from them, and it collapses only if the bounds share
\* a tick that is a multiple of the spacing.
THEOREM BandCoversRange ==
  ASSUME NEW range,
         TickOf(range.upper) \in Int, TickOf(range.lower) \in Int,
         TickOf(range.upper) <= TickOf(range.lower)
  PROVE  LET band == PriceRangeToTicks(range)
         IN  /\ band.lower <= TickOf(range.upper) /\ TickOf(range.upper) < band.lower + Spacing
             /\ TickOf(range.lower) <= band.upper /\ band.upper - Spacing < TickOf(range.lower)
             /\ Collapsed(band) => /\ TickOf(range.upper) = TickOf(range.lower)
                                   /\ band.lower = band.upper
<1> DEFINE from == TickOf(range.upper)
           to == TickOf(range.lower)
<1>1. /\ SnapDown(from) \in Int /\ SnapDown(from) <= from /\ from < SnapDown(from) + Spacing
      /\ SnapUp(to) \in Int /\ to <= SnapUp(to) /\ SnapUp(to) - Spacing < to
  BY SnapDownBounds, SnapUpBounds
<1>2. /\ PriceRangeToTicks(range).lower = SnapDown(from)
      /\ PriceRangeToTicks(range).upper = SnapUp(to)
  BY DEF PriceRangeToTicks
<1>3. Collapsed(PriceRangeToTicks(range)) <=> SnapDown(from) >= SnapUp(to)
  BY <1>2 DEF Collapsed
<1> HIDE DEF from, to
<1> QED BY <1>1, <1>2, <1>3, SpacingAssumption DEF from, to

\* The tick of a higher price is the lower one.
LEMMA NearestOrder ==
  ASSUME NEW low \in Nat, NEW high \in Nat, low <= high,
         NEW s \in Tick, NEW t \in Tick, Nearest(high, s), Nearest(low, t),
         \A a, b \in Tick : a..b \subseteq Tick
  PROVE  s <= t
<1> SUFFICES ASSUME t < s PROVE FALSE
  BY PriceAssumption
<1>1. s \in Int /\ t \in Int /\ t + 1 \in t..s /\ s - 1 \in t..s
  BY PriceAssumption
<1>2. t + 1 \in Tick /\ s - 1 \in Tick
  BY <1>1
<1>3. low * low > Between(t, t + 1) /\ high * high <= Between(s - 1, s)
  BY <1>1, <1>2 DEF Nearest
<1>4. /\ PriceAt[t] \in Nat /\ PriceAt[t + 1] \in Nat /\ PriceAt[s - 1] \in Nat /\ PriceAt[s] \in Nat
      /\ PriceAt[s - 1] <= PriceAt[t] /\ PriceAt[s] <= PriceAt[t + 1]
  <2>1. t = s - 1 \/ t < s - 1
    BY <1>1
  <2>2. t + 1 = s \/ t + 1 < s
    BY <1>1
  <2> QED BY <1>1, <1>2, <2>1, <2>2, PriceAssumption
<1>5. PriceAt[s - 1] * PriceAt[s] <= PriceAt[t] * PriceAt[t + 1]
  BY <1>4, MulMono
<1>6. PriceAt[s - 1] * PriceAt[s] \in Nat /\ PriceAt[t] * PriceAt[t + 1] \in Nat
  BY <1>4, MulNat
<1>7. Between(s - 1, s) \in Nat /\ Between(t, t + 1) \in Nat
      /\ Between(s - 1, s) <= Between(t, t + 1)
  BY <1>5, <1>6 DEF Between
<1>8. low * low <= high * high /\ low * low \in Nat /\ high * high \in Nat
  BY MulMono, MulNat
<1> QED BY <1>3, <1>7, <1>8

\* A price of the table is nearest to its own tick.
LEMMA OwnTick ==
  ASSUME NEW t \in Tick
  PROVE  100 * PriceAt[t] \in Nat /\ Nearest(100 * PriceAt[t], t)
<1> DEFINE p == PriceAt[t]
<1>1. t \in Int /\ p \in Nat \ {0} /\ 100 * p \in Nat
  BY PriceAssumption
<1>2. (100 * p) * (100 * p) = 10000 * (p * p)
  BY <1>1
<1>3. ASSUME t - 1 \in Tick PROVE (100 * p) * (100 * p) <= Between(t - 1, t)
  <2>1. PriceAt[t - 1] \in Nat /\ p <= PriceAt[t - 1]
    BY <1>1, <1>3, PriceAssumption
  <2>2. p * p <= PriceAt[t - 1] * p /\ p * p \in Nat /\ PriceAt[t - 1] * p \in Nat
    BY <1>1, <2>1, MulMono, MulNat
  <2> QED BY <1>2, <2>2 DEF Between
<1>4. ASSUME t + 1 \in Tick PROVE (100 * p) * (100 * p) > Between(t, t + 1)
  <2>1. PriceAt[t + 1] \in Nat /\ PriceAt[t + 1] + 1 <= p
    BY <1>1, <1>4, PriceAssumption
  <2>2. p * (PriceAt[t + 1] + 1) <= p * p
    BY <1>1, <2>1, MulMono
  <2>3. p * (PriceAt[t + 1] + 1) = p * PriceAt[t + 1] + p
    BY <1>1, <2>1
  <2>4. p * PriceAt[t + 1] \in Nat /\ p * p \in Nat
    BY <1>1, <2>1, MulNat
  <2> QED BY <1>1, <1>2, <2>2, <2>3, <2>4 DEF Between
<1> QED BY <1>1, <1>3, <1>4 DEF Nearest

\* A band made around the price of a tick holds that tick and its price, whatever the spacing
\* and the percentage; the table must have no gap and reach past the range and the band.
THEOREM FreshBandHoldsPrice ==
  ASSUME NEW t \in Tick,
         \A a, b \in Tick : a..b \subseteq Tick,
         \E s \in Tick : Nearest(RebalanceRange(PriceAt[t]).upper, s),
         \E s \in Tick : Nearest(RebalanceRange(PriceAt[t]).lower, s),
         FreshBand(t).lower \in Tick, FreshBand(t).upper \in Tick
  PROVE  /\ FreshBand(t).lower <= t /\ t <= FreshBand(t).upper
         /\ InRange(PriceAt[t], FreshBand(t))
<1> DEFINE range == RebalanceRange(PriceAt[t])
           own == 100 * PriceAt[t]
<1>1. own \in Nat /\ Nearest(own, t) /\ PriceAt[t] \in Nat
  BY OwnTick, PriceAssumption
<1>2. /\ range.upper = PriceAt[t] * (100 + RangePct)
      /\ range.lower = PriceAt[t] * (100 - RangePct)
  BY DEF RebalanceRange
<1>3. /\ PriceAt[t] * 100 <= PriceAt[t] * (100 + RangePct)
      /\ PriceAt[t] * (100 - RangePct) <= PriceAt[t] * 100
      /\ PriceAt[t] * (100 + RangePct) \in Nat /\ PriceAt[t] * (100 - RangePct) \in Nat
  <2>1. 100 - RangePct \in Nat /\ 100 + RangePct \in Nat
    BY PercentAssumption
  <2>2. 100 <= 100 + RangePct /\ 100 - RangePct <= 100
    BY PercentAssumption
  <2> QED BY <1>1, <2>1, <2>2, MulMono, MulNat
<1>4. range.lower \in Nat /\ range.upper \in Nat /\ range.lower <= own /\ own <= range.upper
  BY <1>1, <1>2, <1>3
<1> DEFINE from == TickOf(range.upper)
           to == TickOf(range.lower)
<1>5. from \in Tick /\ Nearest(range.upper, from) /\ to \in Tick /\ Nearest(range.lower, to)
  BY DEF TickOf
<1> HIDE DEF range, own, from, to
<1>6. from <= t /\ t <= to
  <2>1. from <= t
    BY <1>1, <1>4, <1>5, NearestOrder
  <2>2. t <= to
    BY <1>1, <1>4, <1>5, NearestOrder
  <2> QED BY <2>1, <2>2
<1>7. from \in Int /\ to \in Int /\ t \in Int /\ from <= to
  BY <1>5, <1>6, PriceAssumption
<1>8. FreshBand(t).lower <= from /\ to <= FreshBand(t).upper
  BY <1>7, BandCoversRange DEF FreshBand, from, to, range
<1>9. /\ FreshBand(t).lower \in Int /\ FreshBand(t).upper \in Int
      /\ FreshBand(t).lower <= t /\ t <= FreshBand(t).upper
  <2>1. FreshBand(t).lower \in Int /\ FreshBand(t).upper \in Int
    BY PriceAssumption
  <2> QED BY <1>6, <1>7, <1>8, <2>1
<1>10. PriceAt[t] <= PriceAt[FreshBand(t).lower] /\ PriceAt[FreshBand(t).upper] <= PriceAt[t]
  <2>1. FreshBand(t).lower = t \/ FreshBand(t).lower < t
    BY <1>7, <1>9
  <2>2. FreshBand(t).upper = t \/ t < FreshBand(t).upper
    BY <1>7, <1>9
  <2>3. ASSUME NEW a \in Tick, NEW b \in Tick, a = b \/ a < b PROVE PriceAt[b] <= PriceAt[a]
    BY <2>3, PriceAssumption
  <2> QED BY <2>1, <2>2, <2>3
<1> QED BY <1>9, <1>10 DEF InRange, LowerPrice, UpperPrice

\* What Close says of two ticks.
LEMMA CloseAt ==
  ASSUME NEW slip \in Nat, Close(slip), NEW s \in Tick, NEW t \in Tick, s < t, t - s <= Spacing
  PROVE  100 * PriceAt[s] <= (100 + slip) * PriceAt[t]
BY DEF Close

\* The tick found for a price lies between its neighbours, and is as close to the price as
\* they are to it.
LEMMA NearestIsClose ==
  ASSUME NEW price \in Nat, NEW t \in Tick, t - 1 \in Tick, t + 1 \in Tick, Nearest(price, t),
         NEW slip \in Nat, Close(slip)
  PROVE  /\ 100 * PriceAt[t + 1] <= price /\ price <= 100 * PriceAt[t - 1]
         /\ price <= (100 + slip) * PriceAt[t]
         /\ 10000 * PriceAt[t] <= (100 + slip) * price
<1> DEFINE below == PriceAt[t + 1]
           p == PriceAt[t]
           above == PriceAt[t - 1]
           c == 100 + slip
<1>1. t \in Int /\ t - 1 < t /\ t < t + 1 /\ t - (t - 1) <= Spacing /\ (t + 1) - t <= Spacing
  BY PriceAssumption, SpacingAssumption
<1>2. /\ below \in Nat /\ p \in Nat /\ above \in Nat /\ c \in Nat /\ 100 <= c
      /\ below <= p /\ p <= above
  BY <1>1, PriceAssumption
<1>3. 100 * above <= c * p /\ 100 * p <= c * below
  BY <1>1 DEF Close
<1>4. price * price <= 10000 * (above * p) /\ price * price > 10000 * (p * below)
  BY DEF Nearest, Between
<1> HIDE DEF below, p, above, c
<1>5. /\ price * price \in Nat /\ above * p \in Nat /\ p * below \in Nat /\ above * above \in Nat
      /\ below * below \in Nat /\ c * p \in Nat /\ c * below \in Nat /\ c * price \in Nat
  BY <1>2, MulNat
<1>6. 100 * below <= price
  <2>1. below * below <= p * below
    BY <1>2, MulMono
  <2>2. (100 * below) * (100 * below) = 10000 * (below * below)
    BY <1>2
  <2>3. (100 * below) * (100 * below) <= price * price
    BY <1>4, <1>5, <2>1, <2>2
  <2> QED BY <1>2, <2>3, SquareCancel
<1>7. price <= 100 * above
  <2>1. above * p <= above * above
    BY <1>2, MulMono
  <2>2. (100 * above) * (100 * above) = 10000 * (above * above)
    BY <1>2
  <2>3. price * price <= (100 * above) * (100 * above)
    BY <1>4, <1>5, <2>1, <2>2
  <2> QED BY <1>2, <2>3, SquareCancel
<1>8. price <= c * p
  <2>1. (100 * above) * (100 * p) <= (c * p) * (c * p)
    <3>1. 100 * p <= c * p
      BY <1>2, MulMono
    <3> QED BY <1>2, <1>3, <1>5, <3>1, MulMono
  <2>2. (100 * above) * (100 * p) = 10000 * (above * p)
    BY <1>2
  <2>3. price * price <= (c * p) * (c * p)
    <3>1. (c * p) * (c * p) \in Nat
      BY <1>5, MulNat
    <3> QED BY <1>4, <1>5, <2>1, <2>2, <3>1
  <2> QED BY <1>5, <2>3, SquareCancel
<1>9. 10000 * p <= c * price
  <2>1. (100 * p) * (100 * p) <= (c * below) * (c * p)
    <3>1. 100 * p <= c * p
      BY <1>2, MulMono
    <3> QED BY <1>2, <1>3, <1>5, <3>1, MulMono
  <2>2. (c * below) * (c * p) = (c * c) * (p * below)
    BY <1>2
  <2>3. 10000 * (p * below) <= price * price /\ c * c \in Nat
    BY <1>2, <1>4, <1>5, MulNat
  <2>4. (c * c) * (10000 * (p * below)) <= (c * c) * (price * price)
    BY <1>5, <2>3, MulMono
  <2>5. (c * c) * (price * price) = (c * price) * (c * price)
    BY <1>2
  <2>6. (c * c) * (10000 * (p * below)) = 10000 * ((c * c) * (p * below))
    BY <1>5, <2>3
  <2>7. (10000 * p) * (10000 * p) = 10000 * ((100 * p) * (100 * p))
    BY <1>2
  <2>8. (10000 * p) * (10000 * p) <= (c * price) * (c * price)
    <3>1. /\ (100 * p) * (100 * p) \in Nat /\ (c * c) * (p * below) \in Nat
          /\ (c * price) * (c * price) \in Nat
      BY <1>2, <1>5, <2>3, MulNat
    <3> QED BY <2>1, <2>2, <2>4, <2>5, <2>6, <2>7, <3>1
  <2> QED BY <1>2, <1>5, <2>8, SquareCancel
<1> QED BY <1>6, <1>7, <1>8, <1>9 DEF below, p, above, c

\* The range around the price of a tick has its ticks in order, that of the upper price first.
LEMMA RangeOrder ==
  ASSUME NEW t \in Tick,
         \A a, b \in Tick : a..b \subseteq Tick,
         \E s \in Tick : Nearest(RebalanceRange(PriceAt[t]).upper, s),
         \E s \in Tick : Nearest(RebalanceRange(PriceAt[t]).lower, s)
  PROVE  LET range == RebalanceRange(PriceAt[t])
         IN  /\ range.lower \in Nat /\ range.upper \in Nat /\ range.lower <= range.upper
             /\ TickOf(range.upper) \in Tick /\ Nearest(range.upper, TickOf(range.upper))
             /\ TickOf(range.lower) \in Tick /\ Nearest(range.lower, TickOf(range.lower))
             /\ TickOf(range.upper) \in Int /\ TickOf(range.lower) \in Int
             /\ TickOf(range.upper) <= TickOf(range.lower)
<1> DEFINE range == RebalanceRange(PriceAt[t])
           p == PriceAt[t]
           from == TickOf(range.upper)
           to == TickOf(range.lower)
<1>1. /\ range.upper = p * (100 + RangePct) /\ range.lower = p * (100 - RangePct)
      /\ p \in Nat
  BY PriceAssumption DEF RebalanceRange
<1>2. from \in Tick /\ Nearest(range.upper, from) /\ to \in Tick /\ Nearest(range.lower, to)
  BY DEF TickOf
<1> HIDE DEF p
<1>3. range.lower \in Nat /\ range.upper \in Nat /\ range.lower <= range.upper
  <2>1. 100 - RangePct \in Nat /\ 100 + RangePct \in Nat /\ 100 - RangePct <= 100 + RangePct
    BY PercentAssumption
  <2> QED BY <1>1, <2>1, MulMono, MulNat
<1> HIDE DEF range, from, to
<1>4. from <= to /\ from \in Int /\ to \in Int
  BY <1>2, <1>3, NearestOrder, PriceAssumption
<1> QED BY <1>2, <1>3, <1>4 DEF range, from, to

\* The edges H and L of a band are where a range around p wants them, up to slip%.
EdgesReach(p, H, L, slip) ==
  /\ p * (100 + RangePct) <= (100 + slip) * H
  /\ 10000 * H <= (100 + slip) * (p * (100 + RangePct))
  /\ 10000 * L <= (100 + slip) * (p * (100 - RangePct))
  /\ p * (100 - RangePct) <= (100 + slip) * L

OutsideMargins(p, H, L) ==
  100 * (H - p) > (H - L) * TriggerPct /\ 100 * (p - L) > (H - L) * TriggerPct

\* Edges at least (RangePct - slip)% and at most (RangePct + slip)% away from a price, up to
\* rounding, leave it outside both trigger margins.
LEMMA MarginsAreKept ==
  ASSUME NEW p \in Nat \ {0}, NEW H \in Nat, NEW L \in Nat, L <= p, p <= H,
         NEW slip \in 0..RangePct,
         (RangePct + slip) * TriggerPct < (RangePct - slip) * (100 - TriggerPct),
         EdgesReach(p, H, L, slip)
  PROVE  OutsideMargins(p, H, L)
<1> DEFINE a == H - p
           b == p - L
           c == 100 + slip
           near == RangePct - slip
           far == RangePct + slip
           T == TriggerPct
           K == 100 - TriggerPct
           e == slip * RangePct
<1>1. /\ a \in Nat /\ b \in Nat /\ c \in Nat \ {0} /\ near \in Nat /\ far \in Nat /\ T \in Nat
      /\ K \in Nat /\ e \in Nat /\ T <= K
  BY PercentAssumption, MulNat
<1>2. far * T < near * K
  OBVIOUS
<1>3. /\ p * (100 + RangePct) <= c * H /\ 10000 * H <= c * (p * (100 + RangePct))
       /\ 10000 * L <= c * (p * (100 - RangePct)) /\ p * (100 - RangePct) <= c * L
  BY DEF EdgesReach
\* c a >= near p and 10000 a <= (100 far + e) p
<1>4. near * p <= c * a /\ 10000 * a <= (100 * far + e) * p
  <2>1. c * a = c * H - 100 * p - slip * p
    BY PercentAssumption
  <2>2. p * (100 + RangePct) = 100 * p + RangePct * p
    BY PercentAssumption
  <2>3. near * p = RangePct * p - slip * p
    BY PercentAssumption
  <2>4. c * (p * (100 + RangePct)) = 10000 * p + (100 * far + e) * p
    BY PercentAssumption
  <2>5. /\ c * H \in Nat /\ RangePct * p \in Nat /\ slip * p \in Nat /\ (100 * far + e) * p \in Nat
    BY <1>1, MulNat, PercentAssumption
  <2> HIDE DEF near, far, e, c
  <2> QED BY <1>1, <1>3, <2>1, <2>2, <2>3, <2>4, <2>5 DEF c
<1>5. (100 * near + e) * p <= 10000 * b /\ c * b <= far * p
  <2>1. c * b = 100 * p + slip * p - c * L
    BY PercentAssumption
  <2>2. p * (100 - RangePct) = 100 * p - RangePct * p
    BY PercentAssumption
  <2>3. far * p = RangePct * p + slip * p
    BY PercentAssumption
  <2>4. c * (p * (100 - RangePct)) = 10000 * p - (100 * near + e) * p
    BY PercentAssumption
  <2>5. /\ c * L \in Nat /\ RangePct * p \in Nat /\ slip * p \in Nat /\ (100 * near + e) * p \in Nat
    BY <1>1, MulNat, PercentAssumption
  <2> HIDE DEF near, far, e, c
  <2> QED BY <1>1, <1>3, <2>1, <2>2, <2>3, <2>4, <2>5 DEF c
<1> HIDE DEF a, b, c, near, far, T, K, e
<1>6. b * T < a * K
  <2>1. c * (b * T) <= (far * T) * p
    <3>1. (c * b) * T <= (far * p) * T
      BY <1>1, <1>5, MulMono, MulNat
    <3>2. (c * b) * T = c * (b * T) /\ (far * p) * T = (far * T) * p
      BY <1>1
    <3> QED BY <3>1, <3>2
  <2>2. (near * K) * p <= c * (a * K)
    <3>1. (near * p) * K <= (c * a) * K
      BY <1>1, <1>4, MulMono, MulNat
    <3>2. (c * a) * K = c * (a * K) /\ (near * p) * K = (near * K) * p
      BY <1>1
    <3> QED BY <3>1, <3>2
  <2>3. far * T \in Nat /\ near * K \in Nat /\ b * T \in Nat /\ a * K \in Nat
    BY <1>1, MulNat
  <2>4. (far * T) * p < (near * K) * p
    BY <1>2, <2>3, MulStrict
  <2>5. c * (b * T) < c * (a * K)
    <3>1. /\ c * (b * T) \in Nat /\ c * (a * K) \in Nat /\ (far * T) * p \in Nat
          /\ (near * K) * p \in Nat
      BY <1>1, <2>3, MulNat
    <3> QED BY <2>1, <2>2, <2>4, <3>1
  <2> QED BY <1>1, <2>3, <2>5, MulMono
<1>7. a * T < b * K
  <2>1. 10000 * (a * T) <= ((100 * far + e) * T) * p
    <3>1. (10000 * a) * T <= ((100 * far + e) * p) * T
      BY <1>1, <1>4, MulMono, MulNat
    <3>2. (10000 * a) * T = 10000 * (a * T)
          /\ ((100 * far + e) * p) * T = ((100 * far + e) * T) * p
      BY <1>1
    <3> QED BY <3>1, <3>2
  <2>2. ((100 * near + e) * K) * p <= 10000 * (b * K)
    <3>1. ((100 * near + e) * p) * K <= (10000 * b) * K
      BY <1>1, <1>5, MulMono, MulNat
    <3>2. (10000 * b) * K = 10000 * (b * K)
          /\ ((100 * near + e) * p) * K = ((100 * near + e) * K) * p
      BY <1>1
    <3> QED BY <3>1, <3>2
  <2>3. (100 * far + e) * T < (100 * near + e) * K
    <3>1. e * T <= e * K
      BY <1>1, MulMono
    <3>2. (100 * far + e) * T = 100 * (far * T) + e * T
          /\ (100 * near + e) * K = 100 * (near * K) + e * K
      BY <1>1
    <3>3. far * T \in Nat /\ near * K \in Nat /\ e * T \in Nat /\ e * K \in Nat
      BY <1>1, MulNat
    <3> QED BY <1>2, <3>1, <3>2, <3>3
  <2>4. /\ (100 * far + e) * T \in Nat /\ (100 * near + e) * K \in Nat
        /\ b * K \in Nat /\ a * T \in Nat
    BY <1>1, MulNat
  <2>5. ((100 * far + e) * T) * p < ((100 * near + e) * K) * p
    BY <2>3, <2>4, MulStrict
  <2>6. ((100 * far + e) * T) * p \in Nat /\ ((100 * near + e) * K) * p \in Nat
    BY <2>4, MulNat
  <2> QED BY <2>1, <2>2, <2>4, <2>5, <2>6
<1>8. /\ H - L = a + b /\ (a + b) * T = a * T + b * T
      /\ a * K = 100 * a - a * T /\ b * K = 100 * b - b * T
  <2>1. H - L = a + b
    BY DEF a, b
  <2>2. K = 100 - T
    BY DEF K, T
  <2> QED BY <1>1, <2>1, <2>2
<1>9. a * T \in Nat /\ b * T \in Nat
  BY <1>1, MulNat
<1>10. 100 * a > (H - L) * T /\ 100 * b > (H - L) * T
  BY <1>1, <1>6, <1>7, <1>8, <1>9
<1> QED BY <1>10 DEF OutsideMargins, a, b, T

\* A band made around a price calls for no other rebalance at that price: if ticks a spacing
\* apart are within slip% of each other, neither edge of the band, which the range, the nearest
\* tick and the snapping decide, comes so near to the price that it is inside the trigger
\* margin of the (then lopsided) band.
THEOREM FreshBandIsNotRequired ==
  ASSUME NEW t \in Tick,
         \A a, b \in Tick : a..b \subseteq Tick,
         \E s \in Tick : Nearest(RebalanceRange(PriceAt[t]).upper, s),
         \E s \in Tick : Nearest(RebalanceRange(PriceAt[t]).lower, s),
         FreshBand(t).lower - 1 \in Tick, FreshBand(t).lower \in Tick,
         FreshBand(t).upper \in Tick, FreshBand(t).upper + 1 \in Tick,
         NEW slip \in 0..RangePct, Close(slip),
         (RangePct + slip) * TriggerPct < (RangePct - slip) * (100 - TriggerPct)
  PROVE  ~RebalanceRequired(PriceAt[t], FreshBand(t))
<1> DEFINE range == RebalanceRange(PriceAt[t])
           p == PriceAt[t]
           from == TickOf(range.upper)
           to == TickOf(range.lower)
           bot == FreshBand(t).lower
           top == FreshBand(t).upper
           H == PriceAt[bot]
           L == PriceAt[top]
           c == 100 + slip
<1>1. /\ range.upper = p * (100 + RangePct) /\ range.lower = p * (100 - RangePct)
      /\ p \in Nat \ {0} /\ RangePct \in 1..99 /\ slip \in Nat /\ slip <= RangePct /\ c \in Nat
      /\ TriggerPct \in 0..49
  BY PriceAssumption, PercentAssumption DEF RebalanceRange
<1>2. /\ range.lower \in Nat /\ range.upper \in Nat
      /\ from \in Tick /\ Nearest(range.upper, from) /\ to \in Tick /\ Nearest(range.lower, to)
      /\ from \in Int /\ to \in Int /\ from <= to
  BY RangeOrder
<1>3. bot <= t /\ t <= top /\ InRange(p, FreshBand(t))
  BY FreshBandHoldsPrice
<1> HIDE DEF range, from, to
<1>4. /\ bot <= from /\ from < bot + Spacing /\ to <= top /\ top - Spacing < to
  BY <1>2, BandCoversRange DEF FreshBand, from, to, range
<1>5. /\ bot \in Int /\ top \in Int /\ Spacing \in Nat \ {0}
      /\ bot - 1 \in Tick /\ top + 1 \in Tick /\ bot \in Tick /\ top \in Tick
  BY PriceAssumption, SpacingAssumption
<1> HIDE DEF bot, top
<1>6. from - 1 \in Tick /\ from + 1 \in Tick /\ to - 1 \in Tick /\ to + 1 \in Tick
  <2>1. /\ from - 1 \in (bot - 1)..(top + 1) /\ from + 1 \in (bot - 1)..(top + 1)
        /\ to - 1 \in (bot - 1)..(top + 1) /\ to + 1 \in (bot - 1)..(top + 1)
    BY <1>2, <1>4, <1>5
  <2>2. (bot - 1)..(top + 1) \subseteq Tick
    BY <1>5
  <2> QED BY <2>1, <2>2
<1>7. H \in Nat /\ L \in Nat /\ L <= p /\ p <= H
  BY <1>3, <1>5, PriceAssumption DEF InRange, LowerPrice, UpperPrice, bot, top
<1>8. /\ range.upper <= c * PriceAt[from] /\ 100 * PriceAt[from + 1] <= range.upper
      /\ 10000 * PriceAt[to] <= c * range.lower /\ range.lower <= 100 * PriceAt[to - 1]
  BY <1>1, <1>2, <1>6, NearestIsClose
<1>9. PriceAt[from] <= H /\ L <= PriceAt[to]
  <2>1. from = bot \/ bot < from
    BY <1>2, <1>4, <1>5
  <2>2. to = top \/ to < top
    BY <1>2, <1>4, <1>5
  <2>3. ASSUME NEW a \in Tick, NEW b \in Tick, a = b \/ a < b PROVE PriceAt[b] <= PriceAt[a]
    BY <2>3, PriceAssumption
  <2> QED BY <1>2, <1>5, <2>1, <2>2, <2>3
<1>10. 100 * H <= c * PriceAt[from + 1] /\ 100 * PriceAt[to - 1] <= c * L
  <2>1. /\ bot < from + 1 /\ (from + 1) - bot <= Spacing
        /\ to - 1 < top /\ top - (to - 1) <= Spacing
    BY <1>2, <1>4, <1>5
  <2>2. 100 * PriceAt[bot] <= (100 + slip) * PriceAt[from + 1]
    BY <1>1, <1>5, <1>6, <2>1, CloseAt
  <2>3. 100 * PriceAt[to - 1] <= (100 + slip) * PriceAt[top]
    BY <1>1, <1>5, <1>6, <2>1, CloseAt
  <2> QED BY <2>2, <2>3
<1>11. /\ PriceAt[from] \in Nat /\ PriceAt[from + 1] \in Nat
       /\ PriceAt[to] \in Nat /\ PriceAt[to - 1] \in Nat
  BY <1>2, <1>6, PriceAssumption
<1> HIDE DEF p, H, L, c
<1>12. /\ p * (100 + RangePct) <= c * H /\ 10000 * H <= c * (p * (100 + RangePct))
       /\ 10000 * L <= c * (p * (100 - RangePct)) /\ p * (100 - RangePct) <= c * L
  <2> DEFINE u == range.upper
             l == range.lower
             f == PriceAt[from]
             f1 == PriceAt[from + 1]
             g == PriceAt[to]
             g1 == PriceAt[to - 1]
  <2>1. /\ u \in Nat /\ l \in Nat /\ f \in Nat /\ f1 \in Nat /\ g \in Nat /\ g1 \in Nat
        /\ u <= c * f /\ 100 * f1 <= u /\ 10000 * g <= c * l /\ l <= 100 * g1
        /\ f <= H /\ L <= g /\ 100 * H <= c * f1 /\ 100 * g1 <= c * L
        /\ u = p * (100 + RangePct) /\ l = p * (100 - RangePct)
    BY <1>1, <1>8, <1>9, <1>10, <1>11
  <2> HIDE DEF u, l, f, f1, g, g1
  <2>2. c * f <= c * H /\ c * (100 * f1) <= c * u
    BY <1>1, <1>7, <2>1, MulMono
  <2>3. c * (100 * f1) = 100 * (c * f1) /\ c * f1 \in Nat /\ c * f \in Nat /\ c * H \in Nat
        /\ c * u \in Nat
    BY <1>1, <1>7, <2>1, MulNat
  <2>4. u <= c * H
    BY <2>1, <2>2, <2>3
  <2>5. 10000 * H <= c * u
    BY <1>7, <2>1, <2>2, <2>3
  <2>6. 10000 * L <= c * l
    <3>1. c * l \in Nat
      BY <1>1, <2>1, MulNat
    <3> QED BY <1>7, <2>1, <3>1
  <2>7. l <= c * L
    <3>1. c * L \in Nat
      BY <1>1, <1>7, MulNat
    <3> QED BY <1>7, <2>1, <3>1
  <2> QED BY <2>1, <2>4, <2>5, <2>6, <2>7
<1>13. OutsideMargins(p, H, L)
  <2>1. EdgesReach(p, H, L, slip)
    BY <1>12 DEF EdgesReach, c
  <2> QED BY <1>1, <1>7, <2>1, MarginsAreKept
<1>14. ~(100 * p >= 100 * H - (H - L) * TriggerPct) /\ ~(100 * p <= 100 * L + (H - L) * TriggerPct)
  <2>1. (H - L) * TriggerPct \in Nat
    <3>1. H - L \in Nat
      BY <1>1, <1>7
    <3> QED BY <1>1, <3>1, MulNat
  <2>2. ASSUME NEW x \in Nat, 100 * (H - p) > x, 100 * (p - L) > x
        PROVE  ~(100 * p >= 100 * H - x) /\ ~(100 * p <= 100 * L + x)
    BY <1>1, <1>7, <2>2
  <2> QED BY <1>13, <2>1, <2>2 DEF OutsideMargins
<1> QED BY <1>3, <1>14 DEF RebalanceRequired, UpperPrice, LowerPrice, Width, p, H, L, bot, top

-----------------------------------------------------------------------------
(* Liquidity. *)

\* Liquidity computed from an amount never stands for more than that amount (token0) ...
LEMMA Round0 ==
  ASSUME NEW amount \in Nat, NEW from \in Nat \ {0}, NEW to \in Nat \ {0}, from < to,
         NEW l \in Nat, l <= Liquidity0(amount, from, to)
  PROVE  Amount0(l, from, to) \in Nat /\ Amount0(l, from, to) <= amount
<1> DEFINE n == from * to
           m == (to - from) * Unit
           q == Liquidity0(amount, from, to)
           r == Amount0(l, from, to)
<1>1. /\ n \in Nat \ {0} /\ m \in Nat \ {0} /\ amount * n \in Nat /\ l * m \in Nat
      /\ amount * from * to = amount * n /\ l * (to - from) * Unit = l * m
  <2>1. to - from \in Nat \ {0} /\ Unit \in Nat \ {0}
    BY SqrtAssumption
  <2>2. n \in Nat \ {0} /\ m \in Nat \ {0}
    BY <2>1, MulNat
  <2>3. amount * n \in Nat /\ l * m \in Nat
    BY <2>2, MulNat
  <2>4. amount * from * to = amount * n /\ l * (to - from) * Unit = l * m
    BY <2>1
  <2> QED BY <2>2, <2>3, <2>4
<1>2. q = (amount * n) \div m /\ r = (l * m) \div n
  BY <1>1 DEF Liquidity0, Amount0
<1> HIDE DEF n, m, q, r
<1>3. q \in Int /\ q * m <= amount * n /\ r \in Nat /\ r * n <= l * m
  BY <1>1, <1>2, DivBounds, DivNat
<1>4. l * m <= q * m
  <2>1. l <= q /\ q \in Nat
    BY <1>3 DEF q
  <2> QED BY <1>1, <2>1, MulMono
<1>5. r * n <= amount * n
  <2>1. r * n \in Int /\ q * m \in Int /\ l * m \in Int /\ amount * n \in Int
    BY <1>1, <1>3
  <2> QED BY <1>3, <1>4, <2>1
<1>6. r <= amount
  BY <1>1, <1>3, <1>5, MulCancel
<1> QED BY <1>3, <1>6 DEF r

\* ... and the same for token1.
LEMMA Round1 ==
  ASSUME NEW amount \in Nat, NEW from \in Nat \ {0}, NEW to \in Nat \ {0}, from < to,
         NEW l \in Nat, l <= Liquidity1(amount, from, to)
  PROVE  Amount1(l, from, to) \in Nat /\ Amount1(l, from, to) <= amount
<1> DEFINE d == to - from
           q == Liquidity1(amount, from, to)
           r == Amount1(l, from, to)
<1>1. d \in Nat \ {0} /\ Unit \in Nat \ {0}
  BY SqrtAssumption
<1>2. amount * Unit \in Nat /\ l * d \in Nat
  BY <1>1, MulNat
<1>3. q = (amount * Unit) \div d /\ r = (l * d) \div Unit
  BY DEF Liquidity1, Amount1
<1>4. l <= q
  OBVIOUS
<1> HIDE DEF d, q, r
<1>5. q \in Nat /\ q * d <= amount * Unit /\ r \in Nat /\ r * Unit <= l * d
  BY <1>1, <1>2, <1>3, DivBounds, DivNat
<1>6. l * d <= q * d /\ q * d \in Nat /\ r * Unit \in Nat
  BY <1>1, <1>4, <1>5, MulMono, MulNat
<1>7. r * Unit <= amount * Unit
  BY <1>2, <1>5, <1>6
<1>8. r <= amount
  BY <1>1, <1>5, <1>7, MulCancel
<1> QED BY <1>5, <1>8 DEF r

\* Liquidity is a natural number on a part of the band that is not empty.
LEMMA Liquidity0Nat ==
  ASSUME NEW amount \in Nat, NEW from \in Nat \ {0}, NEW to \in Nat \ {0}, from < to
  PROVE  Liquidity0(amount, from, to) \in Nat
<1>1. (to - from) * Unit \in Nat \ {0}
  <2>1. to - from \in Nat \ {0} /\ Unit \in Nat \ {0}
    BY SqrtAssumption
  <2> QED BY <2>1, MulNat
<1>2. amount * from * to \in Nat
  BY MulNat
<1> QED BY <1>1, <1>2, DivNat DEF Liquidity0

\* ... of token1 as well.
LEMMA Liquidity1Nat ==
  ASSUME NEW amount \in Nat, NEW from \in Nat \ {0}, NEW to \in Nat \ {0}, from < to
  PROVE  Liquidity1(amount, from, to) \in Nat
<1>1. amount * Unit \in Nat /\ to - from \in Nat \ {0}
  BY SqrtAssumption, MulNat
<1> QED BY <1>1, DivNat DEF Liquidity1

\* An end of the band where the other token's part is empty.
LEMMA EmptyPart ==
  ASSUME NEW l \in Nat, NEW at \in Nat \ {0}
  PROVE  Amount0(l, at, at) = 0 /\ Amount1(l, at, at) = 0
<1>1. at - at = 0 /\ at * at \in Nat \ {0} /\ Unit \in Nat \ {0}
  BY SqrtAssumption, MulNat
<1>2. l * 0 * Unit = 0 /\ l * 0 = 0
  BY <1>1
<1>3. 0 \div (at * at) = 0 /\ 0 \div Unit = 0
  <2>1. ASSUME NEW d \in Nat \ {0} PROVE 0 \div d = 0
    OBVIOUS
  <2> QED BY <1>1, <2>1
<1> QED BY <1>1, <1>2, <1>3 DEF Amount0, Amount1

\* slippage_pct floors: never above the amount they are taken from.
LEMMA FloorBelow ==
  ASSUME NEW amount \in Nat, NEW slippage \in 0..100
  PROVE  Floor(amount, slippage) \in Nat /\ Floor(amount, slippage) <= amount
<1> DEFINE kept == amount * (100 - slippage)
<1>1. kept \in Nat /\ kept <= amount * 100
  <2>1. 100 - slippage \in Nat /\ 100 - slippage <= 100
    OBVIOUS
  <2> QED BY <2>1, MulMono, MulNat
<1>2. Floor(amount, slippage) = kept \div 100
  BY DEF Floor
<1> HIDE DEF kept
<1> QED BY <1>1, <1>2

\* A mint at the price its amounts were read at takes no more of either token than is offered,
\* so that the exact approvals suffice, and no less than the floors derived for it, so that it
\* does not revert on them; inside the band, below it and above it.
THEOREM MintFits ==
  ASSUME NEW amount \in [usdt : Nat, wbnb : Nat], NEW slippage \in 0..100,
         NEW sqrt \in Nat \ {0}, NEW low \in Nat \ {0}, NEW high \in Nat \ {0}, low < high
  PROVE  LET liquidity == AmountsToLiquidity(amount, sqrt, low, high)
             taken == LiquidityToAmounts(liquidity, sqrt, low, high)
             floors == LiquidityAmountFloors(liquidity, sqrt, low, high, slippage)
         IN  /\ taken.usdt <= amount.usdt /\ taken.wbnb <= amount.wbnb
             /\ floors.usdt <= taken.usdt /\ floors.wbnb <= taken.wbnb
<1> DEFINE at == Clamp(sqrt, low, high)
           l == AmountsToLiquidity(amount, sqrt, low, high)
           side0 == Liquidity0(amount.usdt, at, high)
           side1 == Liquidity1(amount.wbnb, low, at)
           taken == LiquidityToAmounts(l, sqrt, low, high)
<1>1. at \in Nat \ {0} /\ low <= at /\ at <= high
  BY DEF Clamp
<1>2. l = IF at = low THEN side0
          ELSE IF at = high THEN side1
          ELSE IF side0 < side1 THEN side0 ELSE side1
  BY DEF AmountsToLiquidity
<1>3. taken.usdt = Amount0(l, at, high) /\ taken.wbnb = Amount1(l, low, at)
  BY DEF LiquidityToAmounts
<1> HIDE DEF at, taken
<1>4. at < high => side0 \in Nat
  BY <1>1, Liquidity0Nat
<1>5. low < at => side1 \in Nat
  BY <1>1, Liquidity1Nat
<1>6. /\ l \in Nat
      /\ at < high => l <= side0
      /\ low < at => l <= side1
  <2> HIDE DEF side0, side1, l
  <2> QED BY <1>1, <1>2, <1>4, <1>5
<1>7. taken.usdt \in Nat /\ taken.usdt <= amount.usdt
  <2>1. CASE at < high
    <3> HIDE DEF l
    <3> QED BY <1>1, <1>3, <1>6, <2>1, Round0
  <2>2. CASE at = high
    <3> HIDE DEF l
    <3> QED BY <1>1, <1>3, <1>6, <2>2, EmptyPart
  <2> QED BY <1>1, <2>1, <2>2
<1>8. taken.wbnb \in Nat /\ taken.wbnb <= amount.wbnb
  <2>1. CASE low < at
    <3> HIDE DEF l
    <3> QED BY <1>1, <1>3, <1>6, <2>1, Round1
  <2>2. CASE low = at
    <3> HIDE DEF l
    <3> QED BY <1>1, <1>3, <1>6, <2>2, EmptyPart
  <2> QED BY <1>1, <2>1, <2>2
<1>9. /\ LiquidityAmountFloors(l, sqrt, low, high, slippage).usdt = Floor(taken.usdt, slippage)
      /\ LiquidityAmountFloors(l, sqrt, low, high, slippage).wbnb = Floor(taken.wbnb, slippage)
  BY DEF LiquidityAmountFloors, taken
<1>10. Floor(taken.usdt, slippage) <= taken.usdt /\ Floor(taken.wbnb, slippage) <= taken.wbnb
  BY <1>7, <1>8, FloorBelow
<1> QED BY <1>7, <1>8, <1>9, <1>10 DEF taken
=============================================================================
