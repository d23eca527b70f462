------------------------------- MODULE Quant -------------------------------
(***************************************************************************)
(* deploy/quant/monitor.mjs, which trades a client's allocation on the     *)
(* signal that GET /status gives, with the LP side that signal comes from. *)
(* One client session; the sessions before it in the inbox appear as       *)
(* passes that end before they reach it.  The loop is run with --live      *)
(* --loop.                                                                 *)
(*                                                                         *)
(* Time is counted in units of hours and only as far as it matters: ages   *)
(* of trades up to a day, the time left in the session.  A pass takes      *)
(* seconds to minutes, so the unit may turn anywhere inside it.            *)
(***************************************************************************)
EXTENDS RangeMath

CONSTANTS
  Live,        \* bound: the ticks the pool price moves among
  BuyBelow, SellAbove, MinEntry, MaxEntries, MinHold, ExitBuffer,  \* strategy parameters
  Allocation, DailyCap, Term, \* the session: U granted, U a day, its length
  Day,         \* 86400 seconds
  Rate,        \* WBNB, in its smallest unit, that 1 U is quoted to buy, at least
  Grain,       \* the smallest amounts of WBNB that toFixed(8) tells apart
  MaxFaults    \* bound: crashes, answers lost, ledgers unreadable, fills below the quote

ASSUME LiveAssumption == Live \subseteq Tick /\ 0 \in Live
ASSUME ParameterAssumption ==
  /\ {BuyBelow, SellAbove, ExitBuffer, Term, Day, MaxFaults} \subseteq Nat
  /\ {MinEntry, MaxEntries, MinHold, Allocation, DailyCap, Rate, Grain} \subseteq Nat \ {0}
  /\ BuyBelow < SellAbove /\ MinHold < ExitBuffer /\ ExitBuffer < Term
\* As configured: a band around a price of the pool has a width; the table has its ends.
ASSUME BandAssumption ==
  \A t \in Live : FreshBand(t) \in [lower : Tick, upper : Tick] /\ ~Collapsed(FreshBand(t))

\* The table is a pool's: it has no gap and reaches past every range and band, and its ticks
\* are so close together that a band reaches almost as far to one side of its price as to the other.
ASSUME TableAssumption ==
  /\ \A s, t \in Tick : s..t \subseteq Tick
  /\ \A t \in Live : LET asked == RebalanceRange(PriceAt[t])
                     IN  /\ \E s \in Tick : Nearest(asked.upper, s)
                         /\ \E s \in Tick : Nearest(asked.lower, s)
                         /\ {FreshBand(t).lower - 1, FreshBand(t).upper + 1} \subseteq Tick
  /\ \E slip \in 0..RangePct :
       /\ Close(slip)
       /\ (RangePct + slip) * TriggerPct < (RangePct - slip) * (100 - TriggerPct)

VARIABLES
  tick,      \* of the pool
  band,      \* ticks of the agent's LP position
  loop,      \* where the pass is, the signal it read and the order it decided on
  ledger,    \* the session's JSON file
  account,   \* the session's account on chain: WBNB held, time left (none once revoked)
  faults,    \* how much of the bound is used
  bought,    \* U spent on chain at each age of at most a day.  Only properties read these:
  sinceTrade,\* age of the last trade on chain
  clean,     \* the ledger agrees with the account
  closed     \* a pass went through the session inside its exit buffer

poolVars == <<tick, band>>
ghostVars == <<bought, sinceTrade, clean, closed>>
vars == <<poolVars, loop, ledger, account, faults, ghostVars>>

-----------------------------------------------------------------------------
Window == 0..Day        \* ages that are not yet past the cutoff
Fresh == [age \in Window |-> 0]
\* All that is no older than an age, and all there is.
Upto(amounts) ==
  LET upto[age \in Window] == amounts[age] + IF age = 0 THEN 0 ELSE upto[age - 1]
  IN  upto
Total(amounts) == Upto(amounts)[Day]
Older(amounts) == [age \in Window |-> IF age = 0 THEN 0 ELSE amounts[age - 1]]
Later(age) == IF age < MinHold THEN age + 1 ELSE MinHold

Empty == [n |-> 0, u |-> 0, wbnb |-> 0, buys |-> Fresh, last |-> MinHold]
\* The band the agent makes around each tick, as a table.
BandAt == [t \in Live |-> FreshBand(t)]

NoSignal == [utilisation |-> 0, usable |-> FALSE]
NoOrder == [side |-> "none", amount |-> 0, quote |-> 0]
Asleep == [at |-> "sleep", signal |-> NoSignal, order |-> NoOrder]

\* The agent has just ranged around the price; the session has just been funded.
Init ==
  /\ tick = 0 /\ band = BandAt[0]
  /\ loop = Asleep /\ ledger = Empty
  /\ account = [wbnb |-> 0, left |-> Term]
  /\ faults = 0
  /\ bought = Fresh /\ sinceTrade = MinHold /\ clean = TRUE /\ closed = FALSE

Fault == faults < MaxFaults /\ faults' = faults + 1

-----------------------------------------------------------------------------
(* decide and buySize. *)

Running == account.left > 0
Ending == account.left <= ExitBuffer
Held == ledger.last < MinHold

\* Mutation of Sells: the minimum hold outranks the flattening.
SellsAfterHold(utilisation, usable) ==
  /\ Running /\ ledger.n > 0 /\ ~Held
  /\ Ending \/ (usable /\ utilisation >= SellAbove)

Sells(utilisation, usable) ==
  /\ Running /\ ledger.n > 0
  /\ Ending \/ (usable /\ ~Held /\ utilisation >= SellAbove)

\* Mutation of Buys: the minimum hold is not asked.
BuysAtOnce(utilisation, usable) ==
  /\ Running /\ ~Ending /\ usable
  /\ utilisation < SellAbove /\ utilisation <= BuyBelow
  /\ ledger.n < MaxEntries

\* Mutation of Buys: the open entries are not counted.
BuysBeyondEntries(utilisation, usable) ==
  /\ Running /\ ~Ending /\ usable /\ ~Held
  /\ utilisation < SellAbove /\ utilisation <= BuyBelow

Buys(utilisation, usable) ==
  /\ Running /\ ~Ending /\ usable /\ ~Held
  /\ utilisation < SellAbove /\ utilisation <= BuyBelow
  /\ ledger.n < MaxEntries

Least(S) == CHOOSE n \in S : \A k \in S : n <= k

\* Mutation of BuySize: the day's cap counts the open entries.
BuySizeOfEntries ==
  Least({Allocation \div MaxEntries, DailyCap - ledger.u, Allocation - ledger.u})

BuySize ==
  Least({Allocation \div MaxEntries, DailyCap - Total(ledger.buys), Allocation - ledger.u})

\* heldWbnb(state).toFixed(8): to the nearest.
SellSize == ((2 * ledger.wbnb + Grain) \div (2 * Grain)) * Grain

-----------------------------------------------------------------------------
(* A pass. *)

\* lpSignal: an error of /status, which then has no range_utilization, ends the pass here.
ReadSignal ==
  /\ loop.at = "sleep"
  /\ loop' = [loop EXCEPT !.at = "job", !.signal =
       [utilisation |-> RangeUtilizationPct(PriceAt[tick], band),
        usable |-> InRange(PriceAt[tick], band)]]
  /\ UNCHANGED <<poolVars, ledger, account, faults, ghostVars>>

\* The config, the inbox or an earlier session raised: this one is not looked at.
PassFails ==
  /\ loop.at \in {"job", "impact", "trade"}
  /\ loop' = Asleep
  /\ UNCHANGED <<poolVars, ledger, account, faults, ghostVars>>

Hold ==
  /\ loop.at = "job"
  /\ ~Sells(loop.signal.utilisation, loop.signal.usable) \/ SellSize = 0
  /\ ~Buys(loop.signal.utilisation, loop.signal.usable) \/ BuySize < MinEntry
  /\ loop' = Asleep
  /\ closed' = (closed \/ (Running /\ Ending))
  /\ UNCHANGED <<poolVars, ledger, account, faults, bought, sinceTrade, clean>>

\* The reserves are read in an await: PassFails when that raises.
Decide ==
  /\ loop.at = "job"
  /\ \/ /\ Sells(loop.signal.utilisation, loop.signal.usable) /\ SellSize > 0
        /\ loop' = [loop EXCEPT !.at = "impact",
                      !.order = [side |-> "sell", amount |-> SellSize, quote |-> 0]]
     \/ /\ Buys(loop.signal.utilisation, loop.signal.usable) /\ BuySize >= MinEntry
        /\ loop' = [loop EXCEPT !.at = "impact",
                      !.order = [side |-> "buy", amount |-> BuySize, quote |-> 0]]
  /\ UNCHANGED <<poolVars, ledger, account, faults, ghostVars>>

\* The pool is deep enough; otherwise the order is held back, the same as PassFails.
ImpactBelowCeiling ==
  /\ loop.at = "impact"
  /\ loop' = [loop EXCEPT !.at = "trade"]
  /\ UNCHANGED <<poolVars, ledger, account, faults, ghostVars>>

\* The trade lands on chain; answered is FALSE when the skill dies or takes over 180s.
Lands(answered, quote) ==
  /\ loop' = IF answered THEN [loop EXCEPT !.at = "save", !.order.quote = quote] ELSE Asleep
  /\ sinceTrade' = 0
  /\ UNCHANGED <<poolVars, ledger, closed>>

\* The quote depends on the price; a fill may fall short of it.
Buy(answered, short) ==
  /\ loop.at = "trade" /\ loop.order.side = "buy" /\ Running
  /\ IF answered /\ short = 0 THEN UNCHANGED <<faults, clean>> ELSE Fault /\ clean' = FALSE
  /\ \E quote \in {Rate * loop.order.amount + d : d \in 0..1} :
       /\ account' = [account EXCEPT !.wbnb = @ + quote - short]
       /\ Lands(answered, quote)
  /\ bought' = [bought EXCEPT ![0] = @ + loop.order.amount]

\* The account refuses to sell more than it holds: the skill raises, as in PassFails.
Sell(answered) ==
  /\ loop.at = "trade" /\ loop.order.side = "sell" /\ Running
  /\ loop.order.amount <= account.wbnb
  /\ IF answered THEN UNCHANGED <<faults, clean>> ELSE Fault /\ clean' = FALSE
  /\ account' = [account EXCEPT !.wbnb = @ - loop.order.amount]
  /\ Lands(answered, 0)
  /\ UNCHANGED bought

\* Nothing is awaited between the answer of the skill and saveState.
Save ==
  /\ loop.at = "save"
  /\ ledger' = IF loop.order.side = "buy"
               THEN [ledger EXCEPT !.n = @ + 1, !.u = @ + loop.order.amount,
                       !.wbnb = @ + loop.order.quote, !.buys[0] = @ + loop.order.amount,
                       !.last = 0]
               ELSE [ledger EXCEPT !.n = 0, !.u = 0, !.wbnb = 0, !.last = 0]
  /\ loop' = Asleep
  /\ closed' = (closed \/ (Ending /\ loop.order.side = "sell"))
  /\ UNCHANGED <<poolVars, account, faults, bought, sinceTrade, clean>>

\* The process dies and is started again; between the answer and saveState that loses a trade.
Crash ==
  /\ loop.at # "sleep" /\ Fault
  /\ loop' = Asleep
  /\ clean' = (clean /\ loop.at # "save")
  /\ UNCHANGED <<poolVars, ledger, account, bought, sinceTrade, closed>>

\* The file does not parse (a write was cut short): loadState starts it empty.
LedgerLost ==
  /\ loop.at = "sleep" /\ ledger # Empty /\ Fault
  /\ ledger' = Empty /\ clean' = FALSE
  /\ UNCHANGED <<poolVars, loop, account, bought, sinceTrade, closed>>

-----------------------------------------------------------------------------
(* The world around the loop. *)

\* Bound: the pool is of no interest once the session has ended.
PriceMoves ==
  /\ Running
  /\ tick' \in Live \ {tick}
  /\ UNCHANGED <<band, loop, ledger, account, faults, ghostVars>>

\* The agent's rebalance, whose steps are those of module Rebalance.
Rerange ==
  /\ RebalanceRequired(PriceAt[tick], band)
  /\ ~Collapsed(BandAt[tick])
  /\ band' = BandAt[tick]
  /\ UNCHANGED <<tick, loop, ledger, account, faults, ghostVars>>

TimePasses ==
  /\ account.left > 0
  /\ account' = [account EXCEPT !.left = @ - 1]
  /\ ledger' = [ledger EXCEPT !.buys = Older(@), !.last = Later(@)]
  /\ bought' = Older(bought) /\ sinceTrade' = Later(sinceTrade)
  /\ UNCHANGED <<poolVars, loop, faults, clean, closed>>

\* decide and the account treat a revoked session the same as an expired one.
Revoke ==
  /\ Running
  /\ account' = [account EXCEPT !.left = 0]
  /\ UNCHANGED <<poolVars, loop, ledger, faults, ghostVars>>

Next ==
  \/ ReadSignal \/ PassFails \/ Hold \/ Decide \/ ImpactBelowCeiling
  \/ \E answered \in BOOLEAN : Sell(answered) \/ \E short \in 0..1 : Buy(answered, short)
  \/ Save \/ Crash \/ LedgerLost
  \/ PriceMoves \/ Rerange \/ TimePasses \/ Revoke

Spec == Init /\ [][Next]_vars

-----------------------------------------------------------------------------
(* Properties. *)

TypeOK ==
  /\ tick \in Live
  /\ band \in [lower : Tick, upper : Tick]
  /\ loop \in [at : {"sleep", "job", "impact", "trade", "save"},
               signal : [utilisation : Nat, usable : BOOLEAN],
               order : [side : {"none", "buy", "sell"}, amount : Nat, quote : Nat]]
  /\ ledger \in [n : 0..MaxEntries, u : 0..Allocation, wbnb : Nat,
                 buys : [Window -> Nat], last : 0..MinHold]
  /\ account \in [wbnb : Nat, left : 0..Term]
  /\ faults \in 0..MaxFaults
  /\ bought \in [Window -> Nat] /\ sinceTrade \in 0..MinHold
  /\ {clean, closed} \subseteq BOOLEAN

\* While the ledger agrees with the account, no more than the cap is spent in any day, through
\* sales, further entries, and trades that are recorded later than they landed.
CleanCapKept == clean => Total(bought) <= DailyCap

\* ... and two trades keep the minimum hold between them, unless the second flattens.
CleanHoldKept ==
  [][clean /\ account'.wbnb # account.wbnb =>
       \/ sinceTrade = MinHold
       \/ loop.order.side = "sell" /\ Ending]_vars

\* ... and once a pass went through the session inside its exit buffer the client holds no
\* more WBNB than the rounding of sales left behind, up to the expiry and after it: half a
\* grain a sale, and no more sales than hours.
CleanClosedIsFlat == clean /\ closed => 2 * account.wbnb <= Grain * Term

\* A band just made around the price covers the range asked for, tick by tick, and calls for
\* no other rebalance before the price moves.
FreshBandSettles ==
  band = BandAt[tick] =>
    LET asked == RebalanceRange(PriceAt[tick])
    IN  /\ band.lower <= TickOf(asked.upper) /\ TickOf(asked.lower) <= band.upper
        /\ ~RebalanceRequired(PriceAt[tick], band)
=============================================================================
