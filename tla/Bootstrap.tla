----------------------------- MODULE Bootstrap -----------------------------
(***************************************************************************)
(* The operator's scripts mint_position.py and migrate_wallet.py, run by   *)
(* hand and again after a failure, beside an agent that rebalances from    *)
(* the same wallet.  Every transaction goes through lp_signing._send (the  *)
(* native sweep through its own copy): read the pending nonce, simulate,   *)
(* broadcast, wait for the receipt.                                        *)
(*                                                                         *)
(* The chain executes the mempool in nonce order.  WBNB, native coin and   *)
(* gas are counted in one unit, USDT in its own; the arithmetic of the     *)
(* pool is RangeMath's.  The operator runs one script at a time.           *)
(***************************************************************************)
EXTENDS RangeMath, Sequences

CONSTANTS
  Live,       \* bound: the ticks the pool price moves among
  Total,      \* --bnb: what a mint commits
  Native,     \* the wallet's native coin at first
  Cost, Plain,\* gas of a contract call, of a plain transfer
  MintSlip, SwapSlip,  \* [strategy].mint_slippage_pct, max_slippage_pct
  MaxMints, MaxMigrations, MaxPasses,  \* bounds: runs of each script, passes of the agent
  MaxMoves,   \* bound: moves of the price
  MaxFaults   \* bound: receipts that time out, processes that die, calls that raise

ASSUME BootstrapAssumption ==
  /\ {Native, Cost, Plain, MintSlip, SwapSlip, MaxMints, MaxMigrations, MaxPasses,
      MaxMoves, MaxFaults} \subseteq Nat
  /\ Total \in Nat \ {0} /\ 0 \in Live /\ Live \subseteq Tick \cap DOMAIN SqrtAt
  /\ MintSlip <= 100 /\ SwapSlip <= 100

\* 21000 gas is what any transaction costs; a contract call pays for its execution too.
ASSUME GasAssumption == Plain < Cost

\* Ratios rise with the tick.  As configured: a band around a price of the pool has a width;
\* the table has its ends.
ASSUME BandAssumption ==
  /\ \A s, t \in DOMAIN SqrtAt : s < t => SqrtAt[s] < SqrtAt[t]
  /\ \A t \in Live : /\ {FreshBand(t).lower, FreshBand(t).upper} \subseteq Tick \cap DOMAIN SqrtAt
                     /\ ~Collapsed(FreshBand(t))

VARIABLES
  tick,       \* of the pool
  wallet,     \* native coin, WBNB and USDT of the old wallet
  allowance,  \* what it lets the router and the position manager take
  positions,  \* the position NFTs, in the order they were minted
  identity,   \* owner of the ERC-8004 identity NFT
  toml,       \* the position that [strategy].token_id of studio.toml names, 0: none
  store,      \* the position that the agent's store points at, 0: none
  mempool,    \* transactions that are broadcast and not mined, in nonce order; who waits
  job,        \* where the script and the agent are, and their local variables
  left,       \* how much of the bounds is left
  late,       \* a sender gave up on a transaction in the mempool.  Only properties read:
  wrapped,    \* WBNB ever wrapped
  spent,      \* WBNB ever swapped or deposited
  swept,      \* the native coin was sent to the new wallet
  overlapped, \* a pass of the agent was under way during a migration
  skipped     \* a migration was run that did not find the agent's identity

chainVars == <<tick, wallet, allowance, positions, identity, mempool>>
ghostVars == <<late, wrapped, spent, swept, overlapped, skipped>>
vars == <<chainVars, toml, store, job, left, ghostVars>>

-----------------------------------------------------------------------------
Process == {"script", "agent"}
Spender == {"router", "npmUsdt", "npmWbnb"}
NoBand == [lower |-> 0, upper |-> 0]
Nothing == [usdt |-> 0, wbnb |-> 0]
NoTx == [kind |-> "none"]

\* phase: "run", then "signed" with slot the place in the mempool that the nonce it read
\* stands for (0: mined meanwhile), then "wait", then "landed" or "reverted".
Idle == [at |-> "idle", phase |-> "run", tx |-> NoTx, slot |-> 0, band |-> NoBand,
         want |-> Nothing, floors |-> Nothing, zeroed |-> FALSE, token |-> 0,
         todo |-> <<>>]

\* A funded wallet that owns the agent's identity, and no position yet.
Init ==
  /\ tick = 0
  /\ wallet = [native |-> Native, wbnb |-> 0, usdt |-> 0]
  /\ allowance = [s \in Spender |-> 0]
  /\ positions = <<>> /\ identity = "old" /\ toml = 0 /\ store = 0
  /\ mempool = <<>>
  /\ job = [p \in Process |-> Idle]
  /\ left = [mints |-> MaxMints, migrations |-> MaxMigrations, passes |-> MaxPasses,
             moves |-> MaxMoves, faults |-> MaxFaults]
  /\ late = FALSE /\ wrapped = 0 /\ spent = 0
  /\ swept = FALSE /\ overlapped = FALSE /\ skipped = FALSE

\* The position the agent manages: its store's, and until it has one that of studio.toml.
Token == IF store # 0 THEN store ELSE toml

At(p, step) == job[p].at = step /\ job[p].phase = "run"
Migrating == job["script"].at \in {"movePosition", "moveIdentity", "sweep"}

-----------------------------------------------------------------------------
(* What a transaction does when it is mined, at the price of that moment. *)

Low(band) == SqrtAt[band.lower]
High(band) == SqrtAt[band.upper]
SwapOut(amount) == (amount * Unit * Unit) \div (SqrtAt[tick] * SqrtAt[tick])

Minted(tx) == AmountsToLiquidity(tx.want, SqrtAt[tick], Low(tx.band), High(tx.band))
Taken(tx) == LiquidityToAmounts(Minted(tx), SqrtAt[tick], Low(tx.band), High(tx.band))
Value(id) == LiquidityToAmounts(positions[id].liquidity, SqrtAt[tick],
                                Low(positions[id].band), High(positions[id].band))

Fee(tx) == IF tx.kind = "sweep" THEN Plain ELSE Cost
Affordable(tx) ==
  wallet.native >= Fee(tx) + IF tx.kind \in {"deposit", "sweep"} THEN tx.amount ELSE 0

\* It does not revert.  The agent's approvals are part of the step that needs them.
Executes(tx) ==
  \/ tx.kind \in {"deposit", "approve", "sweep"}
  \/ /\ tx.kind = "swap"
     /\ tx.amount <= wallet.wbnb /\ tx.amount <= allowance["router"]
     /\ SwapOut(tx.amount) >= tx.floor
  \/ /\ tx.kind = "mint"
     /\ Minted(tx) > 0
     /\ Taken(tx).usdt \in tx.floors.usdt..wallet.usdt
     /\ Taken(tx).wbnb \in tx.floors.wbnb..wallet.wbnb
     /\ tx.approves \/ /\ Taken(tx).usdt <= allowance["npmUsdt"]
                       /\ Taken(tx).wbnb <= allowance["npmWbnb"]
  \/ tx.kind = "withdraw" /\ positions[tx.id].owner = "old"
  \/ tx.kind = "move" /\ positions[tx.id].owner = "old"
  \/ tx.kind = "moveIdentity" /\ identity = "old"

Charge(tx, native, wbnb, usdt) ==
  wallet' = [native |-> wallet.native + native - Fee(tx),
             wbnb |-> wallet.wbnb + wbnb, usdt |-> wallet.usdt + usdt]

Deposit(tx) ==
  /\ tx.kind = "deposit" /\ Charge(tx, -tx.amount, tx.amount, 0)
  /\ wrapped' = wrapped + tx.amount
  /\ UNCHANGED <<allowance, positions, identity, spent, swept>>

Approve(tx) ==
  /\ tx.kind = "approve" /\ Charge(tx, 0, 0, 0)
  /\ allowance' = [allowance EXCEPT ![tx.spender] = tx.amount]
  /\ UNCHANGED <<positions, identity, wrapped, spent, swept>>

Swap(tx) ==
  /\ tx.kind = "swap" /\ Charge(tx, 0, -tx.amount, SwapOut(tx.amount))
  /\ allowance' = [allowance EXCEPT !["router"] = @ - tx.amount]
  /\ spent' = spent + tx.amount
  /\ UNCHANGED <<positions, identity, wrapped, swept>>

Mint(tx) ==
  /\ tx.kind = "mint" /\ Charge(tx, 0, -Taken(tx).wbnb, -Taken(tx).usdt)
  /\ positions' = Append(positions, [owner |-> "old", liquidity |-> Minted(tx), band |-> tx.band])
  /\ allowance' = IF tx.approves THEN allowance
                  ELSE [allowance EXCEPT !["npmUsdt"] = @ - Taken(tx).usdt,
                                         !["npmWbnb"] = @ - Taken(tx).wbnb]
  /\ spent' = spent + Taken(tx).wbnb
  /\ UNCHANGED <<identity, wrapped, swept>>

\* decreaseLiquidity and collect of all there is.
Withdraw(tx) ==
  /\ tx.kind = "withdraw" /\ Charge(tx, 0, Value(tx.id).wbnb, Value(tx.id).usdt)
  /\ positions' = [positions EXCEPT ![tx.id].liquidity = 0]
  /\ UNCHANGED <<allowance, identity, wrapped, spent, swept>>

Move(tx) ==
  /\ Charge(tx, 0, 0, 0)
  /\ \/ tx.kind = "move" /\ positions' = [positions EXCEPT ![tx.id].owner = "new"]
        /\ UNCHANGED identity
     \/ tx.kind = "moveIdentity" /\ identity' = "new" /\ UNCHANGED positions
  /\ UNCHANGED <<allowance, wrapped, spent, swept>>

Sweep(tx) ==
  /\ tx.kind = "sweep" /\ Charge(tx, -tx.amount, 0, 0)
  /\ swept' = TRUE
  /\ UNCHANGED <<allowance, positions, identity, wrapped, spent>>

\* Nobody waits for it any more, and its deadline may have passed.
MayExpire(tx, by) == by = "nobody" /\ tx.kind \in {"swap", "mint", "withdraw"}

\* A revert costs the gas and nothing else.
Revert(tx, by) ==
  /\ ~Executes(tx) \/ MayExpire(tx, by)
  /\ Charge(tx, 0, 0, 0)
  /\ UNCHANGED <<allowance, positions, identity, wrapped, spent, swept>>

\* The oldest transaction is mined: its sender, if it still waits, gets the receipt, and the
\* nonces that were read and not used yet come one nearer to those that are.
Mine ==
  /\ mempool # <<>>
  /\ LET tx == Head(mempool).tx
         by == Head(mempool).by
         phase == IF Executes(tx) THEN "landed" ELSE "reverted"
     IN  /\ Affordable(tx)
         /\ \/ Revert(tx, by)
            \/ Executes(tx) /\ (\/ Deposit(tx) \/ Approve(tx) \/ Swap(tx) \/ Mint(tx)
                                \/ Withdraw(tx) \/ Move(tx) \/ Sweep(tx))
         /\ job' = [p \in Process |->
              IF p = by
              THEN [job[p] EXCEPT !.phase = phase,
                                  !.token = IF tx.kind = "mint" THEN Len(positions') ELSE @]
              ELSE IF job[p].phase = "signed" /\ job[p].slot > 0
                   THEN [job[p] EXCEPT !.slot = @ - 1] ELSE job[p]]
  /\ mempool' = Tail(mempool)
  /\ UNCHANGED <<tick, toml, store, left, late, overlapped, skipped>>

PriceMoves ==
  /\ left.moves > 0
  /\ tick' \in Live \ {tick}
  /\ left' = [left EXCEPT !.moves = @ - 1]
  /\ UNCHANGED <<wallet, allowance, positions, identity, mempool, toml, store, job, ghostVars>>

-----------------------------------------------------------------------------
(* Steps of the programs: todo holds those after the current one. *)

MintSteps == <<"wrap", "usdt", "router", "swap", "balances", "npmUsdt", "npmWbnb", "mint",
               "minted">>

Start(todo) == [Idle EXCEPT !.at = Head(todo), !.todo = Tail(todo)]
Advance(j) == [j EXCEPT !.at = Head(j.todo), !.todo = Tail(j.todo),
                        !.phase = "run", !.tx = NoTx, !.zeroed = FALSE]

\* mint_position with all that the wallet holds; approves: the approvals are a part of it.
MintOf(band, want, floors, approves) ==
  [kind |-> "mint", band |-> band, want |-> want, floors |-> floors, approves |-> approves]
Balances == [usdt |-> wallet.usdt, wbnb |-> wallet.wbnb]
FloorsOf(band, want) ==
  LET sqrt == SqrtAt[tick]
  IN  LiquidityAmountFloors(AmountsToLiquidity(want, sqrt, Low(band), High(band)),
                            sqrt, Low(band), High(band), MintSlip)

\* Mutation of Asked: the router may take all that the mint commits, not the half it swaps.
AskedForAll(p) ==
  CASE job[p].at = "router" -> Total
    [] job[p].at = "npmUsdt" -> job[p].want.usdt
    [] job[p].at = "npmWbnb" -> job[p].want.wbnb

\* What approve_exact of a step wants the spender to be allowed.
Asked(p) ==
  CASE job[p].at = "router" -> Total \div 2
    [] job[p].at = "npmUsdt" -> job[p].want.usdt
    [] job[p].at = "npmWbnb" -> job[p].want.wbnb
Allowed(p) == job[p].at \in Spender /\ ~job[p].zeroed /\ allowance[job[p].at] >= Asked(p)

\* An allowance that is too small is set to zero before it is set to what is asked.
Approval(p) ==
  [kind |-> "approve", spender |-> job[p].at,
   amount |-> IF allowance[job[p].at] > 0 /\ ~job[p].zeroed THEN 0 ELSE Asked(p)]

SweepAmount == wallet.native - 2 * Plain

\* The transaction that the current step sends, if it sends one.
Wanted(p) ==
  LET j == job[p]
  IN  CASE j.at = "wrap" -> {[kind |-> "deposit", amount |-> j.want.wbnb]}
        [] j.at \in Spender /\ ~Allowed(p) -> {Approval(p)}
        [] j.at = "swap" -> {[kind |-> "swap", amount |-> Total \div 2, floor |-> j.floors.usdt]}
        [] j.at = "mint" -> {MintOf(j.band, j.want, j.floors, FALSE)}
        [] j.at = "movePosition" -> {[kind |-> "move", id |-> j.token]}
        [] j.at = "moveIdentity" -> {[kind |-> "moveIdentity"]}
        [] j.at = "sweep" /\ SweepAmount > 0 -> {[kind |-> "sweep", amount |-> SweepAmount]}
        [] j.at = "withdraw" -> {[kind |-> "withdraw", id |-> j.token]}
        [] j.at = "remint" -> {MintOf(FreshBand(tick), Balances,
                                      FloorsOf(FreshBand(tick), Balances), TRUE)}
        [] OTHER -> {}

-----------------------------------------------------------------------------
(* _send. *)

\* Gas price, estimate, pending nonce, simulation (the sweep has none), signature.
Sign(p) ==
  /\ job[p].phase = "run"
  /\ \E tx \in Wanted(p) :
       /\ Affordable(tx) /\ (Executes(tx) \/ tx.kind = "sweep")
       /\ job' = [job EXCEPT ![p].phase = "signed", ![p].tx = tx,
                             ![p].slot = Len(mempool) + 1]
  /\ UNCHANGED <<chainVars, toml, store, left, ghostVars>>

\* The nonce is the next one, or that of a transaction that still waits and is replaced.
Broadcast(p) ==
  LET sent == [by |-> p, tx |-> job[p].tx]
  IN  /\ job[p].phase = "signed" /\ job[p].slot > 0
      /\ mempool' = IF job[p].slot > Len(mempool) THEN Append(mempool, sent)
                    ELSE [mempool EXCEPT ![job[p].slot] = sent]
      /\ job' = [job EXCEPT ![p].phase = "wait", ![p].slot = 0]
      /\ UNCHANGED <<tick, wallet, allowance, positions, identity, toml, store, left, ghostVars>>

\* The receipt says 1.  After an approve(0) the same step goes on to approve the amount.
Landed(p) ==
  /\ job[p].phase = "landed"
  /\ job' = [job EXCEPT ![p] =
       IF @.tx.kind = "approve" /\ @.tx.amount = 0
       THEN [@ EXCEPT !.phase = "run", !.tx = NoTx, !.zeroed = TRUE] ELSE Advance(@)]
  /\ UNCHANGED <<chainVars, toml, store, left, ghostVars>>

\* The run ends with an exception: the receipt says 0, the simulation fails, the nonce was
\* used meanwhile, or another transaction took its place in the mempool.
Fails(p) ==
  /\ \/ job[p].phase = "reverted"
     \/ job[p].phase = "run" /\ \E tx \in Wanted(p) : ~(Affordable(tx) /\ Executes(tx))
     \/ job[p].phase = "signed" /\ job[p].slot <= Len(mempool)
     \/ job[p].phase = "wait" /\ \A i \in DOMAIN mempool : mempool[i].by # p
  /\ job' = [job EXCEPT ![p] = Idle]
  /\ UNCHANGED <<chainVars, toml, store, left, ghostVars>>

\* The same at any point: a gas price over the ceiling, a node that does not answer, a receipt
\* that does not come in 180s, the death of the process.  A transaction stays behind.
Abort(p) ==
  /\ job[p].at # "idle" /\ left.faults > 0
  /\ left' = [left EXCEPT !.faults = @ - 1]
  /\ late' = (late \/ \E i \in DOMAIN mempool : mempool[i].by = p)
  /\ mempool' = [i \in DOMAIN mempool |->
                   IF mempool[i].by = p THEN [mempool[i] EXCEPT !.by = "nobody"] ELSE mempool[i]]
  /\ job' = [job EXCEPT ![p] = Idle]
  /\ UNCHANGED <<tick, wallet, allowance, positions, identity, toml, store, wrapped, spent,
                 swept, overlapped, skipped>>

-----------------------------------------------------------------------------
(* mint_position.py *)

\* Three times the gas of wrap, swap, mint and their approvals.
Headroom == 3 * 6 * Cost

\* Mutation of Shortfall: what is held already is not counted.
WholeTotal == Total
Shortfall == IF wallet.wbnb < Total THEN Total - wallet.wbnb ELSE 0

StartMint ==
  /\ job["script"].at = "idle" /\ left.mints > 0
  /\ wallet.native >= Total + Headroom
  /\ ~Collapsed(FreshBand(tick))
  /\ job' = [job EXCEPT !["script"] =
       [Start(IF Shortfall > 0 THEN MintSteps ELSE Tail(MintSteps))
          EXCEPT !.band = FreshBand(tick), !.want = [Nothing EXCEPT !.wbnb = Shortfall]]]
  /\ left' = [left EXCEPT !.mints = @ - 1]
  /\ UNCHANGED <<chainVars, toml, store, ghostVars>>

\* USDT that is held already stands for the swap.
HaveUsdt ==
  /\ At("script", "usdt") /\ wallet.usdt > 0
  /\ job' = [job EXCEPT !["script"].at = "balances", !["script"].todo = SubSeq(@, 4, Len(@))]
  /\ UNCHANGED <<chainVars, toml, store, left, ghostVars>>

\* execute_swap quotes before it approves.
QuoteSwap ==
  /\ At("script", "usdt") /\ wallet.usdt = 0 /\ SwapOut(Total \div 2) > 0
  /\ job' = [job EXCEPT !["script"] =
       [Advance(@) EXCEPT !.floors.usdt = Floor(SwapOut(Total \div 2), SwapSlip)]]
  /\ UNCHANGED <<chainVars, toml, store, left, ghostVars>>

AllowedAlready ==
  /\ job["script"].phase = "run" /\ Allowed("script")
  /\ job' = [job EXCEPT !["script"] = Advance(@)]
  /\ UNCHANGED <<chainVars, toml, store, left, ghostVars>>

\* The floors are those of this moment's price; the approvals come between them and the mint.
ReadBalances ==
  /\ At("script", "balances")
  /\ job' = [job EXCEPT !["script"] =
       [Advance(@) EXCEPT !.want = Balances,
                          !.floors = FloorsOf(job["script"].band, Balances)]]
  /\ UNCHANGED <<chainVars, toml, store, left, ghostVars>>

\* The id is printed and the operator sets it in studio.toml, which the agent reads only while
\* its own store names no position.
SetToken ==
  /\ At("script", "minted")
  /\ toml' = job["script"].token
  /\ job' = [job EXCEPT !["script"] = Idle]
  /\ UNCHANGED <<chainVars, store, left, ghostVars>>

-----------------------------------------------------------------------------
(* migrate_wallet.py --execute *)

\* plan.  The identity is left out when the agent id was neither given nor found: the index
\* that is asked for it forgets an agent after a day or two.
Movable(resolved) ==
  (IF positions[Token].owner = "old" THEN <<"movePosition">> ELSE <<>>) \o
  (IF resolved /\ identity = "old" THEN <<"moveIdentity">> ELSE <<>>)

\* Mutation of MigrateSteps: the coin goes first.
SweepFirst(resolved) == <<"sweep">> \o Movable(resolved) \o <<"verify">>
MigrateSteps(resolved) == Movable(resolved) \o <<"sweep", "verify">>

StartMigrate ==
  /\ job["script"].at = "idle" /\ left.migrations > 0 /\ Token # 0
  /\ \E resolved \in BOOLEAN :
       /\ job' = [job EXCEPT !["script"] = [Start(MigrateSteps(resolved)) EXCEPT !.token = Token]]
       /\ skipped' = (skipped \/ ~resolved)
  /\ left' = [left EXCEPT !.migrations = @ - 1]
  /\ overlapped' = (overlapped \/ job["agent"].at # "idle")
  /\ UNCHANGED <<chainVars, toml, store, late, wrapped, spent, swept>>

NothingToSweep ==
  /\ At("script", "sweep") /\ SweepAmount <= 0
  /\ job' = [job EXCEPT !["script"] = Advance(@)]
  /\ UNCHANGED <<chainVars, toml, store, left, ghostVars>>

Verified ==
  /\ At("script", "verify")
  /\ job' = [job EXCEPT !["script"] = Idle]
  /\ UNCHANGED <<chainVars, toml, store, left, ghostVars>>

-----------------------------------------------------------------------------
(* The agent's rebalance: module Rebalance has its steps.  The swap, which only changes the *)
(* mix, is left out.                                                                        *)

StartPass ==
  /\ job["agent"].at = "idle" /\ left.passes > 0
  /\ Token # 0 /\ positions[Token].owner = "old" /\ positions[Token].liquidity > 0
  /\ job' = [job EXCEPT !["agent"] =
       [Start(<<"withdraw", "remint", "record">>) EXCEPT !.token = Token]]
  /\ left' = [left EXCEPT !.passes = @ - 1]
  /\ overlapped' = (overlapped \/ Migrating)
  /\ UNCHANGED <<chainVars, toml, store, late, wrapped, spent, swept, skipped>>

\* Mutation of Record: the next id is guessed, not read from the receipt.
RecordGuess ==
  /\ At("agent", "record")
  /\ store' = Len(positions) + 1
  /\ job' = [job EXCEPT !["agent"] = Idle]
  /\ UNCHANGED <<chainVars, toml, left, ghostVars>>
\* studio.toml gets the id as well, for a store that would be empty one day.
Record ==
  /\ At("agent", "record")
  /\ store' = job["agent"].token
  /\ job' = [job EXCEPT !["agent"] = Idle]
  /\ UNCHANGED <<chainVars, toml, left, ghostVars>>

Next ==
  \/ Mine \/ PriceMoves
  \/ \E p \in Process : Sign(p) \/ Broadcast(p) \/ Landed(p) \/ Fails(p) \/ Abort(p)
  \/ StartMint \/ HaveUsdt \/ QuoteSwap \/ AllowedAlready \/ ReadBalances \/ SetToken
  \/ StartMigrate \/ NothingToSweep \/ Verified
  \/ StartPass \/ Record

Spec == Init /\ [][Next]_vars

-----------------------------------------------------------------------------
(* Properties. *)

TypeOK ==
  /\ tick \in Live
  /\ wallet \in [native : 0..Native, wbnb : Nat, usdt : Nat]
  /\ allowance \in [Spender -> Nat]
  /\ \A i \in DOMAIN positions :
       positions[i] \in [owner : {"old", "new"}, liquidity : Nat,
                        band : [lower : Tick, upper : Tick]]
  /\ identity \in {"old", "new"} /\ {toml, store} \subseteq 0..Len(positions)
  /\ \A i \in DOMAIN mempool : mempool[i].by \in Process \cup {"nobody"}
  /\ \A p \in Process : /\ job[p].phase \in {"run", "signed", "wait", "landed", "reverted"}
                        /\ job[p].token \in 0..Len(positions)
                        /\ job[p].slot \in 0..Len(mempool) + 1
  /\ {late, swept, overlapped, skipped} \subseteq BOOLEAN

\* However often the script is run again, and whatever fails in between, it wraps no more than
\* it needs to hold Total: the WBNB that left the wallet since, half of the Total after a swap,
\* is all that is wrapped twice.  Not so once a sender has given up on a transaction.
WrapsWhatIsMissing == ~late => wrapped <= Total + spent

\* The comment in mint_position.py: a re-run after a failure resumes instead of wrapping a second
\* time, so that no position is made with more wrapped than the Total it commits.
ResumesWithoutWrapping == positions = <<>> /\ ~late => wrapped <= Total

\* The approvals are exact: no spender may take more than a run of the script commits, nor
\* the router or of the USDT more than the wallet holds, whichever run an approval is from,
\* while the agent leaves the wallet alone and until a sender has given up on a transaction.
\* What the position manager may take of the WBNB can be more than is left: a mint that did
\* not need all of it leaves its approval, and the next run swaps half of its WBNB.
AllowancesCovered ==
  left.passes = MaxPasses /\ ~late =>
    /\ allowance["router"] <= wallet.wbnb
    /\ allowance["npmUsdt"] <= wallet.usdt
    /\ allowance["npmWbnb"] <= Total

\* Once the native coin is swept, which leaves the old wallet no gas to act with, the position
\* that the agent manages is the new wallet's, and so is the identity unless a run of the script
\* did not find it; whatever failed before, but for a pass of the agent during the migration.
SweptLast ==
  swept /\ ~overlapped =>
    /\ positions[Token].owner = "new"
    /\ ~skipped => identity = "new"
=============================================================================
