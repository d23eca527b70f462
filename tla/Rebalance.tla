----------------------------- MODULE Rebalance -----------------------------
(***************************************************************************)
(* strategy.rebalance(): the fund-moving sequence                          *)
(*                                                                         *)
(*     decrease -> collect -> swap -> mint -> verify -> record             *)
(*                                                                         *)
(* run by several callers (the monitor thread, POST /execute, the operator *)
(* command line) that share one wallet, one state store and one flock, on  *)
(* a chain that executes a transaction some time after it was broadcast.   *)
(*                                                                         *)
(* Amounts are units of value: the split of an amount into USDT and WBNB   *)
(* is abstracted, so whether a swap is needed is left open and a swap      *)
(* moves no value.  A position's range is the price level it was centred   *)
(* on, and a rebalance is due when the live price is at another level.     *)
(* The approvals that precede a swap or a mint belong to the step that     *)
(* broadcasts it.                                                          *)
(***************************************************************************)
EXTENDS Integers, Sequences

CONSTANTS
  Caller,     \* threads and processes that call rebalance()
  NoCaller,   \* no caller: the flock is free, nobody awaits a transaction
  Price,      \* levels the pool price can be at
  Principal,  \* value of the position the agent starts with
  Dust,       \* most value a mint can leave in the wallet
  Timeouts,   \* can a receipt wait run into its 180s timeout?
  MaxCalls,   \* bound: calls of rebalance()
  MaxMoves,   \* bound: moves of the price
  MaxFees,    \* bound: units of trading fees earned
  MaxAborts   \* bound: exceptions and process deaths at arbitrary points

ASSUME CallerAssumption == NoCaller \notin Caller
ASSUME PriceAssumption == Price # {}
ASSUME ValueAssumption == Principal \in Nat \ {0} /\ Dust \in Nat
ASSUME BoundAssumption == /\ Timeouts \in BOOLEAN
                          /\ {MaxCalls, MaxMoves, MaxFees, MaxAborts} \subseteq Nat

VARIABLES
  position,  \* the agent's NFTs: liquidity, withdrawn principal, fees, level
  wallet,    \* value in the wallet (USDT + WBNB)
  price,     \* the live price level
  mempool,   \* broadcast transactions that are not mined, in nonce order
  token,     \* the state store's token_id
  books,     \* its rebalance_count, gas_spent_wei, fees_collected_usdt and _bnb
  history,   \* its rebalance history
  lock,      \* holder of the flock
  pc, job,   \* where each caller is, and its local variables
  calls, moves, earned, aborts,       \* how much of each bound is used
  swept, ledger, lost, recorded, clean  \* what happened; only properties read it

chainVars == <<position, wallet, price, mempool>>
storeVars == <<token, books, history>>
countVars == <<moves, earned, aborts>>
ghostVars == <<ledger, lost, recorded, clean>>
vars == <<chainVars, storeVars, lock, pc, job, calls, countVars, swept, ghostVars>>

-----------------------------------------------------------------------------
Nft == [liq : Nat, owed : Nat, fees : Nat, at : Price]

\* gas is counted in mined transactions, each of which costs some.
Books == [count : Nat, gas : Nat, usdt : Nat, bnb : Nat]

Tx == [kind : {"decrease", "collect", "swap", "mint"}, id : Nat, amt : Nat,
       at : Price, by : Caller \cup {NoCaller}]

\* The local variables of rebalance() and _do_rebalance().  base is what load_state
\* returned, adds what the pass adds to it.
Job == [tok : Nat, liq : Nat, fees : Nat, gas : Nat, at : Price, amt : Nat,
        new : Nat, base : Books, adds : Books, receipt : {"none", "ok", "reverted"}]

ZeroBooks == [count |-> 0, gas |-> 0, usdt |-> 0, bnb |-> 0]
Plus(a, b) == [count |-> a.count + b.count, gas |-> a.gas + b.gas,
               usdt |-> a.usdt + b.usdt, bnb |-> a.bnb + b.bnb]
FeesIn(b) == b.usdt + b.bnb

NoJob == [tok |-> 0, liq |-> 0, fees |-> 0, gas |-> 0, at |-> CHOOSE p \in Price : TRUE,
          amt |-> 0, new |-> 0, base |-> ZeroBooks, adds |-> ZeroBooks, receipt |-> "none"]

\* The body of _do_rebalance, which runs under the flock.
Awaiting == {"decreasing", "collecting", "swapping", "minting"}
Critical == Awaiting \cup {"inspect", "fees", "decrease", "collect", "quote", "swap", "requote",
                           "mint", "confirm", "load", "token", "count", "gas", "usdt", "bnb",
                           "history"}

Exists(id) == id \in 1..Len(position)

\* calculate_rebalance_required: the price has left the level of the range.
Required(id) == price # position[id].at

\* get_pending_fees: a simulated collect, so everything the NFT owes.
Pending(id) == position[id].owed + position[id].fees

-----------------------------------------------------------------------------
Init ==
  /\ \E p, q \in Price : /\ position = <<[liq |-> Principal, owed |-> 0, fees |-> 0, at |-> p]>>
                         /\ price = q
  /\ wallet \in 0..Dust
  /\ mempool = <<>>
  /\ token = 1 /\ books = ZeroBooks /\ history = <<>>
  /\ lock = NoCaller
  /\ pc = [c \in Caller |-> "idle"]
  /\ job = [c \in Caller |-> NoJob]
  /\ calls = 0 /\ moves = 0 /\ earned = 0 /\ aborts = 0
  /\ swept = 0 /\ ledger = ZeroBooks /\ lost = ZeroBooks /\ recorded = {1} /\ clean = TRUE

\* The step of c from one place in the code to another, setting its variables.
Step(c, from, to, locals) ==
  /\ pc[c] = from
  /\ pc' = [pc EXCEPT ![c] = to]
  /\ job' = [job EXCEPT ![c] = locals]

\* A step of c that changes nothing but its own variables.
Local(c, from, to, locals) ==
  /\ Step(c, from, to, locals)
  /\ UNCHANGED <<chainVars, storeVars, lock, calls, countVars, swept, ghostVars>>

\* Mutation of Leave: the flock is released also by a caller that does not hold it.
LeaveUnlocking(c) ==
  /\ pc' = [pc EXCEPT ![c] = "idle"]
  /\ job' = [job EXCEPT ![c] = NoJob]
  /\ lock' = NoCaller

\* c leaves rebalance(); the with block releases the flock if c holds it.
Leave(c) ==
  /\ pc' = [pc EXCEPT ![c] = "idle"]
  /\ job' = [job EXCEPT ![c] = NoJob]
  /\ lock' = IF lock = c THEN NoCaller ELSE lock

\* Mutation of Raise: no finally, so an exception leaves the flock held.
RaiseHoldingLock(c) ==
  /\ pc' = [pc EXCEPT ![c] = "idle"]
  /\ job' = [job EXCEPT ![c] = NoJob]
  /\ UNCHANGED <<chainVars, storeVars, lock, calls, moves, earned, swept, ghostVars>>

\* What c's _update has counted and not written: the rows that come after the count.
Unwritten(c) ==
  [count |-> 0,
   gas  |-> IF pc[c] = "gas" THEN job[c].adds.gas ELSE 0,
   usdt |-> IF pc[c] \in {"gas", "usdt"} THEN job[c].adds.usdt ELSE 0,
   bnb  |-> IF pc[c] \in {"gas", "usdt", "bnb"} THEN job[c].adds.bnb ELSE 0]

\* An exception leaves rebalance().  What c has broadcast can still be mined.
Raise(c) ==
  /\ Leave(c)
  /\ mempool' = [i \in DOMAIN mempool |->
                   [mempool[i] EXCEPT !.by = IF @ = c THEN NoCaller ELSE @]]
  /\ clean' = (clean /\ lock # c)
  /\ lost' = Plus(lost, Unwritten(c))
  /\ UNCHANGED <<position, wallet, price, storeVars, calls, moves, earned,
                 swept, ledger, recorded>>

-----------------------------------------------------------------------------
(* The callers: before the flock. *)

ReadToken(c) ==
  /\ calls < MaxCalls
  /\ Step(c, "idle", "summary", [job[c] EXCEPT !.tok = token])
  /\ calls' = calls + 1
  /\ UNCHANGED <<chainVars, storeVars, lock, countVars, swept, ghostVars>>

\* The summary decides; a forced call goes on whatever it says.
ReadSummary(c) ==
  \/ Local(c, "summary", "lock", job[c])
  \/ Local(c, "summary", "idle", NoJob) /\ ~Required(job[c].tok)

\* Mutation of AcquireLock: a lock that does not see the other process.
AcquireUnseen(c) ==
  /\ lock' = c
  /\ Step(c, "lock", "inspect", job[c])
  /\ UNCHANGED <<chainVars, storeVars, calls, countVars, swept, ghostVars>>

AcquireLock(c) ==
  /\ lock = NoCaller
  /\ lock' = c
  /\ Step(c, "lock", "inspect", job[c])
  /\ UNCHANGED <<chainVars, storeVars, calls, countVars, swept, ghostVars>>

\* LOCK_NB: a held flock raises at once.
LockBusy(c) ==
  /\ lock # NoCaller
  /\ Local(c, "lock", "idle", NoJob)

(* The callers: under the flock. *)

\* Mutation of Inspect: part of the liquidity is withdrawn.
InspectPart(c) ==
  Local(c, "inspect", "fees", [job[c] EXCEPT !.liq = position[job[c].tok].liq \div 2])

\* The guards pass, then the position is read.
Inspect(c) ==
  Local(c, "inspect", "fees", [job[c] EXCEPT !.liq = position[job[c].tok].liq])

\* Mutation of ReadFees: the sequence starts at the collect.
ReadFeesNoDecrease(c) ==
  Local(c, "fees", "collect", [job[c] EXCEPT !.fees = Pending(job[c].tok)])

\* The pending fees are read before anything is withdrawn.
ReadFees(c) ==
  Local(c, "fees", IF job[c].liq > 0 THEN "decrease" ELSE "collect",
        [job[c] EXCEPT !.fees = Pending(job[c].tok)])

\* _send: simulate, sign and broadcast; then wait for the receipt.
Send(c, from, to, kind) ==
  /\ Step(c, from, to, job[c])
  /\ mempool' = Append(mempool, [kind |-> kind, by |-> c, at |-> job[c].at,
                  id |-> job[c].tok, amt |-> IF kind = "mint" THEN job[c].amt ELSE job[c].liq])
  /\ UNCHANGED <<position, wallet, price, storeVars, lock, calls, countVars,
                 swept, ghostVars>>

\* Whether the simulation of c's next transaction succeeds.
DecreaseSimulates(c) == position[job[c].tok].liq >= job[c].liq
MintSimulates(c) == job[c].amt > 0 /\ wallet >= job[c].amt

SendDecrease(c) == Send(c, "decrease", "decreasing", "decrease") /\ DecreaseSimulates(c)

SendCollect(c) == Send(c, "collect", "collecting", "collect")

\* The range is centred on the price read now, the amounts are the balances.
Quote(c) ==
  \E next \in (IF wallet > 0 THEN {"swap", "mint"} ELSE {"mint"}) :
     Local(c, "quote", next, [job[c] EXCEPT !.at = price, !.amt = wallet])

SendSwap(c) == Send(c, "swap", "swapping", "swap")

Requote(c) == Local(c, "requote", "mint", [job[c] EXCEPT !.amt = wallet])

SendMint(c) == Send(c, "mint", "minting", "mint") /\ MintSimulates(c)

\* "transaction would revert, not sending".
Refused(c) ==
  /\ \/ pc[c] = "decrease" /\ ~DecreaseSimulates(c)
     \/ pc[c] = "mint" /\ ~MintSimulates(c)
  /\ Raise(c)
  /\ UNCHANGED aborts

\* Mutation of After: what decrease freed is never collected.
AfterNoCollect(step) == CASE step \in {"decreasing", "collecting"} -> "quote"
                          [] step = "swapping"   -> "requote"
                          [] OTHER               -> "confirm"

\* Where a confirmed transaction takes the sequence.
After(step) == CASE step = "decreasing" -> "collect"
                 [] step = "collecting" -> "quote"
                 [] step = "swapping"   -> "requote"
                 [] OTHER               -> "confirm"

\* Mutation of Confirmed: the fees are read after the decrease, not before.
ConfirmedReadsFees(c) ==
  /\ pc[c] \in Awaiting
  /\ job[c].receipt = "ok"
  /\ Local(c, pc[c], After(pc[c]), [job[c] EXCEPT !.gas = @ + 1, !.receipt = "none",
        !.fees = IF pc[c] = "decreasing" THEN Pending(job[c].tok) ELSE @])

Confirmed(c) ==
  /\ pc[c] \in Awaiting
  /\ job[c].receipt = "ok"
  /\ Local(c, pc[c], After(pc[c]), [job[c] EXCEPT !.gas = @ + 1, !.receipt = "none"])

Reverted(c) ==
  /\ pc[c] \in Awaiting
  /\ job[c].receipt = "reverted"
  /\ Raise(c)
  /\ UNCHANGED aborts

TimedOut(c) ==
  /\ Timeouts
  /\ pc[c] \in Awaiting
  /\ job[c].receipt = "none"
  /\ Raise(c)
  /\ UNCHANGED aborts

\* Mutation of Verify: a mint without a readable token_id counts as done.
VerifyAnyId(c) == Local(c, "confirm", "load", job[c])

\* verify_position only reports; an unreadable token_id raises.
Verify(c) == job[c].new # 0 /\ Local(c, "confirm", "load", job[c])

Unreadable(c) ==
  /\ pc[c] = "confirm" /\ job[c].new = 0
  /\ Raise(c)
  /\ UNCHANGED aborts

\* load_state, and what the pass adds: the fees are collected in both tokens.
Load(c) ==
  \E part \in 0..job[c].fees :
     Local(c, "load", "token", [job[c] EXCEPT !.base = books,
       !.adds = [count |-> 1, gas |-> job[c].gas, usdt |-> part, bnb |-> job[c].fees - part]])

\* Mutations of WriteToken: the old id is written; the id is written nowhere.
WriteOldToken(c) ==
  /\ Step(c, "token", "count", job[c])
  /\ token' = job[c].tok
  /\ recorded' = recorded \cup {token'}
  /\ UNCHANGED <<chainVars, books, history, lock, calls, countVars, swept, ledger, lost, clean>>
WriteNoToken(c) ==
  Local(c, "token", "count", job[c])

\* _update is one INSERT per field, each committed by itself, token_id first.
WriteToken(c) ==
  /\ Step(c, "token", "count", job[c])
  /\ token' = job[c].new
  /\ recorded' = recorded \cup {token'}
  /\ UNCHANGED <<chainVars, books, history, lock, calls, countVars, swept,
                 ledger, lost, clean>>

\* One row of the totals: what was loaded, and what the pass adds.
WriteRow(c, from, to, written) ==
  /\ Step(c, from, to, job[c])
  /\ books' = written
  /\ UNCHANGED <<chainVars, token, history, lock, calls, countVars, swept,
                 lost, recorded, clean>>

\* rebalance_count; last_rebalance, a time that nothing is computed from, comes with it.
WriteCount(c) ==
  /\ WriteRow(c, "count", "gas", [books EXCEPT !.count = job[c].base.count + job[c].adds.count])
  /\ ledger' = Plus(ledger, job[c].adds)

WriteGas(c) ==
  /\ WriteRow(c, "gas", "usdt", [books EXCEPT !.gas = job[c].base.gas + job[c].adds.gas])
  /\ UNCHANGED ledger

WriteUsdt(c) ==
  /\ WriteRow(c, "usdt", "bnb", [books EXCEPT !.usdt = job[c].base.usdt + job[c].adds.usdt])
  /\ UNCHANGED ledger

WriteBnb(c) ==
  /\ WriteRow(c, "bnb", "history", [books EXCEPT !.bnb = job[c].base.bnb + job[c].adds.bnb])
  /\ UNCHANGED ledger

\* Mutation of AppendHistory: the entry is not written.
AppendNothing(c) ==
  /\ pc[c] = "history"
  /\ Leave(c)
  /\ UNCHANGED <<chainVars, storeVars, calls, countVars, swept, ghostVars>>

\* append_history and _persist_token_id, which never raises; then the return.
AppendHistory(c) ==
  /\ pc[c] = "history"
  /\ history' = Append(history, [from |-> job[c].tok, to |-> job[c].new])
  /\ Leave(c)
  /\ UNCHANGED <<chainVars, token, books, calls, countVars, swept, ghostVars>>

\* Any read, send or write of an open call can raise; its process can die.
Abort(c) ==
  /\ pc[c] # "idle"
  /\ aborts < MaxAborts
  /\ aborts' = aborts + 1
  /\ Raise(c)

-----------------------------------------------------------------------------
(* The chain. *)

\* A mined transaction leaves the mempool; whoever still waits gets its receipt,
\* and for a mint the id in its Transfer log.
Mined(outcome, id) ==
  /\ mempool' = Tail(mempool)
  /\ job' = [c \in Caller |->
               IF c = Head(mempool).by
               THEN [job[c] EXCEPT !.receipt = outcome, !.new = id] ELSE job[c]]
  /\ UNCHANGED <<price, storeVars, lock, pc, calls, countVars, ghostVars>>

MineDecrease(t) ==
  /\ t.kind = "decrease" /\ position[t.id].liq >= t.amt
  /\ position' = [position EXCEPT ![t.id].liq = @ - t.amt, ![t.id].owed = @ + t.amt]
  /\ Mined("ok", 0)
  /\ UNCHANGED <<wallet, swept>>

MineCollect(t) ==
  /\ t.kind = "collect"
  /\ position' = [position EXCEPT ![t.id].owed = 0, ![t.id].fees = 0]
  /\ wallet' = wallet + Pending(t.id)
  /\ swept' = swept + position[t.id].fees
  /\ Mined("ok", 0)

MineSwap(t) ==
  /\ t.kind = "swap"
  /\ Mined("ok", 0)
  /\ UNCHANGED <<position, wallet, swept>>

\* The pool takes the amounts in its own ratio and leaves the rest.  The log
\* that names the NFT may be unreadable: id 0.
MineMint(t) ==
  /\ t.kind = "mint" /\ wallet >= t.amt
  /\ \E left \in 0..Dust :
       /\ left < t.amt
       /\ position' = Append(position,
            [liq |-> t.amt - left, owed |-> 0, fees |-> 0, at |-> t.at])
       /\ wallet' = wallet - (t.amt - left)
  /\ \E id \in {0, Len(position) + 1} : Mined("ok", id)
  /\ UNCHANGED swept

\* A slippage floor, a deadline, or state that changed since the simulation.
MineRevert(t) ==
  /\ Mined("reverted", 0)
  /\ UNCHANGED <<position, wallet, swept>>

Mine ==
  /\ mempool # <<>>
  /\ LET t == Head(mempool)
     IN  MineDecrease(t) \/ MineCollect(t) \/ MineSwap(t) \/ MineMint(t) \/ MineRevert(t)

EarnFees ==
  /\ earned < MaxFees
  /\ \E id \in 1..Len(position) :
       /\ position[id].liq > 0 /\ position[id].at = price
       /\ position' = [position EXCEPT ![id].fees = @ + 1]
  /\ earned' = earned + 1
  /\ UNCHANGED <<wallet, price, mempool, storeVars, lock, pc, job, calls, moves, aborts,
                 swept, ghostVars>>

PriceMoves ==
  /\ moves < MaxMoves
  /\ price' \in Price \ {price}
  /\ moves' = moves + 1
  /\ UNCHANGED <<position, wallet, mempool, storeVars, lock, pc, job, calls, earned, aborts,
                 swept, ghostVars>>

-----------------------------------------------------------------------------
\* What c does once it was called, up to its return.
Progress(c) ==
  \/ ReadSummary(c) \/ AcquireLock(c) \/ LockBusy(c) \/ Inspect(c) \/ ReadFees(c)
  \/ SendDecrease(c) \/ SendCollect(c) \/ Quote(c) \/ SendSwap(c) \/ Requote(c)
  \/ SendMint(c) \/ Refused(c) \/ Confirmed(c) \/ Reverted(c) \/ TimedOut(c)
  \/ Verify(c) \/ Unreadable(c) \/ Load(c) \/ WriteToken(c) \/ WriteCount(c)
  \/ WriteGas(c) \/ WriteUsdt(c) \/ WriteBnb(c) \/ AppendHistory(c)

Next ==
  \/ \E c \in Caller : ReadToken(c) \/ Progress(c) \/ Abort(c)
  \/ Mine \/ EarnFees \/ PriceMoves

Spec == Init /\ [][Next]_vars

\* A thread that was called runs on.  Nothing is assumed of the chain: a
\* transaction may never be mined, and then its wait runs into the timeout.
FairSpec == Spec /\ \A c \in Caller : WF_vars(Progress(c))

-----------------------------------------------------------------------------
\* What is recorded of the pass that holds the flock.
Recorded == IF lock = NoCaller THEN "free"
            ELSE CASE pc[lock] = "count" -> "repointed"
                   [] pc[lock] \in {"gas", "usdt", "bnb", "history"} -> "counted"
                   [] OTHER -> "moving"

Flight == INSTANCE SingleFlight
            WITH holder <- lock, stage <- Recorded, managed <- token, count <- books.count

-----------------------------------------------------------------------------
(* Properties. *)

\* The variables have their types, and every NFT that the agent, a caller or a
\* transaction in flight refers to exists.
TypeOK ==
  /\ position \in Seq(Nft)
  /\ wallet \in Nat /\ price \in Price
  /\ mempool \in Seq(Tx)
  /\ Exists(token) /\ books \in Books /\ history \in Seq([from : Nat, to : Nat])
  /\ lock \in Caller \cup {NoCaller}
  /\ pc \in [Caller -> Critical \cup {"idle", "summary", "lock"}]
  /\ job \in [Caller -> Job]
  /\ {calls, moves, earned, aborts, swept} \subseteq Nat
  /\ {ledger, lost} \subseteq Books /\ recorded \subseteq Nat /\ clean \in BOOLEAN
  /\ \A i \in DOMAIN mempool : Exists(mempool[i].id)
  /\ \A c \in Caller : pc[c] # "idle" => Exists(job[c].tok)
  /\ \A c \in Caller : job[c].new # 0 => Exists(job[c].new)
  /\ \A c \in Caller :
       pc[c] \in {"load", "token", "count", "gas", "usdt", "bnb", "history"} => job[c].new # 0

\* Only the holder of the flock is inside the fund-moving sequence, so no two
\* callers ever are (strategy._rebalance_lock).
OneMover == \A c \in Caller : pc[c] \in Critical => lock = c

\* rebalance() is single-flight: passes do not overlap, each moves the store on to a
\* younger NFT at most once, and is counted at most once, after that.
ImplementsSingleFlight == Flight!Spec

\* No pass overwrites what another added, though each reads the totals in one step and
\* writes them in later ones (_do_rebalance's load_state and _update).  Every counted pass
\* is in the totals, but for the rows that a pass which died inside its _update had still
\* to write.
NoLostUpdate ==
  /\ books.count = ledger.count
  /\ lock = NoCaller => Plus(books, lost) = ledger
  /\ aborts = 0 => lost = ZeroBooks

\* A pass points the store at its new NFT only when the NFT it started from
\* holds neither liquidity nor withdrawn principal, whatever failed, timed out
\* or was mined late before.
EmptiedBeforeRepointed ==
  [][\A c \in Caller : pc[c] = "token" /\ pc'[c] = "count" =>
       position[job[c].tok].liq = 0 /\ position[job[c].tok].owed = 0]_vars

\* While no pass has failed half way, the managed NFT is funded whenever nobody
\* is rebalancing it: a rebalance never ends with the funds out of the pool.
CleanPassLeavesFunded == clean /\ lock = NoCaller => position[token].liq > 0

\* While no pass has failed half way, the fees booked are at most the fees that
\* collect swept: principal is never booked as fee income.
CleanFeesNotOverbooked == clean => FeesIn(books) <= swept

\* The history trails the count by at most one entry per pass that died between
\* the two writes (and the one being written), and is never ahead of it.
HistoryAccountsForCount ==
  /\ Len(history) <= books.count
  /\ books.count <= Len(history) + aborts + (IF lock = NoCaller THEN 0 ELSE 1)

\* The flock is always released: every pass comes to an end, by its return, a
\* revert, or the timeout of a receipt that never comes.
LockReleased == \A c \in Caller : lock = c ~> lock # c

\* The store stops pointing at an NFT only when that NFT is empty: the funds the
\* agent manages are never left behind.
NeverAbandonFunded ==
  [][token' # token => position[token].liq = 0 /\ position[token].owed = 0]_vars

\* An NFT the store once pointed at holds liquidity only as long as it does: any
\* other funded NFT was minted by a pass that never recorded it.
FundedIsManagedOrUnrecorded ==
  \A id \in recorded : position[id].liq > 0 => id = token

\* No pass works on an NFT that an earlier one replaced.
HistoryNeverGoesBack ==
  \A i \in 1..Len(history), k \in 1..Len(history) :
     i < k => history[i].to <= history[k].from

\* Booked fees are fees that collect swept, also after a pass that failed.
FeesNotOverbooked == FeesIn(books) <= swept

=============================================================================
