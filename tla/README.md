# Verification of the BNB LP Range Rebalancer

TLA+ models of the program in `src/`, the TLC runs that check them on small instances, and
TLAPS proofs of what matters most for every value of the constants. Paths below are relative
to `src/bnbLpRangeRebalancer/app/agent/` unless they start with `service/` (`app/service/`) or
`deploy/`. `PROJECT.json` maps every definition to its lines.

## The system

An autonomous agent manages one PancakeSwap V3 liquidity NFT. When the pool price leaves the
NFT's range it withdraws the liquidity, swaps to an even split, mints a new NFT around the live
price and records it. The same agent sells work to buyers over ERC-8183: it signs quotes, and
delivers jobs that were funded on chain.

| Component | State | Operations | Hard about it |
| --- | --- | --- | --- |
| Rebalance sequence (`strategy.py` 537-708, `lp_signing.py`, reads of `blockchain.py`) | the chain, the flock file, the pass's local variables | `rebalance`: read, lock, decrease, collect, swap, mint, verify, record | several processes; four transactions, each of which can revert, time out, or be mined after its caller gave up; crash between any two; retries |
| Monitor loop and control routes (`strategy.py` 223-310, 711-767; `service/api.py` 282-321; boot in `main.py`, `service/main.py`) | status, fee samples, loop threads, failure counts | poll, check, sample, back off; activate, pause, execute; start a loop | status read once per pass; loops in two processes; check-then-act on samples and threads |
| State store (`state_store.py`, `strategy.py` 59-164) | SQLite tables scalars, history, snapshots | import, load, update, append | autocommit: every statement is its own transaction; processes share the file; crash inside an operation |
| Seller core (`seller_core.py`, `signing.py`, the deliverable route of `main.py`) | live tasks, jobs in flight, stored manifests | notify, sweep, deliver, time out | asyncio tasks beside worker threads that cannot be cancelled; stale lists; restarts forget what is in flight |
| Range, liquidity and value arithmetic (`blockchain.py`) and risk guards (`risk.py`) | none | ticks, snapping, ranges, utilisation, liquidity, floors | boundaries of ticks, prices that fall as ticks rise, rounding, floors that are read long before the mint |
| Bootstrap and migration (`mint_position.py`, `migrate_wallet.py`, `_send` of `lp_signing.py`) | the wallet, its allowances and nonces | wrap, approve, swap, mint; move the NFTs, sweep | re-runs after a failure half way; transactions mined after their sender gave up; a nonce shared with the agent |
| Quant monitor (`deploy/quant/monitor.mjs`) | a JSON ledger beside the client's account | read the signal, decide, size, check the impact, trade, save | crash between a trade and the ledger; a signal that is old when it is used; caps over a sliding day |
| Read API, dashboard, Termix client (`service/`) | a cached token | reads | none that moves funds |
| Boot, card, tools, model client; deployment | none | wiring | none |

The monitor and `POST /execute` call the rebalance sequence; it, the monitor and the routes
share the store; the agent and the service are two processes on one host that share the
database file and the flock; the operator's command line is a third. The seller shares with
them the process and the wallet. The operator's scripts send from that wallet too. The quant
monitor reads the agent's `/status` and never writes to it. `PROJECT.json` lists every component, modelled or not, and
under `hazards` what is hard to test, each at its line.

## Modules

| Module | Models |
| --- | --- |
| `SingleFlight` | what `rebalance()` promises its callers: one pass at a time, which records nothing, the new NFT, or the new NFT and its accounts |
| `Rebalance` | the fund-moving sequence by several callers on an asynchronous chain; implements `SingleFlight` |
| `Monitor` | the polling loops, pause and activate, fee samples, backoff |
| `StateStore` | the statements of the store's operations, interleaved and interrupted |
| `Seller` | deliveries of funded jobs |
| `RangeMath` | ticks, ranges, the rebalance decision, liquidity, floors, as operators over a price table |
| `Quant` | one client session of the quant monitor, over the band that the agent re-ranges; extends `RangeMath` |
| `Bootstrap` | the operator's scripts and a pass of the agent, sending from one wallet; extends `RangeMath` |
| `RebalanceProofs`, `RebalanceFundProofs`, `MonitorProofs`, `StateStoreProofs`, `SellerProofs`, `RangeMathProofs`, `QuantProofs`, `BootstrapProofs` | theorems |
| `MC...` | instances for TLC: symmetry, price tables |

### Rebalance

`position` holds the agent's NFTs (liquidity, withdrawn principal that is still owed, fees,
the price level they are centred on), `wallet` the value outside, `mempool` the broadcast
transactions in nonce order, `token`, `books` and `history` the store, `lock` the flock, `pc`
and `job` where each caller is and its local variables. Each line of the sequence that reads or
writes shared state is an action: `ReadToken` and `ReadSummary` before the flock,
`AcquireLock` or `LockBusy` (LOCK_NB raises), then `Inspect`, `ReadFees`, one `Send` action per
transaction, `Confirmed`, `Reverted` or `TimedOut` for its receipt, `Verify`, `Load`,
`WriteToken`, `WriteCount`, `WriteGas`, `WriteUsdt`, `WriteBnb`, `AppendHistory`: each row of `_update`
commits by itself, in the order of its keys, and how the fees of a pass split into the two tokens is
left open. `ledger` is what all passes counted and `lost` the rows that passes which died inside `_update`
had not written. `Abort` is an exception or a process death at any
point; `Raise` releases the flock and leaves the broadcast transactions in the mempool, awaited by
nobody. The chain executes the head of the mempool, with success or a revert.

Abstracted: amounts are units of value, so a swap moves none; whether one is needed is left
open, as is what a mint leaves in the wallet (`Dust`). Approvals belong to the step that sends
what they are for. The reads of one stretch of code in which nothing the model
distinguishes can change are one step. A transaction that was broadcast is never dropped, only delayed for ever.
`_persist_token_id` never raises and its file is not read while the store has an id.

### Monitor

A pass of `_loop` is `Wake` (the status, then `check`'s chain reads), `ReadGap`, `Insert`,
`Prune` (the rate limit and the two statements of `append_snapshot`), and `Begin`/`End` or
`NotBegun`. Time is discrete and relative: a sample, a clock reading and a wait are stored as
the ticks since or until then, so the model runs for ever in finitely many states. The
rebalance itself is reduced to holding the flock: `Rebalance` has the detail. Routes are
`Activate`, `Look`, `StartLoop` (the two halves of `start_monitor`), `Pause`, `Execute`. A sample
enters the table at the place its age has among the others, as the reads order by time. `Crowd`, which
only a property uses, is the number of loops of the larger process: what one crash can stop between
INSERT and DELETE.

### StateStore

The connection has `isolation_level=None` and nothing issues BEGIN, so every INSERT commits by
itself. `todo[p]` is the list of statements that the operation of process p has left;
`Execute` takes one. `Raise` and `Crash` drop the rest. A record stands for the fields that
matter together: status, token id, count. The rows of gas and fees, each a statement of its own too, are in `Rebalance`.

### Seller

`runs[j]` are the deliveries of job j, each at a place in `verify, work, check, upload, send,
wait`, and marked `awaited` while its task lives. `Timeout` ends the wait: before the submit it
ends the delivery, from `check` on the worker thread goes on alone. `SpawnJobs` is the dedup on
`_inflight`. Chain: `Fund`, and `Mine`, which accepts one submit per funded job. The SDK is not
in the repository: its steps (verify the job, upload the manifest, send) follow from the
docstrings and calls in `signing.py` and from the route that serves the file. Left out:
`negotiate` (a pure signed reply), `settle`, and the permanent skip of a wallet that cannot submit;
a job has one notification being pre-verified at a time.

### RangeMath

`PriceAt` is a table of the price of each tick, `SqrtAt` one of sqrt ratios in fixed point; what
the code computes with `1.0001 ** tick` is a lookup. Assumed of the table: prices are positive
and fall as the tick rises (token0 of the pool is USDT, so `price_range_to_ticks` swaps the
bounds); in `Quant` also that no tick is missing, that the table reaches past every band, and how close its
prices are. `TickOf` is `price_to_tick`, which rounds the logarithm: the nearest tick as a ratio,
stated by products, without a logarithm. Percentages are integers in hundredths; the floats of the code are the
reals they stand for, so their rounding is not modelled. `Amount0`, `Amount1`, `Liquidity0`,
`Liquidity1` round down where the code does.

### Quant

One session of `monitor.mjs --live --loop`. A pass is `ReadSignal` (one reading for all sessions),
`Hold` or `Decide`, `ImpactBelowCeiling`, `Buy` or `Sell`, `Save`; `PassFails` is an exception, or
an order held back by the impact ceiling. `ledger` is the JSON file, `account` what the chain
knows. `Total` adds up the spending of the last day, age by age (`Upto`). `Lands(FALSE, ...)` is a trade whose answer is lost (the skill dies, or 180s are over),
`LedgerLost` a file that does not parse, which `loadState` replaces by an empty one. Around it the
price moves, the agent re-ranges, time passes by units of hours, the client revokes. `clean` says
that the ledger agrees with the account; the guarantees on money rest on it.

### Bootstrap

`job` is where a process is in its list of steps and in `_send`: `Sign` reads the pending nonce,
checks the gas and simulates, `Broadcast` uses that nonce, which may by then be that of another
transaction that waits (it is replaced) or of one that was mined (`Fails`). `Mine` executes the
head of the mempool at the price of that moment. An entry of the mempool is a transaction `tx` and who
waits for it, `by`; a transaction that nobody waits for may be mined after its deadline (`MayExpire`). `Abort` leaves the transaction in the mempool with nobody waiting for it.
`mint_position.py` is `StartMint` to `SetToken`, the operator's edit of `studio.toml` included;
`migrate_wallet.py --execute` is `StartMigrate` to `Verified`; a pass of the agent is withdraw,
remint and record (`Rebalance` has its steps), with its approvals part of the mint.

`toml` is the token id of the file and `store` that of the database; `Token` is the one that counts:
the file's only while the store has none, so a second mint does not repoint an agent that has recorded
a pass. The table of token ids per network, which precedes the flat id, is taken as that id. The agent sees an
edit when it is restarted, which is taken to follow it. `MigrateSteps(resolved)` is the plan of a migration that found
the agent's id, or did not: the identity's item is then `SKIP`, neither moved nor blocking, and
`skipped` remembers it. Left out: `--skip-native` (a run that aborts before the sweep stands for it), dry runs, and
the refusals before anything is sent (`NOT OURS`, a new address that is a contract).

## Runs

| Run | Instance | Shows |
| --- | --- | --- |
| `rebalance_two` | two callers, three calls, one fault, one unit of fees, timeouts | exclusion, no lost update, books short by no more than the rows of passes that died inside `_update`, history consistent with the count, the store is repointed only away from an emptied NFT, a pass that did not fail leaves the position funded; `SingleFlight` is implemented |
| `rebalance_one` | one caller, three calls, the price moves once, one fault, timeouts | with one caller no funded NFT is ever left behind, the history is a chain, the flock is always released |
| `rebalance_stale` | two callers, two calls, no fault | violated: `NeverAbandonFunded` |
| `rebalance_retry` | one caller, one fault | violated: `FeesNotOverbooked` |
| `monitor` | a loop in the agent, one that `/activate` starts in the service, one request thread, one fault | after a pause only passes under way begin a rebalance; samples of a loop keep their distance, their number is bounded, a single loop covers the 24h window; failures are spaced by the backoff |
| `store` | two processes, two records, two commands, one fault, a legacy file | an import without a fault or an overlap is complete and happens once; commands and totals survive concurrent writes; what a reader and a crash can see |
| `store_import` | one process, one fault | violated: `ImportedOnce` |
| `seller` | two jobs, one not signed by us, two notifications, one fault or restart, timeouts | one delivery at a time, none after success, none without our signature, the manifest served is the one anchored, `is_busy` ends |
| `seller_timeout` | one job, two notifications | violated: `ServedAsSubmitted` |
| `quant` | a session three times as long as its daily window, three prices, one fault | while the ledger agrees with the account, the daily cap and the minimum hold are kept and an ending session is flattened; a fresh band calls for no other |
| `bootstrap` | two runs of each script, one pass of the agent, one fault, one price move | a re-run wraps no more than the total and what was swapped or deposited since, what earlier runs approved stays covered by the wallet, the gas leaves the old wallet last: the position is then the new one's, and so is the identity unless it was skipped |
| `bootstrap_rerun` | two runs of the mint, one fault | violated: `ResumesWithoutWrapping` |

The violated properties are what a comment or docstring says; `findings` in `PROJECT.json` quotes it:

1. `rebalance()` reads the token id before it takes the flock. A second caller can act on an NFT
   that the first pass emptied, mint the dust it finds, and point the store at that.
2. A retry after a failed pass reads the withdrawn principal as fees and books it.
3. An import that fails half way is taken for complete; the agent can come up active on the
   bootstrap token id.
4. A delivery that timed out goes on in its thread; the next one replaces the manifest of the
   submit that is then mined.
5. A re-run of `mint_position.py` does not resume without wrapping a second time (its lines 108-109): once the
   swap has landed, half of the WBNB is gone from the wallet, and lines 115-121 wrap that half again.

The passing runs of the same modules state what holds nevertheless, and on what condition:
`clean` (no pass failed half way, no import was interrupted or overlapped, the ledger agrees with
the account), `adrift` (no submit was given up on while it ran), `late` (no sender gave up on a
transaction that is in the mempool), `overlapped` (no pass of the agent during a migration), `skipped` (every
migration found the agent's id), one caller, or one loop. Properties named `Clean...` are
those that fail without their condition.

What the models also show of the code, without a run of its own:

- `POST /activate` starts a second monitor beside the agent's (`service/main.py:12-14` runs none
  by default): the flock keeps them apart, `rebalance_stale` shows how far.
- `range_utilization` is the distance from the centre of the band (`blockchain.py:645`), not the
  position in it (`deploy/quant/monitor.mjs:8-14`): the quant monitor buys in the centre, and sells near
  the lower bound as well as near the upper. `RangeUtilizationPct` is what the code computes.
- The rows of `_update` commit one by one, though `update` says "in one transaction" (`state_store.py:112`).
  A pass that dies between them is counted without all of its gas and fees, and the next pass adds to the
  totals as they are: `NoLostUpdate` says that nothing else goes missing.
- The import's guard and its inserts are not one transaction: two processes that boot together on an empty
  database both import, and the legacy history is in it twice, which `strategy.py:107-108` rules out. The
  `store` run takes these steps; `clean` exempts them.
- A transaction that is mined after its 180s are over: a re-run of `mint_position.py` does not see the deposit that
  waits in the mempool and wraps the amount again, and both are mined. `late` exempts it.
- A migration that finds no agent id (the indexer has forgotten the agent, `migrate_wallet.py:125-127`)
  moves the position, sweeps the coin and leaves the identity with the old wallet, which then cannot
  pay for moving it; `main` prints OK for it (270). `skipped` is that case, and `SweptLast` does not
  promise the identity in it.
- `strategy.py:198` keeps 500 samples that are at least 300s apart, so the window of 30 days that
  the report waits for is never full; the 24h window is (`DayCovered`).
- Outside its range a position's utilisation is above 100 and grows with the distance, not "pinned
  at 0 or 100" (`deploy/quant/monitor.mjs:134-136`); what makes the loop stand down is `in_range`.
- Flattening "outranks every other rule" (`monitor.mjs:191`) inside `decide` only: the impact ceiling, a
  `/status` that does not answer, or an exception of an earlier session of the same pass can
  keep an ending session from selling. `CleanClosedIsFlat` speaks of passes that went through.
- `toFixed(8)` rounds to the nearest (`monitor.mjs:263`): the amount to sell may be above what
  is held, and the account refuses it until the session ends.
- In `mint_position.py` any USDT in the wallet stands for the whole swap; a re-run after a success mints a
  second position, which an agent that has recorded a pass does not manage. The mint commits the whole balance of the wallet, principal that a rebalance has withdrawn included.
- `migrate_wallet.py` leaves the wallet's WBNB and USDT behind, does not take the flock, and its
  last step reads the store again rather than the id that it moved.

### Bounds

Every bound is a constant, described where it is declared. Two callers and three calls let a
stale caller, a retry and a late receipt meet; a third caller adds no role, as a caller is
either inside the flock, before it, or gone. `rebalance_one` adds the price move that
`rebalance_two` leaves out for size. One fault is enough for a failed pass followed by two
more. In `Monitor`, `Keep`, `Gap` and `Day` are in the order of the configured values
(`KeepAssumption`: 499 x 300s is over a day), `Horizon` is past
every distance the properties compare, the top of the backoff is reached. Two notifications give
each job up to four deliveries. Two records let a reader and the writes of both processes
interleave twice. `MaxDelay` lets the clock tick once between a loop's reading and its INSERT
(SQLite waits for at most 30s, less than a poll period).

In `Quant` a day is two units, the hold one, the exit buffer two and the session six: spending
leaves the daily window and the cap binds again before the buffer begins. Allocation 4, cap 3 and entries of 2
let the cap cut the second entry short; the ticks 0, 3 and 4 are a price in the centre of a band, one near its
bound and one past the trigger. `Grain` 3 against a quote of 4 makes the rounding visible. In
`Bootstrap`, 20 units to commit out of 140 leave gas for two runs of the mint at two units a contract
call (a plain transfer costs one: `GasAssumption`); one move of the price
is enough to make floors or quotes fail, one fault to make a re-run meet a late transaction. Its
sqrt ratios are in thousandths.

Deadlock is checked where the system runs for ever (`monitor`, `store`); the runs of `Rebalance`,
`Seller` and `Bootstrap` stop when their bounds are used up, that of `Quant` when the session
is over.

### Fairness

`rebalance_one`: a thread that was called runs on (`WF(Progress(c))`). Nothing is assumed of
the chain: a transaction that is never mined runs into the 180s receipt timeout, which is what
`LockReleased` rests on. `seller`: the event loop takes a
turn while it has one to take, timers included (`WF(Turn)`, one condition for all of its handlers:
no handler is promised a turn before another); the LLM, the RPC node, worker threads and chain
may hang, which is what the three timeouts are for. The other runs check safety only.

## Proofs

All theorems hold for any values of the constants that satisfy the named assumptions of the
module they are about. Each rests on an inductive invariant, named in the module, which TLC checked
on the instance of the run before it was proved. Every invariant and every action property of a passing run is
proved, and so is the refinement.

`RebalanceProofs`, for any set of callers and prices and any bounds, from the named assumptions
of `Rebalance` (`NoCaller` is not a caller, there is a price level, `Principal` is positive,
the bounds are naturals):

- `MutualExclusion` (`OneMover`): inductive as `LockInv`, each caller inside the sequence holds
  the flock; the flock is released only on the way out.
- `TypeCorrect` (`TypeOK`): not inductive alone. A late receipt could set `new` to an id of a
  mint that a caller no longer waits for; the strengthening says that a transaction that names a caller in
  `by` is the one it awaits, that at most one does (`OneWaiter`), and what each place in the
  sequence knows of its local variables (`JobOK`).
- `BooksAddUp` (`NoLostUpdate`): by `BooksInv`. The totals in the store, the rows that passes which died inside
  `_update` lost, and those that the holder of the flock has still to write (`Owed`) add up to what was counted;
  from `Load` until a row is written the total a caller read for it is the one in the store, as only the holder of the
  flock writes them. Without an abort nothing is lost.
- `Refinement`: `Spec => ImplementsSingleFlight`, each step maps to a step of `SingleFlight` or
  a stutter. That `Repoint` moves to a younger NFT needs `FreshInv`: until it is recorded, the
  NFT a pass has minted is younger than the one the store points at, and a caller outside the
  sequence has none.

`RebalanceFundProofs` goes on from there:

- `EmptiedFirst` (`EmptiedBeforeRepointed`): by `FundsInv`. Liquidity only ever leaves an NFT, and
  the transaction a pass awaits is the one its step sent, so a decrease by what was read leaves
  none and the collect after it leaves nothing owed, however many late transactions are mined between.
- `HistoryAccounts` (`HistoryAccountsForCount`): by `CountInv`. An entry is missing only while the
  holder of the flock is between `WriteCount` and `AppendHistory`, or after it died there.
- With one caller (`OneCaller`: one monitor, and nobody uses the command line or the routes):
  `NothingAbandoned` (`NeverAbandonFunded`), `FundedIsManaged` (`FundedIsManagedOrUnrecorded`) and
  `HistoryMovesOn` (`HistoryNeverGoesBack`). `TokInv`: the token id that was read before the flock was
  taken is still the store's, and once the store is repointed it is the NFT the pass minted.
  `rebalance_stale` shows that this is what a second caller breaks. `HistoryInv`: no entry leads to an NFT
  younger than the managed one, nor than the one the open pass will name as its origin.
- For any callers while no pass has failed half way: `CleanLeavesFunded` (`CleanPassLeavesFunded`) and
  `CleanFeesBooked` (`CleanFeesNotOverbooked`), by `CleanInv`: what the holder of the flock has read, sent
  and collected says where the principal is at each place of the sequence, and what it will book as fees
  was swept since the last booking. `rebalance_retry` shows what a failed pass makes of it.

`SellerProofs`, for any jobs and notifications: `OneDelivery` (`SoleDelivery`), `TasksAreClaimed`
(`ClaimedWhileAwaited`), `SuccessEndsIt` (`SuccessIsFinal`), `UnsignedIsIdle` (`OnlySignedIsWorked`)
and `AnchoredIsServed` (`DeliveredAsStored`). The invariant: the awaited deliveries of a job are at most one
and it is in `_inflight` while there is one; a submit in the mempool that nobody gave up on is there once and
has its delivery waiting; what was uploaded by a delivery that sends is what is stored. `TypeCorrect`
(`TypeOK`) needs more for its bound on deliveries, since a job can be in the handler of its
notification, in the sweep that the handler starts and in lists of earlier sweeps at once. `Budget`: the
deliveries of a job, and what can still start one (sweeps to begin, lists that were read, notifications that are
being verified, the job's own once more), are at most two per notification.

`MonitorProofs`, for any loops, requests and delays: `PauseIsObeyed` (`PausedOnlyFinishes`): after a pause
every loop in the middle of a pass was so when it was written (`Caught`). `BackoffIsKept`
(`BackoffSpacesRebalances`): the wait that is left and the time since the last rebalance make up
the backoff (`Spaced`). `OneRebalance`: who moves funds holds the flock. `PowerAssumption` is
arithmetic of `2 ^ k` that the provers lack; TLC evaluates it. The samples: `SamplesAreSpaced`
(`SamplesSpaced`) and `DayIsCovered` (`DayCovered`), by `Sampled`: the table is in the order of the times,
a loop on its way to the INSERT saw its own last sample a gap before the clock reading that it holds (`Waiting`), and
the first sample is there or `Keep` others are (`Oldest`); the i-th sample is then i gaps old.
`TableIsBounded` (`SamplesBounded`): each INSERT is followed by a DELETE, by a loop that is between the
two, or by one of the crashes, each of which stops at most a `Crowd` of them. `TypeCorrect` (`TypeOK`)
includes that nobody but a mover holds the flock.

`StateStoreProofs`, for any processes, records and faults: `TypeCorrect`, `Obedience` (`CommandKept`),
`ImportsWhole` (`CleanImportComplete`), `TokenFirst` (`TokenBeforeHistory`), `LoadsShow`
(`LoadShowsHistory`), `NothingGoesBack` (`TokenNeverGoesBack`). The invariant has three parts: types; the
lists of statements that a process can have left (`Shapes`); and, while `clean`, what the database
holds for each of them (`CleanInv`): an importer is alone on an empty database, the statements it has left
follow from what is there, and the tables agree with the commands and with what was read.

`RangeMathProofs`, for any price table, spacing and percentages: `BandCoversRange` (snapping
never narrows a range and adds less than a spacing at each end), `FreshBandHoldsPrice` (for a table
without gaps that reaches past the band), `FreshBandIsNotRequired` (if ticks a spacing apart are within slip% of each other and
(range + slip) * trigger < (range - slip) * (100 - trigger), all in percent, the price a band was made at is
outside both trigger margins: `NearestIsClose` bounds what the rounded logarithm may be off by, without a logarithm,
`EdgesReach` how lopsided snapping may leave the band), `MintFits` (a mint at the price that was read takes no
more than was offered and no less than its floors). With the configured 10% and 5% a slip of 8% is enough:
V3 pools space their ticks by at most 200 * 0.01%.

`QuantProofs`: `BandSettles` (`FreshBandSettles`) from the two theorems on bands and `TableAssumption`, which
TLC evaluates for the table of the run. `HoldKept` (`CleanHoldKept`), since while `clean` the ledger's last trade is never
older than the last one on chain, and an order decided on when no hold was due still fits when it lands.
`TypeCorrect` (`TypeOK`) by `Sane`: between decision and `Save` nothing else changes the ledger, so an
order still fits the ladder, the allocation and the cap it was sized by. `CapKept` (`CleanCapKept`) by
`Recorded`: at every age the ledger has counted as much as was spent on chain, but for the order it is about
to record; comparing the sums age by age (`Upto`) is what a tick of the clock preserves. `ClosedIsFlat`
(`CleanClosedIsFlat`) by `Way`: the account and the ledger drift apart by half a grain a sale, and there are no more
sales than hours. The bound counts those sales: that a closed session holds nothing at all is false, as
`toFixed` may round down.

`BootstrapProofs`, for any amounts, gas, prices and bounds, and for any number of runs of the scripts:
`ShapeHolds` is the invariant under all the others: the step a program is at decides its local
variables, the steps it has left (`Follows`) and the transaction it has signed or waits for (`StepTx`); a mempool entry
with a waiting sender is the one that sender sent; a nonce that was read is a place in the mempool or the next
one. `TypeCorrect` (`TypeOK`) follows.

- `WrapsOnce` (`WrapsWhatIsMissing`) by `Wrapped`: what was wrapped is in the wallet or spent, and a
  deposit under way is counted before it is mined. So what a re-run wraps again is what a swap or a mint took from
  the wallet, and no more; that it wraps nothing again is what `bootstrap_rerun` refutes.
- `ApprovalsAreCovered` (`AllowancesCovered`) by `Purse` and `Task`: what each step of the mint
  finds in the wallet. The position manager's WBNB is bounded by the total of a run and not by the wallet,
  as the comment in `Bootstrap` explains: a mint need not use all that it approved.
- `SweepComesLast` (`SweptLast`) by three invariants. `Drained`: the coin only ever gets less, so a sweep that is
  mined leaves no gas for a contract call. `Ordered`: a mint of the script comes after any sweep that
  waits in the mempool, so it can no longer repoint the agent. `Moved`: from the sweep on, in the
  mempool or mined, the position is the new wallet's, the identity too unless a migration skipped it
  (`IdentityMoved`), and the agent is at rest, unless a pass overlapped.

What a recursive function adds up to (`Upto`), or that the i-th sample is i gaps old, is proved by
induction in the form of `SetInduction`: a set of numbers that holds 0 and the successor of each member
is all of Nat, from the well-foundedness of < in the library.

Model-checked only: liveness (`LockReleased`, `BusyEnds`), as the prover has neither fairness nor ENABLED,
and the claims that are violated, which TLC refutes.

## Not modelled

- The read-only views of the API, the dashboard and the Termix client; valuation and fee growth for
  display: they decide nothing and move nothing.
- Boot wiring, the card, the LLM tools, the model client, deployment files: no state.
- `negotiate`, a pure signed reply; `settle`, called by the operator; the permanent skip of a
  wallet that cannot submit.
- The address allow-list and the config checks, constants of a deployment; `increase_liquidity`, which has
  no caller and is the approvals and floors of the mint again.
- A thread pool that hung submits use up: a hung thread is a delivery that takes no further step.
- Two hosts: the code documents that the flock cannot see another host.

## Plan

Done, in this order: `SingleFlight`, `Rebalance`, `RebalanceProofs`, `Seller`, `Monitor`,
`StateStore`, `RangeMath`, `Quant`, `Bootstrap`, and the proofs of the properties above.

What could follow: the liveness properties in a prover with fairness.
