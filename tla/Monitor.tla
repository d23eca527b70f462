------------------------------ MODULE Monitor ------------------------------
(***************************************************************************)
(* strategy._loop, the monitor that polls the position and rebalances it   *)
(* while the strategy is active, together with the routes and boot flags   *)
(* that start, pause and bypass it, and the fee samples it records.        *)
(*                                                                         *)
(* Time is counted in ticks.  Nothing stores the time: a sample, a reading *)
(* of the clock and a wait are kept as the ticks since or until then, so   *)
(* the monitor runs for ever in finitely many states.  Ages stop at        *)
(* Horizon; nothing tells older ones apart.                                *)
(*                                                                         *)
(* What a rebalance does is module Rebalance; here it holds the flock for  *)
(* a while and succeeds or fails.                                          *)
(***************************************************************************)
EXTENDS Integers, Sequences, FiniteSets

CONSTANTS
  Loop,        \* monitor threads, those that start_monitor may still create included
  Local,       \* the loops of the service process; the others are the agent's
  Boot,        \* the loops that boot flags start (AGENT_, SERVICE_RUN_MONITOR)
  Request,     \* worker threads of the service that serve control routes
  Nobody,      \* the flock is free
  Poll,        \* POLL_SECONDS
  MaxBackoff,  \* MAX_BACKOFF_MULTIPLIER
  Gap,         \* SNAPSHOT_MIN_GAP_SECONDS
  Keep,        \* SNAPSHOT_KEEP
  Day,         \* the window of fees_24h
  Horizon,     \* bound: the age at which ages stop; a longer window is never complete
  MaxFailures, \* bound: where the count of failures stops; the backoff is at its top
  MaxDelay,    \* bound: ticks between a loop's reading of the clock and its INSERT
  Timed,       \* the loop whose rebalances are timed
  MaxFaults    \* bound: restarts of a process, deletes that fail

ASSUME LoopAssumption == IsFiniteSet(Loop) /\ Local \subseteq Loop /\ Boot \subseteq Loop
ASSUME NobodyAssumption == Nobody \notin Loop \cup Request /\ Loop \cap Request = {}
ASSUME TimeAssumption == {Poll, MaxBackoff, Gap, Keep, Day} \subseteq Nat \ {0}
ASSUME BoundAssumption == /\ {Horizon, MaxFailures, MaxFaults, MaxDelay} \subseteq Nat
                          /\ Timed \in Loop
                          /\ Gap <= Horizon /\ Day <= Horizon /\ MaxDelay <= Horizon
                          /\ 2 ^ MaxFailures >= MaxBackoff

\* Arithmetic that TLAPS does not know.
ASSUME PowerAssumption == \A k \in 0..MaxFailures : 2 ^ k \in Nat

\* As configured: the samples kept span a day.
ASSUME KeepAssumption == (Keep - 1) * Gap >= Day

VARIABLES
  status,    \* the store's status
  snaps,     \* its snapshots, newest first: their age, and the loop they are from
  flock,     \* holder of the rebalance lock
  at,        \* where each loop is
  failures,  \* its consecutive failures
  wait,      \* ticks until its next pass
  held,      \* age of the clock reading in its hands
  req,       \* where each request is
  faults,  \* how much of the bound is used
  watched,   \* age of the first sample ever; -1: none.  Only properties read these:
  caught,    \* loops whose current pass was under way when the last pause was written
  since      \* ticks since Timed began the last rebalance of a failing streak

loopVars == <<at, failures, wait, held>>
ghostVars == <<watched, caught, since>>
vars == <<status, snaps, flock, loopVars, req, faults, ghostVars>>

-----------------------------------------------------------------------------
Age == 0..Horizon
Older(age) == IF age < Horizon THEN age + 1 ELSE Horizon

MidPass(l) == at[l] \notin {"off", "sleep"}
Alive == {l \in Loop : at[l] # "off"}

\* The threads and the store when the processes come up for the first time.
Init ==
  /\ status = "paused" /\ snaps = <<>> /\ flock = Nobody
  /\ at = [l \in Loop |-> IF l \in Boot THEN "sleep" ELSE "off"]
  /\ failures = [l \in Loop |-> 0]
  /\ wait = [l \in Loop |-> 0]
  /\ held = [l \in Loop |-> 0]
  /\ req = [r \in Request |-> "idle"]
  /\ faults = 0
  /\ watched = -1 /\ caught = {} /\ since = Horizon

-----------------------------------------------------------------------------
(* A pass of the loop. *)

Go(l, from, to) == at[l] = from /\ at' = [at EXCEPT ![l] = to]

\* The pass ends without an exception; the next is a poll period away.
Succeed(l) ==
  /\ at' = [at EXCEPT ![l] = "sleep"]
  /\ failures' = [failures EXCEPT ![l] = 0]
  /\ wait' = [wait EXCEPT ![l] = Poll]
  /\ caught' = caught \ {l}
  /\ since' = IF l = Timed THEN Horizon ELSE since

Backoff(count) == IF 2 ^ count < MaxBackoff THEN 2 ^ count ELSE MaxBackoff

\* Mutation of Failed: a failing pass is retried at full speed.
FailedAtFullSpeed(l) ==
  /\ at' = [at EXCEPT ![l] = "sleep"]
  /\ failures' = [failures EXCEPT ![l] = IF @ < MaxFailures THEN @ + 1 ELSE @]
  /\ wait' = [wait EXCEPT ![l] = Poll]
  /\ caught' = caught \ {l}
  /\ UNCHANGED since

\* It ends with one: the loop backs off, longer with each consecutive failure.
Failed(l) ==
  /\ at' = [at EXCEPT ![l] = "sleep"]
  /\ failures' = [failures EXCEPT ![l] = IF @ < MaxFailures THEN @ + 1 ELSE @]
  /\ wait' = [wait EXCEPT ![l] = Poll * Backoff(failures'[l])]
  /\ caught' = caught \ {l}
  /\ UNCHANGED since

\* check() needs the summary; without the value the sample is left out.
Check(l) ==
  /\ \E next \in {"gap", "lock"} : at' = [at EXCEPT ![l] = next]
  /\ UNCHANGED <<failures, wait, caught, since>>

\* Mutation of Wake: the pass does not ask for the status.
WakeAlways(l) ==
  /\ at[l] = "sleep" /\ wait[l] = 0
  /\ Check(l) \/ Failed(l)
  /\ UNCHANGED <<status, snaps, flock, held, req, faults, watched>>

\* The wait is over and the status is read; a paused pass counts as a success.  Both
\* that read and those of check() can fail.
Wake(l) ==
  /\ at[l] = "sleep" /\ wait[l] = 0
  /\ \/ status = "active" /\ Check(l)
     \/ status = "paused" /\ Succeed(l)
     \/ Failed(l)
  /\ UNCHANGED <<status, snaps, flock, held, req, faults, watched>>

\* Mutation of ReadGap: every pass takes a sample.
ReadGapNever(l) ==
  /\ Go(l, "gap", "insert")
  /\ held' = [held EXCEPT ![l] = 0]
  /\ UNCHANGED <<status, snaps, flock, failures, wait, req, faults, ghostVars>>

\* _record_snapshot reads the clock and the newest sample; not within the gap.
ReadGap(l) ==
  /\ Go(l, "gap", IF snaps # <<>> /\ snaps[1].age < Gap THEN "lock" ELSE "insert")
  /\ held' = [held EXCEPT ![l] = 0]
  /\ UNCHANGED <<status, snaps, flock, failures, wait, req, faults, ghostVars>>

\* The INSERT commits by itself.  The sample carries the time read before, and the table
\* is read in the order of those times.
Insert(l) ==
  /\ Go(l, "insert", "prune")
  /\ \E n \in 0..Len(snaps) :
       /\ \A i \in DOMAIN snaps : snaps[i].age < held[l] <=> i <= n
       /\ snaps' = SubSeq(snaps, 1, n) \o <<[age |-> held[l], by |-> l]>>
                    \o SubSeq(snaps, n + 1, Len(snaps))
  /\ held' = [held EXCEPT ![l] = 0]
  /\ watched' = IF watched = -1 THEN held[l] ELSE watched
  /\ UNCHANGED <<status, flock, failures, wait, req, faults, caught, since>>

\* Mutation of Prune: nothing is deleted.
PruneNothing(l) ==
  /\ Go(l, "prune", "lock")
  /\ UNCHANGED <<status, snaps, flock, failures, wait, held, req, faults, ghostVars>>

\* The DELETE keeps the newest samples.
Prune(l) ==
  /\ Go(l, "prune", "lock")
  /\ snaps' = SubSeq(snaps, 1, IF Len(snaps) < Keep THEN Len(snaps) ELSE Keep)
  /\ UNCHANGED <<status, flock, failures, wait, held, req, faults, ghostVars>>

\* The DELETE raises (the database is locked); check() goes on.
PruneFails(l) ==
  /\ Go(l, "prune", "lock")
  /\ faults < MaxFaults /\ faults' = faults + 1
  /\ UNCHANGED <<status, snaps, flock, failures, wait, held, req, ghostVars>>

\* check() ends by writing last_check.  The pass ends here when no rebalance is due,
\* when something raises, or when rebalance() finds the flock held.
NotBegun(l) ==
  /\ at[l] = "lock"
  /\ Succeed(l) \/ Failed(l)
  /\ UNCHANGED <<status, snaps, flock, held, req, faults, watched>>

Begin(l) ==
  /\ Go(l, "lock", "moving")
  /\ flock = Nobody /\ flock' = l
  /\ since' = IF l = Timed THEN 0 ELSE since
  /\ UNCHANGED <<status, snaps, failures, wait, held, req, faults, watched, caught>>

End(l) ==
  /\ at[l] = "moving"
  /\ Succeed(l) \/ Failed(l)
  /\ flock' = Nobody
  /\ UNCHANGED <<status, snaps, held, req, faults, watched>>

Pass(l) == \/ Wake(l) \/ ReadGap(l) \/ Insert(l) \/ Prune(l) \/ PruneFails(l)
           \/ NotBegun(l) \/ Begin(l) \/ End(l)

-----------------------------------------------------------------------------
(* The control routes. *)

Reply(r, to) == req' = [req EXCEPT ![r] = to]

\* POST /activate: the status first, then start_monitor.
Activate(r) ==
  /\ req[r] = "idle" /\ Reply(r, "look")
  /\ status' = "active" /\ caught' = {}
  /\ UNCHANGED <<snaps, flock, loopVars, faults, watched, since>>

\* start_monitor: is a thread alive in this process?
Look(r) ==
  /\ req[r] = "look"
  /\ Reply(r, IF Alive \cap Local = {} THEN "start" ELSE "idle")
  /\ UNCHANGED <<status, snaps, flock, loopVars, faults, ghostVars>>

StartLoop(r) ==
  /\ req[r] = "start" /\ Reply(r, "idle")
  /\ \E l \in Local \ Alive : /\ at' = [at EXCEPT ![l] = "sleep"]
                              /\ failures' = [failures EXCEPT ![l] = 0]
                              /\ wait' = [wait EXCEPT ![l] = 0]
  /\ UNCHANGED <<status, snaps, flock, held, faults, ghostVars>>

\* POST /pause and the command line: the status, nothing else.
Pause ==
  /\ status' = "paused"
  /\ caught' = {l \in Loop : MidPass(l)}
  /\ UNCHANGED <<snaps, flock, loopVars, req, faults, watched, since>>

\* POST /execute rebalances, whatever the status.
Execute(r) ==
  /\ req[r] = "idle" /\ flock = Nobody
  /\ Reply(r, "moving") /\ flock' = r
  /\ UNCHANGED <<status, snaps, loopVars, faults, ghostVars>>

Executed(r) ==
  /\ req[r] = "moving" /\ Reply(r, "idle")
  /\ flock' = Nobody
  /\ UNCHANGED <<status, snaps, loopVars, faults, ghostVars>>

Serve(r) == Look(r) \/ StartLoop(r) \/ Executed(r)

-----------------------------------------------------------------------------
\* The loops and requests of one process are gone; its boot flags start it afresh.
Reset(loops, requests) ==
  /\ faults < MaxFaults /\ faults' = faults + 1
  /\ at' = [l \in Loop |-> IF l \notin loops THEN at[l]
                           ELSE IF l \in Boot THEN "sleep" ELSE "off"]
  /\ failures' = [l \in Loop |-> IF l \in loops THEN 0 ELSE failures[l]]
  /\ wait' = [l \in Loop |-> IF l \in loops THEN 0 ELSE wait[l]]
  /\ held' = [l \in Loop |-> IF l \in loops THEN 0 ELSE held[l]]
  /\ req' = [r \in Request |-> IF r \in requests THEN "idle" ELSE req[r]]
  /\ caught' = caught \ loops

\* Mutation of Restart: the lock is a file that outlives its process.
RestartHoldingLock(loops, requests) ==
  /\ Reset(loops, requests)
  /\ UNCHANGED <<status, snaps, flock, watched, since>>

\* A process restarts; the kernel drops its flock, the store keeps what is in it.
Restart(loops, requests) ==
  /\ Reset(loops, requests)
  /\ flock' = IF flock \in loops \cup requests THEN Nobody ELSE flock
  /\ UNCHANGED <<status, snaps, watched, since>>

Tick ==
  /\ \A l \in Loop : at[l] = "insert" => held[l] < MaxDelay
  /\ snaps' = [i \in DOMAIN snaps |-> [snaps[i] EXCEPT !.age = Older(@)]]
  /\ wait' = [l \in Loop |-> IF wait[l] > 0 THEN wait[l] - 1 ELSE 0]
  /\ held' = [l \in Loop |-> IF at[l] = "insert" THEN held[l] + 1 ELSE held[l]]
  /\ watched' = IF watched = -1 THEN -1 ELSE Older(watched)
  /\ since' = Older(since)
  /\ UNCHANGED <<status, flock, at, failures, req, faults, caught>>

Next ==
  \/ \E l \in Loop : Pass(l)
  \/ \E r \in Request : Activate(r) \/ Serve(r) \/ Execute(r)
  \/ Pause \/ Tick
  \/ Restart(Local, Request) \/ Restart(Loop \ Local, {})

Spec == Init /\ [][Next]_vars

-----------------------------------------------------------------------------
(* Properties. *)

\* The variables have their types; whoever holds the flock is moving funds, and
\* nobody else is.
TypeOK ==
  /\ status \in {"active", "paused"}
  /\ snaps \in Seq([age : Age, by : Loop])
  /\ at \in [Loop -> {"off", "sleep", "gap", "insert", "prune", "lock", "moving"}]
  /\ failures \in [Loop -> 0..MaxFailures]
  /\ wait \in [Loop -> 0..(Poll * MaxBackoff)] /\ held \in [Loop -> 0..MaxDelay]
  /\ req \in [Request -> {"idle", "look", "start", "moving"}]
  /\ faults \in Nat /\ watched \in Age \cup {-1}
  /\ caught \subseteq Loop /\ since \in Age
  /\ {l \in Loop : at[l] = "moving"} \cup {r \in Request : req[r] = "moving"}
       = {flock} \ {Nobody}

\* While the strategy is paused a loop begins a rebalance only in a pass that was
\* under way when the pause was written: each loop at most one.
PausedOnlyFinishes ==
  [][\A l \in Loop : status = "paused" /\ flock # l /\ flock' = l => l \in caught]_vars

\* Samples of one loop are a gap apart: a loop is never fooled by its own writes,
\* nor by another loop's.
SamplesSpaced ==
  \A i, k \in DOMAIN snaps :
     i < k /\ snaps[i].by = snaps[k].by /\ snaps[k].age < Horizon
       => snaps[k].age - snaps[i].age >= Gap

\* The loops that one restart can take with it.
Crowd == IF Cardinality(Local) > Cardinality(Loop \ Local) THEN Cardinality(Local)
                                                          ELSE Cardinality(Loop \ Local)

\* The table is bounded although INSERT and DELETE commit apart: it is over by at
\* most the samples being pruned and those whose pruning a crash or an error prevented.
SamplesBounded ==
  Len(snaps) <= Keep + faults * Crowd + Cardinality({l \in Loop : at[l] = "prune"})

Complete(window) == snaps # <<>> /\ snaps[Len(snaps)].age >= window

\* With a single loop sampling, fees_24h covers its day as soon as the agent has
\* watched for a day, and for good: pruning never takes the sample it needs.
DayCovered ==
  /\ watched >= Day
  /\ \A i, k \in DOMAIN snaps : snaps[i].by = snaps[k].by
  => Complete(Day)

\* A failed pass is not retried at full speed: after k failures in a row a
\* loop's next rebalance begins at least the k-th backoff after its last.
BackoffSpacesRebalances ==
  [][flock # Timed /\ flock' = Timed /\ failures[Timed] > 0 /\ since < Horizon
       => since >= Poll * Backoff(failures[Timed])]_vars

=============================================================================
