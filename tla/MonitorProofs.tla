--------------------------- MODULE MonitorProofs ---------------------------
(***************************************************************************)
(* The monitor's use of the lock, of the status and of its backoff, and    *)
(* the fee samples it keeps, for any loops, requests, periods and faults.  *)
(***************************************************************************)
EXTENDS Monitor, FiniteSetTheorems, SequenceTheorems, WellFoundedInduction, TLAPS

Types ==
  /\ status \in {"active", "paused"}
  /\ flock \in Loop \cup Request \cup {Nobody}
  /\ at \in [Loop -> {"off", "sleep", "gap", "insert", "prune", "lock", "moving"}]
  /\ failures \in [Loop -> 0..MaxFailures]
  /\ wait \in [Loop -> Nat]
  /\ req \in [Request -> {"idle", "look", "start", "moving"}]
  /\ since \in Age
  /\ caught \subseteq Loop

\* Whoever moves funds holds the lock.
Locked ==
  /\ \A l \in Loop : at[l] = "moving" => flock = l
  /\ \A r \in Request : req[r] = "moving" => flock = r

\* A pass that is under way in spite of a pause is one that the pause caught.
Caught == status = "paused" => \A l \in Loop : MidPass(l) => l \in caught

\* What is left of the wait and what has passed since the last rebalance make up the backoff.
Spaced ==
  failures[Timed] > 0 /\ since < Horizon =>
    /\ at[Timed] = "sleep" => since + wait[Timed] >= Poll * Backoff(failures[Timed])
    /\ at[Timed] \in {"gap", "insert", "prune", "lock"} => since >= Poll * Backoff(failures[Timed])

Inv == Types /\ Locked /\ Caught /\ Spaced

-----------------------------------------------------------------------------
\* A backoff is some number of polls.
LEMMA BackoffNat ==
  ASSUME NEW k \in 0..MaxFailures
  PROVE  Poll * Backoff(k) \in Nat
<1>1. 2 ^ k \in Nat /\ MaxBackoff \in Nat /\ Poll \in Nat
  BY PowerAssumption, BoundAssumption, TimeAssumption
<1>2. Backoff(k) \in Nat
  <2> DEFINE power == 2 ^ k
  <2>1. Backoff(k) = IF power < MaxBackoff THEN power ELSE MaxBackoff
    BY DEF Backoff
  <2>2. power \in Nat
    BY <1>1
  <2> HIDE DEF power
  <2> QED BY <1>1, <2>1, <2>2
<1> QED BY <1>1, <1>2

\* It holds when the processes come up.
LEMMA InitInv == Init => Inv
<1> SUFFICES ASSUME Init PROVE Inv
  OBVIOUS
<1>1. Types
  BY BoundAssumption DEF Init, Types, Age
<1>2. Locked /\ Caught
  BY DEF Init, Locked, Caught, MidPass
<1>3. Spaced
  BY BoundAssumption DEF Init, Spaced
<1> QED BY <1>1, <1>2, <1>3 DEF Inv

\* The end of a pass, in success or failure.
LEMMA EndOfPass ==
  ASSUME Inv, NEW l \in Loop, Succeed(l) \/ Failed(l), UNCHANGED <<status, req>>,
         flock' = flock \/ (at[l] = "moving" /\ flock' = Nobody)
  PROVE  Inv'
<1>1. Types /\ Locked /\ Caught /\ Spaced
  BY DEF Inv
<1>2. /\ at' = [at EXCEPT ![l] = "sleep"] /\ caught' = caught \ {l}
      /\ \A k \in Loop : k # l => wait'[k] = wait[k] /\ failures'[k] = failures[k]
      /\ failures' \in [Loop -> 0..MaxFailures] /\ wait' \in [Loop -> Nat] /\ since' \in Age
  <2>1. Poll \in Nat /\ Horizon \in Nat /\ MaxFailures \in Nat
    BY TimeAssumption, BoundAssumption
  <2>2. CASE Succeed(l)
    BY <1>1, <2>1, <2>2 DEF Succeed, Types, Age
  <2>3. CASE Failed(l)
    <3>1. failures' = [failures EXCEPT ![l] = IF @ < MaxFailures THEN @ + 1 ELSE @]
      BY <2>3 DEF Failed
    <3>2. failures' \in [Loop -> 0..MaxFailures]
      BY <1>1, <2>1, <3>1 DEF Types
    <3>3. Poll * Backoff(failures'[l]) \in Nat
      BY <3>2, BackoffNat
    <3>4. wait' = [wait EXCEPT ![l] = Poll * Backoff(failures'[l])]
      BY <2>3 DEF Failed
    <3> QED BY <1>1, <2>3, <3>1, <3>2, <3>3, <3>4 DEF Failed, Types
  <2> QED BY <2>2, <2>3
<1>3. Types'
  BY <1>1, <1>2 DEF Types
<1>4. Locked'
  BY <1>1, <1>2, NobodyAssumption DEF Types, Locked
<1>5. Caught'
  BY <1>1, <1>2 DEF Types, Caught, MidPass
<1>6. Spaced'
  <2>1. CASE l = Timed
    <3>1. at'[Timed] = "sleep"
      BY <1>1, <1>2, <2>1 DEF Types
    <3>2. CASE Succeed(l)
      BY <1>1, <2>1, <3>1, <3>2 DEF Succeed, Spaced, Types
    <3>3. CASE Failed(l)
      <4>1. wait'[Timed] = Poll * Backoff(failures'[Timed])
        BY <1>1, <2>1, <3>3 DEF Failed, Types
      <4>2. since' \in Nat /\ Poll * Backoff(failures'[Timed]) \in Nat
        BY <1>2, BackoffNat, BoundAssumption DEF Age
      <4> QED BY <3>1, <4>1, <4>2 DEF Spaced
    <3> QED BY <3>2, <3>3
  <2>2. CASE l # Timed
    <3>1. /\ since' = since /\ wait'[Timed] = wait[Timed] /\ failures'[Timed] = failures[Timed]
          /\ at'[Timed] = at[Timed]
      BY <1>1, <1>2, <2>2, BoundAssumption DEF Succeed, Failed, Types
    <3> QED BY <1>1, <3>1 DEF Spaced
  <2> QED BY <2>1, <2>2
<1> QED BY <1>3, <1>4, <1>5, <1>6 DEF Inv

\* A step inside a pass, which the status and the wait are asked before.
LEMMA Onward ==
  ASSUME Inv, NEW l \in Loop, NEW to \in {"gap", "insert", "prune", "lock"},
         at' = [at EXCEPT ![l] = to],
         UNCHANGED <<status, flock, failures, wait, req, caught, since>>,
         \/ at[l] = "sleep" /\ wait[l] = 0 /\ status = "active"
         \/ at[l] \in {"gap", "insert", "prune", "lock"}
  PROVE  Inv'
<1>1. Types /\ Locked /\ Caught /\ Spaced
  BY DEF Inv
<1>2. at' \in [Loop -> {"off", "sleep", "gap", "insert", "prune", "lock", "moving"}]
      /\ at'[l] = to /\ \A k \in Loop : k # l => at'[k] = at[k]
  BY <1>1 DEF Types
<1>3. Types'
  BY <1>1, <1>2 DEF Types
<1>4. Locked'
  BY <1>1, <1>2 DEF Locked
<1>5. Caught'
  BY <1>1, <1>2 DEF Caught, MidPass
<1>6. Spaced'
  <2>1. since \in Nat /\ wait[l] \in Nat /\ Timed \in Loop
    BY <1>1, BoundAssumption DEF Types, Age
  <2>2. CASE l = Timed
    BY <1>1, <1>2, <2>1, <2>2 DEF Spaced
  <2>3. CASE l # Timed
    BY <1>1, <1>2, <2>1, <2>3 DEF Spaced
  <2> QED BY <2>2, <2>3
<1> QED BY <1>3, <1>4, <1>5, <1>6 DEF Inv

\* A pass that takes the lock and begins a rebalance.
LEMMA BeginStep ==
  ASSUME Inv, NEW l \in Loop, Begin(l)
  PROVE  Inv'
<1>1. Types /\ Locked /\ Caught /\ Spaced
  BY DEF Inv
<1>2. /\ at[l] = "lock" /\ at' = [at EXCEPT ![l] = "moving"] /\ flock = Nobody /\ flock' = l
      /\ since' = (IF l = Timed THEN 0 ELSE since)
      /\ UNCHANGED <<status, failures, wait, req, caught>>
  BY DEF Begin, Go
<1>3. Types'
  BY <1>1, <1>2, BoundAssumption DEF Types, Age
<1>4. Locked'
  BY <1>1, <1>2, NobodyAssumption DEF Types, Locked
<1>5. Caught'
  BY <1>1, <1>2 DEF Types, Caught, MidPass
<1>6. Spaced'
  BY <1>1, <1>2, BoundAssumption DEF Types, Spaced
<1> QED BY <1>3, <1>4, <1>5, <1>6 DEF Inv

\* Every step of a pass.
LEMMA PassStep ==
  ASSUME Inv, NEW l \in Loop, Pass(l)
  PROVE  Inv'
<1>1. Types
  BY DEF Inv
<1>2. CASE Wake(l)
  <2>1. at[l] = "sleep" /\ wait[l] = 0 /\ UNCHANGED <<status, flock, req>>
    BY <1>2 DEF Wake
  <2>2. CASE status = "active" /\ Check(l)
    <3>1. PICK next \in {"gap", "lock"} : at' = [at EXCEPT ![l] = next]
      BY <2>2 DEF Check
    <3>2. UNCHANGED <<failures, wait, caught, since>>
      BY <2>2 DEF Check
    <3> QED BY <2>1, <2>2, <3>1, <3>2, Onward
  <2>3. CASE Succeed(l) \/ Failed(l)
    BY <2>1, <2>3, EndOfPass
  <2> QED BY <1>2, <2>2, <2>3 DEF Wake
<1>3. CASE ReadGap(l)
  <2> DEFINE to == IF snaps # <<>> /\ snaps[1].age < Gap THEN "lock" ELSE "insert"
  <2>1. /\ at[l] = "gap" /\ at' = [at EXCEPT ![l] = to] /\ to \in {"lock", "insert"}
        /\ UNCHANGED <<status, flock, failures, wait, req, caught, since>>
    BY <1>3 DEF ReadGap, Go, ghostVars
  <2> HIDE DEF to
  <2> QED BY <2>1, Onward
<1>4. CASE Insert(l)
  <2>1. /\ at[l] = "insert" /\ at' = [at EXCEPT ![l] = "prune"]
        /\ UNCHANGED <<status, flock, failures, wait, req, caught, since>>
    BY <1>4 DEF Insert, Go
  <2> QED BY <2>1, Onward
<1>5. CASE Prune(l) \/ PruneFails(l)
  <2>1. /\ at[l] = "prune" /\ at' = [at EXCEPT ![l] = "lock"]
        /\ UNCHANGED <<status, flock, failures, wait, req, caught, since>>
    BY <1>5 DEF Prune, PruneFails, Go, ghostVars
  <2> QED BY <2>1, Onward
<1>6. CASE NotBegun(l)
  <2>1. (Succeed(l) \/ Failed(l)) /\ UNCHANGED <<status, flock, req>>
    BY <1>6 DEF NotBegun
  <2> QED BY <2>1, EndOfPass
<1>7. CASE Begin(l)
  BY <1>7, BeginStep
<1>8. CASE End(l)
  <2>1. (Succeed(l) \/ Failed(l)) /\ at[l] = "moving" /\ flock' = Nobody /\ UNCHANGED <<status, req>>
    BY <1>8 DEF End
  <2> QED BY <2>1, EndOfPass
<1> QED BY <1>2, <1>3, <1>4, <1>5, <1>6, <1>7, <1>8 DEF Pass

\* The control routes and the command line.
LEMMA RequestStep ==
  ASSUME Inv, NEW r \in Request, Activate(r) \/ Serve(r) \/ Execute(r)
  PROVE  Inv'
<1>1. Types /\ Locked /\ Caught /\ Spaced
  BY DEF Inv
<1>2. CASE Activate(r)
  <2>1. Types' /\ Locked'
    BY <1>1, <1>2 DEF Activate, Reply, loopVars, Types, Locked
  <2>2. Caught' /\ Spaced'
    BY <1>1, <1>2 DEF Activate, loopVars, Caught, Spaced
  <2> QED BY <2>1, <2>2 DEF Inv
<1>3. CASE Look(r)
  <2>1. Types' /\ Locked'
    BY <1>1, <1>3 DEF Look, Reply, loopVars, ghostVars, Types, Locked
  <2>2. Caught' /\ Spaced'
    BY <1>1, <1>3 DEF Look, loopVars, ghostVars, Caught, MidPass, Spaced
  <2> QED BY <2>1, <2>2 DEF Inv
<1>4. CASE StartLoop(r)
  <2>1. PICK l \in Local \ Alive : /\ at' = [at EXCEPT ![l] = "sleep"]
                                  /\ failures' = [failures EXCEPT ![l] = 0]
                                  /\ wait' = [wait EXCEPT ![l] = 0]
    BY <1>4 DEF StartLoop
  <2>2. l \in Loop /\ at[l] = "off" /\ 0 \in 0..MaxFailures
    BY <2>1, LoopAssumption, BoundAssumption DEF Alive
  <2>3. /\ req' = [req EXCEPT ![r] = "idle"] /\ req[r] = "start"
        /\ UNCHANGED <<status, flock, caught, since>>
    BY <1>4 DEF StartLoop, Reply, ghostVars
  <2>4. Types' /\ Locked'
    BY <1>1, <2>1, <2>2, <2>3 DEF Types, Locked
  <2>5. Caught'
    BY <1>1, <2>1, <2>2, <2>3 DEF Types, Caught, MidPass
  <2>6. Spaced'
    BY <1>1, <2>1, <2>2, <2>3, BoundAssumption DEF Types, Spaced
  <2> QED BY <2>4, <2>5, <2>6 DEF Inv
<1>5. CASE Execute(r)
  <2>1. /\ req[r] = "idle" /\ flock = Nobody /\ req' = [req EXCEPT ![r] = "moving"] /\ flock' = r
        /\ UNCHANGED <<status, at, failures, wait, caught, since>>
    BY <1>5 DEF Execute, Reply, loopVars, ghostVars
  <2>2. Types' /\ Locked'
    BY <1>1, <2>1, NobodyAssumption DEF Types, Locked
  <2>3. Caught' /\ Spaced'
    BY <1>1, <2>1 DEF Caught, MidPass, Spaced
  <2> QED BY <2>2, <2>3 DEF Inv
<1>6. CASE Executed(r)
  <2>1. /\ req[r] = "moving" /\ req' = [req EXCEPT ![r] = "idle"] /\ flock' = Nobody
        /\ UNCHANGED <<status, at, failures, wait, caught, since>>
    BY <1>6 DEF Executed, Reply, loopVars, ghostVars
  <2>2. Types' /\ Locked'
    BY <1>1, <2>1, NobodyAssumption DEF Types, Locked
  <2>3. Caught' /\ Spaced'
    BY <1>1, <2>1 DEF Caught, MidPass, Spaced
  <2> QED BY <2>2, <2>3 DEF Inv
<1> QED BY <1>2, <1>3, <1>4, <1>5, <1>6 DEF Serve

\* A pause catches the passes that are under way.
LEMMA PauseStep ==
  ASSUME Inv, Pause
  PROVE  Inv'
<1>1. Types' /\ Locked'
  BY DEF Inv, Pause, loopVars, Types, Locked
<1>2. Caught' /\ Spaced'
  BY DEF Inv, Pause, loopVars, Caught, MidPass, Spaced
<1> QED BY <1>1, <1>2 DEF Inv

\* A restart gives up the lock with the rebalance it was held for.
LEMMA RestartStep ==
  ASSUME Inv, NEW loops \in SUBSET Loop, NEW requests \in SUBSET Request, Restart(loops, requests)
  PROVE  Inv'
<1>1. Types /\ Locked /\ Caught /\ Spaced
  BY DEF Inv
<1>2. /\ at' = [l \in Loop |-> IF l \notin loops THEN at[l]
                              ELSE IF l \in Boot THEN "sleep" ELSE "off"]
      /\ failures' = [l \in Loop |-> IF l \in loops THEN 0 ELSE failures[l]]
      /\ wait' = [l \in Loop |-> IF l \in loops THEN 0 ELSE wait[l]]
      /\ req' = [r \in Request |-> IF r \in requests THEN "idle" ELSE req[r]]
      /\ caught' = caught \ loops
      /\ flock' = IF flock \in loops \cup requests THEN Nobody ELSE flock
      /\ UNCHANGED <<status, since>>
  BY DEF Restart, Reset
<1>3. Types'
  <2>1. 0 \in 0..MaxFailures
    BY BoundAssumption
  <2>2. at' \in [Loop -> {"off", "sleep", "gap", "insert", "prune", "lock", "moving"}]
    BY <1>1, <1>2 DEF Types
  <2>3. failures' \in [Loop -> 0..MaxFailures] /\ wait' \in [Loop -> Nat]
    BY <1>1, <1>2, <2>1 DEF Types
  <2>4. req' \in [Request -> {"idle", "look", "start", "moving"}]
    BY <1>1, <1>2 DEF Types
  <2> QED BY <1>1, <1>2, <2>2, <2>3, <2>4 DEF Types
<1>4. Locked'
  <2>1. ASSUME NEW l \in Loop, at'[l] = "moving" PROVE flock' = l
    <3>1. l \notin loops /\ flock = l /\ l \notin requests
      BY <1>1, <1>2, <2>1, NobodyAssumption DEF Locked
    <3> QED BY <1>2, <3>1
  <2>2. ASSUME NEW r \in Request, req'[r] = "moving" PROVE flock' = r
    <3>1. r \notin requests /\ flock = r /\ r \notin loops
      BY <1>1, <1>2, <2>2, NobodyAssumption DEF Locked
    <3> QED BY <1>2, <3>1
  <2> QED BY <2>1, <2>2 DEF Locked
<1>5. Caught'
  BY <1>1, <1>2 DEF Caught, MidPass
<1>6. Spaced'
  BY <1>1, <1>2, BoundAssumption DEF Spaced
<1> QED BY <1>3, <1>4, <1>5, <1>6 DEF Inv

\* A tick takes from the wait what it adds to the time since the rebalance.
LEMMA TickStep ==
  ASSUME Inv, Tick
  PROVE  Inv'
<1>1. Types /\ Locked /\ Caught /\ Spaced
  BY DEF Inv
<1>2. /\ wait' = [l \in Loop |-> IF wait[l] > 0 THEN wait[l] - 1 ELSE 0]
      /\ since' = Older(since) /\ UNCHANGED <<status, flock, at, failures, req, caught>>
  BY DEF Tick
<1>3. since' \in Age /\ (since' < Horizon => since < Horizon /\ since' = since + 1)
      /\ since \in Nat /\ Timed \in Loop
  <2>1. Horizon \in Nat /\ Timed \in Loop
    BY BoundAssumption
  <2>2. since \in Nat /\ since <= Horizon
    BY <1>1, <2>1 DEF Types, Age
  <2>3. since' = IF since < Horizon THEN since + 1 ELSE Horizon
    BY <1>2 DEF Older
  <2> QED BY <2>1, <2>2, <2>3 DEF Age
<1>4. wait' \in [Loop -> Nat] /\ wait'[Timed] + 1 >= wait[Timed] /\ wait[Timed] \in Nat
      /\ wait'[Timed] \in Nat
  BY <1>1, <1>2, <1>3 DEF Types
<1>5. Types'
  BY <1>1, <1>2, <1>3, <1>4 DEF Types
<1>6. Locked' /\ Caught'
  BY <1>1, <1>2 DEF Locked, Caught, MidPass
<1>7. Spaced'
  <2>1. Poll * Backoff(failures[Timed]) \in Nat
    BY <1>1, <1>3, BackoffNat DEF Types
  <2> DEFINE backoff == Poll * Backoff(failures[Timed])
  <2> SUFFICES ASSUME failures[Timed] > 0, since' < Horizon
               PROVE  /\ at[Timed] = "sleep" => since' + wait'[Timed] >= backoff
                      /\ at[Timed] \in {"gap", "insert", "prune", "lock"} => since' >= backoff
    BY <1>2 DEF Spaced
  <2>2. /\ at[Timed] = "sleep" => since + wait[Timed] >= backoff
        /\ at[Timed] \in {"gap", "insert", "prune", "lock"} => since >= backoff
    BY <1>1, <1>3 DEF Spaced
  <2>3. backoff \in Nat
    BY <2>1
  <2> HIDE DEF backoff
  <2> QED BY <1>3, <1>4, <2>2, <2>3
<1> QED BY <1>5, <1>6, <1>7 DEF Inv

\* Every step preserves the invariant.
LEMMA NextInv == Inv /\ [Next]_vars => Inv'
<1> SUFFICES ASSUME Inv, [Next]_vars PROVE Inv'
  OBVIOUS
<1>1. CASE UNCHANGED vars
  <2>1. Types' /\ Locked'
    BY <1>1 DEF vars, loopVars, ghostVars, Inv, Types, Locked
  <2>2. Caught' /\ Spaced'
    BY <1>1 DEF vars, loopVars, ghostVars, Inv, Caught, MidPass, Spaced
  <2> QED BY <2>1, <2>2 DEF Inv
<1>2. ASSUME NEW l \in Loop, Pass(l) PROVE Inv'
  BY <1>2, PassStep
<1>3. ASSUME NEW r \in Request, Activate(r) \/ Serve(r) \/ Execute(r) PROVE Inv'
  BY <1>3, RequestStep
<1>4. CASE Pause
  BY <1>4, PauseStep
<1>5. CASE Restart(Local, Request) \/ Restart(Loop \ Local, {})
  BY <1>5, RestartStep, LoopAssumption
<1>6. CASE Tick
  BY <1>6, TickStep
<1> QED BY <1>1, <1>2, <1>3, <1>4, <1>5, <1>6 DEF Next

\* The invariant is inductive.
THEOREM Invariance == Spec => []Inv
BY InitInv, NextInv, PTL DEF Spec

-----------------------------------------------------------------------------
\* A rebalance is begun by a loop that takes the free lock at the end of its pass.
LEMMA OnlyBegin ==
  ASSUME Inv, [Next]_vars, NEW l \in Loop, flock # l, flock' = l
  PROVE  Begin(l)
<1>1. l \notin Request /\ l # Nobody
  BY NobodyAssumption
<1>2. flock' # flock
  OBVIOUS
<1>3. CASE UNCHANGED vars
  BY <1>2, <1>3 DEF vars
<1>4. ASSUME NEW k \in Loop, Pass(k) PROVE Begin(l)
  <2>1. CASE Begin(k)
    BY <2>1 DEF Begin
  <2>2. CASE ~Begin(k)
    BY <1>1, <1>2, <1>4, <2>2 DEF Pass, Wake, ReadGap, Insert, Prune, PruneFails, NotBegun, End
  <2> QED BY <2>1, <2>2
<1>5. ASSUME NEW r \in Request, Activate(r) \/ Serve(r) \/ Execute(r) PROVE FALSE
  BY <1>1, <1>2, <1>5 DEF Activate, Serve, Look, StartLoop, Executed, Execute
<1>6. CASE Pause \/ Tick
  BY <1>2, <1>6 DEF Pause, Tick
<1>7. CASE Restart(Local, Request) \/ Restart(Loop \ Local, {})
  BY <1>1, <1>2, <1>7 DEF Restart
<1> QED BY <1>3, <1>4, <1>5, <1>6, <1>7 DEF Next

\* After a pause no loop begins a rebalance, but for the pass that was under way.
THEOREM PauseIsObeyed == Spec => PausedOnlyFinishes
<1>1. ASSUME Inv, [Next]_vars
      PROVE  \A l \in Loop : status = "paused" /\ flock # l /\ flock' = l => l \in caught
  <2> SUFFICES ASSUME NEW l \in Loop, status = "paused", flock # l, flock' = l PROVE l \in caught
    OBVIOUS
  <2>1. at[l] = "lock"
    BY <1>1, OnlyBegin DEF Begin, Go
  <2> QED BY <1>1, <2>1 DEF Inv, Caught, MidPass
<1> QED BY <1>1, Invariance, PTL DEF Spec, PausedOnlyFinishes

\* After failures in a row a loop's rebalances are at least the backoff apart.
THEOREM BackoffIsKept == Spec => BackoffSpacesRebalances
<1>1. ASSUME Inv, [Next]_vars
      PROVE  flock # Timed /\ flock' = Timed /\ failures[Timed] > 0 /\ since < Horizon
               => since >= Poll * Backoff(failures[Timed])
  <2> SUFFICES ASSUME flock # Timed, flock' = Timed, failures[Timed] > 0, since < Horizon
               PROVE  since >= Poll * Backoff(failures[Timed])
    OBVIOUS
  <2>1. at[Timed] = "lock"
    BY <1>1, OnlyBegin, BoundAssumption DEF Begin, Go
  <2> QED BY <1>1, <2>1 DEF Inv, Spaced
<1> QED BY <1>1, Invariance, PTL DEF Spec, BackoffSpacesRebalances

\* Two rebalances are never under way at once: not of two loops, not of a loop and POST /execute.
THEOREM OneRebalance ==
  Spec => [](/\ \A l, k \in Loop : at[l] = "moving" /\ at[k] = "moving" => l = k
             /\ \A r, q \in Request : req[r] = "moving" /\ req[q] = "moving" => r = q
             /\ \A l \in Loop, r \in Request : ~(at[l] = "moving" /\ req[r] = "moving"))
<1>1. Inv => /\ \A l, k \in Loop : at[l] = "moving" /\ at[k] = "moving" => l = k
             /\ \A r, q \in Request : req[r] = "moving" /\ req[q] = "moving" => r = q
             /\ \A l \in Loop, r \in Request : ~(at[l] = "moving" /\ req[r] = "moving")
  BY NobodyAssumption DEF Inv, Locked
<1> QED BY <1>1, Invariance, PTL

-----------------------------------------------------------------------------
(* The fee samples. *)

Inserted(s, n, e) == SubSeq(s, 1, n) \o <<e>> \o SubSeq(s, n + 1, Len(s))

Makes(s, n, e, t) ==
  /\ Len(t) = Len(s) + 1
  /\ \A i \in 1..(Len(s) + 1) : t[i] = IF i <= n THEN s[i] ELSE IF i = n + 1 THEN e ELSE s[i - 1]

\* What is inserted after the first n elements comes next, and the rest follow.
LEMMA InsertedAt ==
  ASSUME NEW S, NEW s \in Seq(S), NEW n \in 0..Len(s), NEW e \in S
  PROVE  Inserted(s, n, e) \in Seq(S) /\ Makes(s, n, e, Inserted(s, n, e))
<1> DEFINE p == SubSeq(s, 1, n)
           q == SubSeq(s, n + 1, Len(s))
           r == p \o <<e>>
           t == Inserted(s, n, e)
<1>1. p \in Seq(S) /\ Len(p) = n /\ \A i \in 1..n : p[i] = s[i]
  OBVIOUS
<1>2. q \in Seq(S) /\ Len(q) = Len(s) - n /\ \A i \in 1..(Len(s) - n) : q[i] = s[n + i]
  OBVIOUS
<1> HIDE DEF p, q
<1>3. /\ r \in Seq(S) /\ Len(r) = n + 1 /\ r[n + 1] = e
      /\ \A i \in 1..n : r[i] = s[i]
  <2>1. <<e>> \in Seq(S) /\ Len(<<e>>) = 1 /\ <<e>>[1] = e
    OBVIOUS
  <2>2. /\ r \in Seq(S) /\ Len(r) = Len(p) + 1
        /\ \A i \in 1..(Len(p) + 1) : r[i] = IF i <= Len(p) THEN p[i] ELSE <<e>>[i - Len(p)]
    BY <1>1, <2>1, ConcatProperties
  <2> HIDE DEF r
  <2>3. n \in Nat /\ n + 1 - Len(p) = 1 /\ Len(p) = n
    BY <1>1
  <2>4. r[n + 1] = <<e>>[1]
    BY <2>2, <2>3
  <2>5. ASSUME NEW i \in 1..n PROVE r[i] = s[i]
    <3>1. i \in 1..(Len(p) + 1) /\ i <= Len(p)
      BY <2>3
    <3> QED BY <1>1, <2>2, <3>1
  <2> QED BY <2>1, <2>2, <2>3, <2>4, <2>5
<1>4. t = r \o q
  BY DEF p, q, Inserted
<1> HIDE DEF r, t
<1>5. /\ t \in Seq(S) /\ Len(t) = Len(r) + Len(q)
      /\ \A i \in 1..(Len(r) + Len(q)) : t[i] = IF i <= Len(r) THEN r[i] ELSE q[i - Len(r)]
  <2>1. q \in Seq(S) /\ r \in Seq(S)
    BY <1>2, <1>3
  <2>2. /\ r \o q \in Seq(S) /\ Len(r \o q) = Len(r) + Len(q)
        /\ \A i \in 1..(Len(r) + Len(q)) : (r \o q)[i] = IF i <= Len(r) THEN r[i] ELSE q[i - Len(r)]
    BY <2>1, ConcatProperties
  <2> QED BY <1>4, <2>2
<1>6. /\ Len(r) + Len(q) = Len(s) + 1 /\ Len(s) \in Nat /\ n \in Nat
  <2>1. Len(s) \in Nat /\ n \in Nat /\ n <= Len(s)
    OBVIOUS
  <2> QED BY <1>2, <1>3, <2>1
<1>7. ASSUME NEW i \in 1..(Len(s) + 1)
      PROVE  t[i] = IF i <= n THEN s[i] ELSE IF i = n + 1 THEN e ELSE s[i - 1]
  <2>1. i \in 1..(Len(s) + 1) /\ t[i] = IF i <= n + 1 THEN r[i] ELSE q[i - (n + 1)]
    BY <1>3, <1>5, <1>6
  <2>2. CASE i <= n + 1
    BY <1>3, <1>6, <2>1, <2>2
  <2>3. CASE i > n + 1
    <3>1. i - (n + 1) \in 1..(Len(s) - n) /\ n + (i - (n + 1)) = i - 1
      BY <1>6, <2>1, <2>3
    <3>2. q[i - (n + 1)] = s[i - 1]
      BY <1>2, <3>1
    <3>3. ~(i <= n + 1) /\ ~(i <= n) /\ i # n + 1
      BY <1>6, <2>1, <2>3
    <3> QED BY <2>1, <3>2, <3>3
  <2> QED BY <1>6, <2>1, <2>2, <2>3
<1>8. Makes(s, n, e, t)
  BY <1>5, <1>6, <1>7 DEF Makes
<1> QED BY <1>5, <1>8 DEF t

\* A set of numbers with 0, and with n + 1 for each n in it, is all of them.
LEMMA SetInduction ==
  ASSUME NEW P \in SUBSET Nat, 0 \in P, \A n \in Nat : n \in P => n + 1 \in P
  PROVE  P = Nat
<1> DEFINE R == OpToRel(<, Nat)
           T == Nat \ P
<1> SUFFICES ASSUME T # {} PROVE FALSE
  OBVIOUS
<1>1. IsWellFoundedOn(R, Nat)
  BY NatLessThanWellFounded
<1>2. \A x, y \in Nat : <<x, y>> \in R <=> x < y
  BY DEF OpToRel
<1> HIDE DEF R, T
<1>3. PICK x \in T : \A y \in T : ~ (<<y, x>> \in R)
  BY <1>1, WFMin DEF T
<1>4. x \in Nat /\ x \notin P /\ x # 0
  BY <1>3 DEF T
<1>5. x - 1 \in T /\ <<x - 1, x>> \in R
  BY <1>2, <1>4 DEF T
<1> QED BY <1>3, <1>5

\* Products, for the provers that know only linear arithmetic.
LEMMA TimesNext ==
  ASSUME NEW a \in Nat, NEW b \in Nat
  PROVE  (a + 1) * b = a * b + b
OBVIOUS

LEMMA TimesMono ==
  ASSUME NEW a \in Nat, NEW b \in Nat, NEW c \in Nat, b <= c
  PROVE  a * b <= a * c /\ a * b \in Nat
OBVIOUS

SampleTypes ==
  /\ snaps \in Seq([age : Age, by : Loop])
  /\ held \in [Loop -> 0..MaxDelay]
  /\ watched \in Age \cup {-1}

\* The table is read from the newest sample to the oldest.
Sorted == \A i, k \in DOMAIN snaps : i < k => snaps[i].age <= snaps[k].age

\* A loop about to insert saw its own last sample at least a gap before its clock reading.
Waiting ==
  \A l \in Loop : at[l] = "insert" =>
    \A i \in DOMAIN snaps : snaps[i].by = l /\ snaps[i].age < Horizon
                              => snaps[i].age >= held[l] + Gap

\* The first sample is still there, or as many as are kept.
Oldest ==
  watched # -1 => /\ Len(snaps) > 0
                  /\ snaps[Len(snaps)].age >= watched \/ Len(snaps) >= Keep

Sampled == SampleTypes /\ Sorted /\ SamplesSpaced /\ Waiting /\ Oldest

\* The bounds are numbers.
LEMMA Numbers ==
  /\ Horizon \in Nat /\ MaxDelay \in Nat /\ MaxDelay <= Horizon
  /\ Gap \in Nat /\ Gap > 0 /\ Gap <= Horizon /\ Keep \in Nat /\ Keep > 0
  /\ Day \in Nat /\ Day <= Horizon /\ Poll \in Nat /\ MaxBackoff \in Nat /\ MaxBackoff > 0
BY TimeAssumption, BoundAssumption

\* A step that neither writes the table nor lets a loop come to insert.
LEMMA Unsampled ==
  ASSUME Sampled, UNCHANGED <<snaps, watched>>, held' \in [Loop -> 0..MaxDelay],
         \A l \in Loop : at'[l] = "insert" => at[l] = "insert" /\ held'[l] = held[l]
  PROVE  Sampled'
<1>1. SampleTypes'
  BY DEF Sampled, SampleTypes
<1>2. Sorted' /\ SamplesSpaced' /\ Oldest'
  BY DEF Sampled, Sorted, SamplesSpaced, Oldest
<1>3. Waiting'
  BY DEF Sampled, Waiting
<1> QED BY <1>1, <1>2, <1>3 DEF Sampled

\* The gap is looked at before a loop comes to insert.
LEMMA ReadGapSampled ==
  ASSUME Inv, Sampled, NEW l \in Loop, ReadGap(l)
  PROVE  Sampled'
<1>1. /\ SampleTypes /\ Sorted /\ Waiting /\ at \in [Loop -> {"off", "sleep", "gap", "insert", "prune", "lock", "moving"}]
  BY DEF Sampled, Inv, Types
<1>2. /\ at' = [at EXCEPT ![l] = IF snaps # <<>> /\ snaps[1].age < Gap THEN "lock" ELSE "insert"]
      /\ held' = [held EXCEPT ![l] = 0] /\ UNCHANGED <<snaps, watched>>
  BY DEF ReadGap, Go, ghostVars
<1>3. SampleTypes'
  BY <1>1, <1>2, Numbers DEF SampleTypes
<1>4. Sorted' /\ SamplesSpaced' /\ Oldest'
  BY <1>2 DEF Sampled, Sorted, SamplesSpaced, Oldest
<1>5. ASSUME NEW m \in Loop, at'[m] = "insert", NEW i \in DOMAIN snaps, snaps[i].by = m,
             snaps[i].age < Horizon
      PROVE  snaps[i].age >= held'[m] + Gap
  <2>1. CASE m # l
    BY <1>1, <1>2, <1>5, <2>1 DEF Waiting, SampleTypes
  <2>2. CASE m = l
    <3>1. held'[m] = 0 /\ i \in 1..Len(snaps) /\ snaps \in Seq([age : Age, by : Loop])
      BY <1>1, <1>2, <1>5, <2>2 DEF SampleTypes
    <3>2. snaps # <<>> /\ 1 \in DOMAIN snaps /\ snaps[1].age \in Age /\ snaps[i].age \in Age
      <4>1. Len(snaps) \in Nat /\ DOMAIN snaps = 1..Len(snaps) /\ Len(snaps) > 0
        BY <3>1
      <4>2. 1 \in 1..Len(snaps) /\ i \in 1..Len(snaps)
        BY <3>1, <4>1
      <4>3. snaps[1] \in [age : Age, by : Loop] /\ snaps[i] \in [age : Age, by : Loop]
        BY <3>1, <4>2, ElementOfSeq
      <4> QED BY <4>1, <4>2, <4>3
    <3>3. snaps[1].age >= Gap
      BY <1>1, <1>2, <1>5, <2>2, <3>2, Numbers DEF Age
    <3>4. snaps[1].age <= snaps[i].age
      BY <1>1, <3>1, <3>2 DEF Sorted, Age
    <3> QED BY <3>1, <3>2, <3>3, <3>4, Numbers DEF Age
  <2> QED BY <2>1, <2>2
<1>6. Waiting'
  BY <1>2, <1>5 DEF Waiting
<1> QED BY <1>3, <1>4, <1>6 DEF Sampled

\* The sample takes its place in the order of the times, a gap from the loop's others.
LEMMA InsertSampled ==
  ASSUME Inv, Sampled, NEW l \in Loop, Insert(l)
  PROVE  Sampled' /\ Len(snaps') = Len(snaps) + 1
<1> DEFINE S == [age : Age, by : Loop]
           e == [age |-> held[l], by |-> l]
           h == held[l]
           L == Len(snaps)
<1>1. SampleTypes /\ Sorted /\ SamplesSpaced /\ Waiting /\ Oldest /\ Types
  BY DEF Sampled, Inv
<1>2. /\ at[l] = "insert" /\ at' = [at EXCEPT ![l] = "prune"]
      /\ held' = [held EXCEPT ![l] = 0]
      /\ watched' = IF watched = -1 THEN h ELSE watched
  BY DEF Insert, Go
<1>3. PICK n \in 0..Len(snaps) :
        /\ \A i \in DOMAIN snaps : snaps[i].age < held[l] <=> i <= n
        /\ snaps' = SubSeq(snaps, 1, n) \o <<[age |-> held[l], by |-> l]>>
                      \o SubSeq(snaps, n + 1, Len(snaps))
  BY DEF Insert
<1>4. h \in 0..MaxDelay /\ h \in Age /\ e \in S /\ snaps \in Seq(S) /\ e.age = h /\ e.by = l
  BY <1>1, Numbers DEF SampleTypes, Age
<1>5. /\ snaps' \in Seq(S) /\ Len(snaps') = L + 1
      /\ \A i \in 1..Len(snaps') :
           snaps'[i] = IF i <= n THEN snaps[i] ELSE IF i = n + 1 THEN e ELSE snaps[i - 1]
  <2>1. snaps' = Inserted(snaps, n, e)
    BY <1>3 DEF Inserted
  <2> HIDE DEF e, S
  <2>2. n \in 0..Len(snaps) /\ snaps \in Seq(S) /\ e \in S
    BY <1>3, <1>4
  <2>3. snaps' \in Seq(S) /\ Makes(snaps, n, e, snaps')
    BY <2>1, <2>2, InsertedAt
  <2> QED BY <2>3 DEF Makes
<1>6. L \in Nat /\ n \in 0..L /\ DOMAIN snaps = 1..L /\ DOMAIN snaps' = 1..(L + 1)
  <2>1. L \in Nat /\ n \in 0..L /\ DOMAIN snaps = 1..L
    BY <1>3, <1>4
  <2>2. DOMAIN snaps' = 1..Len(snaps')
    BY <1>5
  <2> QED BY <1>5, <2>1, <2>2
<1>7. \A i \in 1..L : /\ snaps[i].age \in Age /\ snaps[i].by \in Loop
                      /\ i <= n <=> snaps[i].age < h
  <2> SUFFICES ASSUME NEW i \in 1..L
               PROVE  /\ snaps[i].age \in Age /\ snaps[i].by \in Loop
                      /\ i <= n <=> snaps[i].age < h
    OBVIOUS
  <2>1. snaps[i] \in S
    BY <1>4, ElementOfSeq
  <2>2. i <= n <=> snaps[i].age < held[l]
    BY <1>3, <1>6
  <2> QED BY <2>1, <2>2
<1> HIDE DEF e, h, L, S
<1>8. ASSUME NEW i \in 1..L, snaps[i].by = l, snaps[i].age < Horizon
      PROVE  snaps[i].age >= h + Gap
  BY <1>1, <1>2, <1>6, <1>8 DEF Waiting, h
<1>9. ASSUME NEW i \in 1..L, NEW k \in 1..L, i < k
      PROVE  /\ snaps[i].age <= snaps[k].age
             /\ snaps[i].by = snaps[k].by /\ snaps[k].age < Horizon
                  => snaps[k].age - snaps[i].age >= Gap
  BY <1>1, <1>6, <1>9 DEF Sorted, SamplesSpaced
<1>10. ASSUME NEW i \in 1..(L + 1), NEW k \in 1..(L + 1), i < k
       PROVE  /\ snaps'[i].age <= snaps'[k].age
              /\ snaps'[i].by = snaps'[k].by /\ snaps'[k].age < Horizon
                   => snaps'[k].age - snaps'[i].age >= Gap
  <2>1. /\ snaps'[i] = IF i <= n THEN snaps[i] ELSE IF i = n + 1 THEN e ELSE snaps[i - 1]
        /\ snaps'[k] = IF k <= n THEN snaps[k] ELSE IF k = n + 1 THEN e ELSE snaps[k - 1]
    BY <1>5, <1>6
  <2>2. CASE k <= n
    BY <1>6, <1>9, <1>10, <2>1, <2>2
  <2>3. CASE k = n + 1
    <3>1. i \in 1..L /\ i <= n /\ snaps'[i] = snaps[i] /\ snaps'[k] = e
      BY <1>6, <1>10, <2>1, <2>3
    <3>2. snaps[i].age < h /\ h \in Age /\ snaps[i].age \in Age
      BY <1>4, <1>7, <3>1
    <3>3. snaps[i].by # l
      BY <1>8, <3>1, <3>2, Numbers DEF Age
    <3> QED BY <1>4, <3>1, <3>2, <3>3 DEF Age
  <2>4. CASE k > n + 1 /\ i = n + 1
    <3>1. k - 1 \in 1..L /\ ~(k - 1 <= n) /\ snaps'[i] = e /\ snaps'[k] = snaps[k - 1]
      BY <1>6, <1>10, <2>1, <2>4
    <3>2. snaps[k - 1].age >= h /\ snaps[k - 1].age \in Age /\ h \in Age
      BY <1>4, <1>7, <3>1 DEF Age
    <3>3. snaps[k - 1].by = l /\ snaps[k - 1].age < Horizon => snaps[k - 1].age >= h + Gap
      BY <1>8, <3>1
    <3> QED BY <1>4, <3>1, <3>2, <3>3, Numbers DEF Age
  <2>5. CASE k > n + 1 /\ i <= n
    <3>1. i \in 1..L /\ k - 1 \in 1..L /\ i < k - 1 /\ snaps'[i] = snaps[i]
          /\ snaps'[k] = snaps[k - 1]
      BY <1>6, <1>10, <2>1, <2>5
    <3> QED BY <1>9, <3>1
  <2>6. CASE i > n + 1
    <3>1. i - 1 \in 1..L /\ k - 1 \in 1..L /\ i - 1 < k - 1 /\ snaps'[i] = snaps[i - 1]
          /\ snaps'[k] = snaps[k - 1]
      BY <1>6, <1>10, <2>1, <2>6
    <3> QED BY <1>9, <3>1
  <2> QED BY <1>6, <1>10, <2>2, <2>3, <2>4, <2>5, <2>6
<1>11. Sorted' /\ SamplesSpaced'
  BY <1>6, <1>10 DEF Sorted, SamplesSpaced
<1>12. SampleTypes'
  BY <1>1, <1>2, <1>4, <1>5, Numbers DEF SampleTypes, S
<1>13. ASSUME NEW m \in Loop, at'[m] = "insert", NEW i \in 1..(L + 1), snaps'[i].by = m,
              snaps'[i].age < Horizon
       PROVE  snaps'[i].age >= held'[m] + Gap
  <2>1. m # l /\ at[m] = "insert" /\ held'[m] = held[m]
    BY <1>1, <1>2, <1>13 DEF Types, SampleTypes
  <2>2. PICK j \in 1..L : snaps'[i] = snaps[j]
    <3>1. i # n + 1
      BY <1>4, <1>5, <1>6, <1>13, <2>1
    <3> QED BY <1>5, <1>6, <3>1
  <2> QED BY <1>1, <1>6, <1>13, <2>1, <2>2 DEF Waiting
<1>14. Waiting'
  BY <1>6, <1>13 DEF Waiting
<1>15. Oldest'
  <2>1. L + 1 \in 1..(L + 1) /\ Len(snaps') = L + 1 /\ L + 1 > 0
    BY <1>5, <1>6
  <2>2. snaps'[L + 1] = IF n = L THEN e ELSE snaps[L]
    BY <1>5, <1>6, <2>1
  <2>3. L > 0 => snaps[L].age \in Age /\ (n = L <=> snaps[L].age < h)
    BY <1>6, <1>7
  <2>4. h \in Age /\ watched \in Age \cup {-1}
    BY <1>1, <1>4 DEF SampleTypes
  <2>5. CASE watched = -1
    BY <1>2, <1>4, <1>6, <2>1, <2>2, <2>3, <2>4, <2>5 DEF Oldest, Age
  <2>6. CASE watched # -1
    <3>1. L > 0 /\ (snaps[L].age >= watched \/ L >= Keep)
      BY <1>1, <2>6 DEF Oldest, L
    <3> QED BY <1>2, <1>4, <1>6, <2>1, <2>2, <2>3, <2>4, <2>6, <3>1, Numbers DEF Oldest, Age
  <2> QED BY <2>5, <2>6
<1> QED BY <1>5, <1>11, <1>12, <1>14, <1>15 DEF Sampled, L

\* Pruning leaves the newest samples, as many as are kept.
LEMMA PruneSampled ==
  ASSUME Inv, Sampled, NEW l \in Loop, Prune(l)
  PROVE  Sampled' /\ Len(snaps') <= Keep
<1> DEFINE m == IF Len(snaps) < Keep THEN Len(snaps) ELSE Keep
<1>1. SampleTypes /\ Sorted /\ SamplesSpaced /\ Waiting /\ Oldest /\ Types
  BY DEF Sampled, Inv
<1>2. /\ at' = [at EXCEPT ![l] = "lock"] /\ snaps' = SubSeq(snaps, 1, m)
      /\ UNCHANGED <<held, watched>>
  BY DEF Prune, Go, ghostVars
<1>3. /\ snaps \in Seq([age : Age, by : Loop]) /\ Len(snaps) \in Nat /\ m \in 0..Len(snaps)
      /\ m <= Keep /\ (m = Len(snaps) \/ m = Keep)
  BY <1>1, Numbers DEF SampleTypes
<1> HIDE DEF m
<1>4. /\ snaps' \in Seq([age : Age, by : Loop]) /\ Len(snaps') = m /\ DOMAIN snaps' = 1..m
      /\ DOMAIN snaps = 1..Len(snaps)
      /\ \A i \in 1..m : snaps'[i] = snaps[i] /\ i \in DOMAIN snaps
  <2> DEFINE S == [age : Age, by : Loop]
             t == SubSeq(snaps, 1, m)
  <2> HIDE DEF S
  <2>1. snaps \in Seq(S)
    BY <1>3 DEF S
  <2>2. t \in Seq(S) /\ Len(t) = m /\ DOMAIN t = 1..m /\ \A i \in 1..m : t[i] = snaps[i]
    BY <1>3, <2>1
  <2>3. DOMAIN snaps = 1..Len(snaps) /\ \A i \in 1..m : i \in 1..Len(snaps)
    BY <1>3, <2>1
  <2> QED BY <1>2, <2>2, <2>3 DEF S
<1>5. SampleTypes' /\ Sorted' /\ SamplesSpaced'
  <2>1. SampleTypes'
    BY <1>1, <1>2, <1>4 DEF SampleTypes
  <2>2. Sorted'
    BY <1>1, <1>4 DEF Sorted
  <2>3. SamplesSpaced'
    BY <1>1, <1>4 DEF SamplesSpaced
  <2> QED BY <2>1, <2>2, <2>3
<1>6. Waiting'
  <2>1. \A k \in Loop : at'[k] = "insert" => at[k] = "insert"
    BY <1>1, <1>2 DEF Types
  <2> QED BY <1>1, <1>2, <1>4, <2>1 DEF Waiting
<1>7. Oldest'
  <2> SUFFICES ASSUME watched # -1
               PROVE  m > 0 /\ (snaps'[m].age >= watched \/ m >= Keep)
    BY <1>2, <1>4 DEF Oldest
  <2>1. Len(snaps) > 0 /\ (snaps[Len(snaps)].age >= watched \/ Len(snaps) >= Keep)
    BY <1>1 DEF Oldest
  <2>2. CASE m = Len(snaps)
    BY <1>3, <1>4, <2>1, <2>2
  <2>3. CASE m = Keep
    BY <1>3, <2>3, Numbers
  <2> QED BY <1>3, <2>2, <2>3
<1> QED BY <1>3, <1>4, <1>5, <1>6, <1>7 DEF Sampled

\* Time passes for every sample and clock reading alike.
LEMMA TickSampled ==
  ASSUME Inv, Sampled, Tick
  PROVE  Sampled' /\ Len(snaps') = Len(snaps)
<1>1. SampleTypes /\ Sorted /\ SamplesSpaced /\ Waiting /\ Oldest
  BY DEF Sampled
<1>2. /\ \A l \in Loop : at[l] = "insert" => held[l] < MaxDelay
      /\ snaps' = [i \in DOMAIN snaps |-> [snaps[i] EXCEPT !.age = Older(@)]]
      /\ held' = [l \in Loop |-> IF at[l] = "insert" THEN held[l] + 1 ELSE held[l]]
      /\ watched' = (IF watched = -1 THEN -1 ELSE Older(watched)) /\ at' = at
  BY DEF Tick
<1>3. \A age \in Age : Older(age) \in Age /\ Older(age) = IF age < Horizon THEN age + 1 ELSE Horizon
  BY Numbers DEF Older, Age
<1>4. snaps \in Seq([age : Age, by : Loop]) /\ DOMAIN snaps = 1..Len(snaps) /\ Len(snaps) \in Nat
      /\ \A i \in DOMAIN snaps : snaps[i] \in [age : Age, by : Loop]
  <2> DEFINE S == [age : Age, by : Loop]
  <2>1. snaps \in Seq(S)
    BY <1>1 DEF SampleTypes
  <2> HIDE DEF S
  <2>2. Len(snaps) \in Nat /\ DOMAIN snaps = 1..Len(snaps)
    BY <2>1
  <2>3. \A i \in 1..Len(snaps) : snaps[i] \in S
    BY <2>1, ElementOfSeq
  <2> QED BY <2>1, <2>2, <2>3 DEF S
<1>5. DOMAIN snaps' = DOMAIN snaps /\ \A i \in DOMAIN snaps :
        /\ snaps'[i].age = Older(snaps[i].age) /\ snaps'[i].by = snaps[i].by
        /\ snaps'[i] \in [age : Age, by : Loop]
  BY <1>2, <1>3, <1>4
<1>6. snaps' \in Seq([age : Age, by : Loop]) /\ Len(snaps') = Len(snaps)
  <2> DEFINE S == [age : Age, by : Loop]
             f == [i \in DOMAIN snaps |-> [snaps[i] EXCEPT !.age = Older(@)]]
  <2>1. f = snaps' /\ f = [i \in 1..Len(snaps) |-> f[i]] /\ \A i \in 1..Len(snaps) : f[i] \in S
    BY <1>2, <1>4, <1>5
  <2> HIDE DEF S, f
  <2>2. f \in Seq(S) /\ Len(f) = Len(snaps)
    BY <1>4, <2>1
  <2> QED BY <2>1, <2>2 DEF S
<1>7. \A i \in DOMAIN snaps : snaps[i].age \in Age /\ snaps'[i].age \in Age
  BY <1>4, <1>5
<1>8. SampleTypes'
  <2>1. held' \in [Loop -> 0..MaxDelay]
    BY <1>1, <1>2, Numbers DEF SampleTypes
  <2>2. watched' \in Age \cup {-1}
    BY <1>1, <1>2, <1>3 DEF SampleTypes
  <2> QED BY <1>6, <2>1, <2>2 DEF SampleTypes
<1>9. Sorted' /\ SamplesSpaced'
  <2>1. ASSUME NEW i \in DOMAIN snaps, NEW k \in DOMAIN snaps, i < k
        PROVE  /\ snaps'[i].age <= snaps'[k].age
               /\ snaps'[i].by = snaps'[k].by /\ snaps'[k].age < Horizon
                    => snaps'[k].age - snaps'[i].age >= Gap
    <3>1. snaps[i].age <= snaps[k].age /\ (snaps[i].by = snaps[k].by /\ snaps[k].age < Horizon
             => snaps[k].age - snaps[i].age >= Gap)
      BY <1>1, <2>1 DEF Sorted, SamplesSpaced
    <3>2. snaps[i].age \in Age /\ snaps[k].age \in Age
      BY <1>7
    <3>3. /\ snaps'[i].age = IF snaps[i].age < Horizon THEN snaps[i].age + 1 ELSE Horizon
          /\ snaps'[k].age = IF snaps[k].age < Horizon THEN snaps[k].age + 1 ELSE Horizon
      BY <1>3, <1>5, <3>2
    <3>4. snaps'[i].by = snaps[i].by /\ snaps'[k].by = snaps[k].by
      BY <1>5
    <3> QED BY <3>1, <3>2, <3>3, <3>4, Numbers DEF Age
  <2> QED BY <1>5, <2>1 DEF Sorted, SamplesSpaced
<1>10. Waiting'
  <2>1. ASSUME NEW l \in Loop, at'[l] = "insert", NEW i \in DOMAIN snaps, snaps'[i].by = l,
               snaps'[i].age < Horizon
        PROVE  snaps'[i].age >= held'[l] + Gap
    <3>1. at[l] = "insert" /\ snaps[i].by = l /\ snaps[i].age \in Age /\ held[l] \in Nat
          /\ held'[l] = held[l] + 1
      <4>1. at[l] = "insert" /\ held'[l] = held[l] + 1 /\ held[l] \in 0..MaxDelay
        BY <1>1, <1>2, <2>1 DEF SampleTypes
      <4>2. snaps[i].by = l /\ snaps[i].age \in Age
        BY <1>5, <1>7, <2>1
      <4> QED BY <4>1, <4>2, Numbers
    <3>2. snaps'[i].age = IF snaps[i].age < Horizon THEN snaps[i].age + 1 ELSE Horizon
      BY <1>3, <1>5, <3>1
    <3>3. snaps[i].age < Horizon
      BY <2>1, <3>1, <3>2, Numbers DEF Age
    <3>4. snaps[i].age >= held[l] + Gap
      BY <1>1, <3>1, <3>3 DEF Waiting
    <3> QED BY <3>1, <3>2, <3>3, <3>4, Numbers DEF Age
  <2> QED BY <1>5, <2>1 DEF Waiting
<1>11. Oldest'
  <2> SUFFICES ASSUME watched' # -1
               PROVE  Len(snaps) > 0 /\ (snaps'[Len(snaps)].age >= watched' \/ Len(snaps) >= Keep)
    BY <1>6 DEF Oldest
  <2>1. watched # -1 /\ watched \in Age /\ watched' = Older(watched)
    BY <1>1, <1>2 DEF SampleTypes
  <2>2. Len(snaps) > 0 /\ (snaps[Len(snaps)].age >= watched \/ Len(snaps) >= Keep)
    BY <1>1, <2>1 DEF Oldest
  <2>3. Len(snaps) \in DOMAIN snaps
    BY <1>4, <2>2
  <2>4. snaps[Len(snaps)].age \in Age /\ snaps'[Len(snaps)].age = Older(snaps[Len(snaps)].age)
    BY <1>5, <1>7, <2>3
  <2>5. /\ snaps'[Len(snaps)].age = IF snaps[Len(snaps)].age < Horizon
                                      THEN snaps[Len(snaps)].age + 1 ELSE Horizon
        /\ watched' = IF watched < Horizon THEN watched + 1 ELSE Horizon
    BY <1>3, <2>1, <2>4
  <2> QED BY <2>1, <2>2, <2>4, <2>5, Numbers DEF Age
<1> QED BY <1>6, <1>8, <1>9, <1>10, <1>11 DEF Sampled

\* A restart takes the clock readings of its loops with it.
LEMMA RestartSampled ==
  ASSUME Inv, Sampled, NEW loops \in SUBSET Loop, NEW requests \in SUBSET Request,
         Restart(loops, requests)
  PROVE  Sampled'
<1>1. /\ at' = [l \in Loop |-> IF l \notin loops THEN at[l]
                              ELSE IF l \in Boot THEN "sleep" ELSE "off"]
      /\ held' = [l \in Loop |-> IF l \in loops THEN 0 ELSE held[l]]
      /\ UNCHANGED <<snaps, watched>>
  BY DEF Restart, Reset
<1>2. held \in [Loop -> 0..MaxDelay]
  BY DEF Sampled, SampleTypes
<1>3. held' \in [Loop -> 0..MaxDelay]
  BY <1>1, <1>2, Numbers
<1>4. \A l \in Loop : at'[l] = "insert" => at[l] = "insert" /\ held'[l] = held[l]
  BY <1>1
<1> QED BY <1>1, <1>3, <1>4, Unsampled

\* Every step of a pass.
LEMMA PassSampled ==
  ASSUME Inv, Sampled, NEW l \in Loop, Pass(l)
  PROVE  Sampled'
<1>1. at \in [Loop -> {"off", "sleep", "gap", "insert", "prune", "lock", "moving"}]
      /\ held \in [Loop -> 0..MaxDelay]
  BY DEF Inv, Types, Sampled, SampleTypes
<1>2. ASSUME UNCHANGED <<snaps, held, watched>>,
             NEW to \in {"sleep", "gap", "lock", "moving"}, at' = [at EXCEPT ![l] = to]
      PROVE  Sampled'
  <2>1. \A k \in Loop : at'[k] = "insert" => at[k] = "insert" /\ held'[k] = held[k]
    BY <1>1, <1>2
  <2> QED BY <1>1, <1>2, <2>1, Unsampled
<1>3. CASE Wake(l)
  <2>1. UNCHANGED <<snaps, held, watched>>
    BY <1>3 DEF Wake
  <2>2. \E to \in {"sleep", "gap", "lock"} : at' = [at EXCEPT ![l] = to]
    BY <1>3 DEF Wake, Check, Succeed, Failed
  <2> QED BY <1>2, <2>1, <2>2
<1>4. CASE ReadGap(l)
  BY <1>4, ReadGapSampled
<1>5. CASE Insert(l)
  BY <1>5, InsertSampled
<1>6. CASE Prune(l)
  BY <1>6, PruneSampled
<1>7. CASE PruneFails(l)
  BY <1>2, <1>7 DEF PruneFails, Go, ghostVars
<1>8. CASE NotBegun(l) \/ End(l)
  <2>1. UNCHANGED <<snaps, held, watched>> /\ at' = [at EXCEPT ![l] = "sleep"]
    BY <1>8 DEF NotBegun, End, Succeed, Failed
  <2> QED BY <1>2, <2>1
<1>9. CASE Begin(l)
  BY <1>2, <1>9 DEF Begin, Go
<1> QED BY <1>3, <1>4, <1>5, <1>6, <1>7, <1>8, <1>9 DEF Pass

\* Every step keeps the table in order.
LEMMA NextSampled == Inv /\ Sampled /\ [Next]_vars => Sampled'
<1> SUFFICES ASSUME Inv, Sampled, [Next]_vars PROVE Sampled'
  OBVIOUS
<1>1. at \in [Loop -> {"off", "sleep", "gap", "insert", "prune", "lock", "moving"}]
      /\ held \in [Loop -> 0..MaxDelay]
  BY DEF Inv, Types, Sampled, SampleTypes
<1>2. ASSUME UNCHANGED <<snaps, held, watched, at>> PROVE Sampled'
  BY <1>1, <1>2, Unsampled
<1>3. CASE UNCHANGED vars
  BY <1>2, <1>3 DEF vars, loopVars, ghostVars
<1>4. ASSUME NEW l \in Loop, Pass(l) PROVE Sampled'
  BY <1>4, PassSampled
<1>5. ASSUME NEW r \in Request, Activate(r) \/ Serve(r) \/ Execute(r) PROVE Sampled'
  <2>1. CASE StartLoop(r)
    <3>1. UNCHANGED <<snaps, held, watched>>
      BY <2>1 DEF StartLoop, ghostVars
    <3>2. PICK l \in Local \ Alive : at' = [at EXCEPT ![l] = "sleep"]
      BY <2>1 DEF StartLoop
    <3>3. \A k \in Loop : at'[k] = "insert" => at[k] = "insert" /\ held'[k] = held[k]
      BY <1>1, <3>1, <3>2
    <3> QED BY <1>1, <3>1, <3>3, Unsampled
  <2>2. CASE Activate(r) \/ Look(r) \/ Executed(r) \/ Execute(r)
    BY <1>2, <2>2 DEF Activate, Look, Executed, Execute, loopVars, ghostVars
  <2> QED BY <1>5, <2>1, <2>2 DEF Serve
<1>6. CASE Pause
  BY <1>2, <1>6 DEF Pause, loopVars
<1>7. CASE Tick
  BY <1>7, TickSampled
<1>8. CASE Restart(Local, Request) \/ Restart(Loop \ Local, {})
  BY <1>8, RestartSampled, LoopAssumption
<1> QED BY <1>3, <1>4, <1>5, <1>6, <1>7, <1>8 DEF Next

\* The table starts empty.
LEMMA InitSampled == Init => Sampled
<1> SUFFICES ASSUME Init PROVE Sampled
  OBVIOUS
<1>1. snaps = <<>> /\ held = [l \in Loop |-> 0] /\ watched = -1
      /\ at = [l \in Loop |-> IF l \in Boot THEN "sleep" ELSE "off"]
  BY DEF Init
<1>2. snaps \in Seq([age : Age, by : Loop]) /\ DOMAIN snaps = {}
  BY <1>1
<1>3. SampleTypes
  BY <1>1, <1>2, Numbers DEF SampleTypes
<1>4. Sorted /\ SamplesSpaced /\ Waiting /\ Oldest
  BY <1>1, <1>2 DEF Sorted, SamplesSpaced, Waiting, Oldest
<1> QED BY <1>3, <1>4 DEF Sampled

\* The table's invariant, next to that of the loops.
LEMMA SampledAlways == Spec => [](Inv /\ Sampled)
<1>1. Inv /\ Sampled /\ [Next]_vars => (Inv /\ Sampled)'
  BY NextInv, NextSampled
<1> QED BY InitInv, InitSampled, <1>1, PTL DEF Spec

\* Two samples of one loop are never closer than the gap, whoever else writes samples.
THEOREM SamplesAreSpaced == Spec => []SamplesSpaced
BY SampledAlways, PTL DEF Sampled

-----------------------------------------------------------------------------
\* Of samples a gap apart the n-th after the newest is n gaps old, or as old as ages go.
LEMMA GapsAddUp ==
  ASSUME Sampled, \A i, k \in DOMAIN snaps : snaps[i].by = snaps[k].by
  PROVE  \A n \in Nat : n + 1 \in DOMAIN snaps =>
           snaps[n + 1].age >= n * Gap \/ snaps[n + 1].age = Horizon
<1> DEFINE Old(n) == snaps[n + 1].age >= n * Gap \/ snaps[n + 1].age = Horizon
           P == {n \in Nat : n + 1 \in DOMAIN snaps => Old(n)}
<1>1. /\ SampleTypes /\ Sorted /\ SamplesSpaced /\ Gap \in Nat /\ Horizon \in Nat
  BY Numbers DEF Sampled
<1>2. /\ Len(snaps) \in Nat /\ DOMAIN snaps = 1..Len(snaps)
      /\ \A i \in DOMAIN snaps : snaps[i].age \in 0..Horizon
  <2> DEFINE S == [age : Age, by : Loop]
  <2>1. snaps \in Seq(S)
    BY <1>1 DEF SampleTypes
  <2> HIDE DEF S
  <2>2. Len(snaps) \in Nat /\ DOMAIN snaps = 1..Len(snaps)
    BY <2>1
  <2>3. \A i \in 1..Len(snaps) : snaps[i] \in S
    BY <2>1, ElementOfSeq
  <2> QED BY <2>2, <2>3 DEF S, Age
<1>3. 0 \in P
  <2>1. 0 * Gap = 0 /\ 0 + 1 = 1
    BY <1>1
  <2> QED BY <1>1, <1>2, <2>1
<1>4. ASSUME NEW n \in Nat, n \in P PROVE n + 1 \in P
  <2> SUFFICES ASSUME n + 2 \in DOMAIN snaps
               PROVE  snaps[n + 2].age >= (n + 1) * Gap \/ snaps[n + 2].age = Horizon
    <3>1. n + 1 \in Nat /\ n + 1 + 1 = n + 2
      OBVIOUS
    <3> QED BY <3>1
  <2>1. n + 1 \in DOMAIN snaps /\ n + 1 < n + 2
    BY <1>2
  <2>2. snaps[n + 1].age >= n * Gap \/ snaps[n + 1].age = Horizon
    BY <1>4, <2>1
  <2>3. snaps[n + 2].age = Horizon \/ snaps[n + 2].age - snaps[n + 1].age >= Gap
    BY <1>1, <1>2, <2>1 DEF SamplesSpaced
  <2>4. snaps[n + 1].age <= snaps[n + 2].age
    BY <1>1, <2>1 DEF Sorted
  <2>5. /\ (n + 1) * Gap = n * Gap + Gap /\ n * Gap \in Nat
        /\ snaps[n + 1].age \in 0..Horizon /\ snaps[n + 2].age \in 0..Horizon
    BY <1>1, <1>2, <2>1, TimesNext, TimesMono
  <2> DEFINE a == snaps[n + 1].age
             b == snaps[n + 2].age
             g == n * Gap
  <2> HIDE DEF a, b, g
  <2> QED BY <1>1, <2>2, <2>3, <2>4, <2>5 DEF a, b, g
<1>5. P \in SUBSET Nat
  OBVIOUS
<1> HIDE DEF P
<1>6. P = Nat
  BY <1>3, <1>4, <1>5, SetInduction
<1> QED BY <1>6 DEF P

\* The samples that are kept cover a day once a loop has watched for one: the pruning
\* never takes the sample that fees_24h subtracts from.
THEOREM DayIsCovered == Spec => []DayCovered
<1>1. Inv /\ Sampled => DayCovered
  <2> SUFFICES ASSUME Sampled, watched >= Day,
                      \A i, k \in DOMAIN snaps : snaps[i].by = snaps[k].by
               PROVE  snaps # <<>> /\ snaps[Len(snaps)].age >= Day
    BY DEF DayCovered, Complete
  <2> DEFINE L == Len(snaps)
             last == snaps[L].age
  <2>1. SampleTypes /\ Oldest
    BY DEF Sampled
  <2>2. watched # -1 /\ watched \in Age
    BY <2>1, Numbers DEF SampleTypes
  <2>3. /\ snaps \in Seq([age : Age, by : Loop])
        /\ L > 0 /\ (last >= watched \/ L >= Keep)
    BY <2>1, <2>2 DEF Oldest, SampleTypes
  <2>4. L \in Nat /\ DOMAIN snaps = 1..L /\ L \in 1..L
    BY <2>3
  <2>5. last \in Age
    <3>1. snaps[L] \in [age : Age, by : Loop]
      BY <2>3, <2>4, ElementOfSeq
    <3> QED BY <3>1
  <2>6. CASE last >= watched
    BY <2>2, <2>3, <2>4, <2>5, <2>6, Numbers DEF Age
  <2>7. CASE L >= Keep
    <3>1. L - 1 \in Nat /\ (L - 1) + 1 = L /\ Keep - 1 \in Nat /\ Keep - 1 <= L - 1
      BY <2>3, <2>4, <2>7, Numbers
    <3>2. last >= (L - 1) * Gap \/ last = Horizon
      BY <2>4, <3>1, GapsAddUp
    <3>3. (Keep - 1) * Gap <= (L - 1) * Gap /\ (Keep - 1) * Gap \in Nat /\ (L - 1) * Gap \in Nat
      <4> DEFINE a == Keep - 1
                 b == L - 1
      <4>1. a \in Nat /\ b \in Nat /\ a <= b /\ Gap \in Nat
        BY <3>1, Numbers
      <4> HIDE DEF a, b
      <4>2. Gap * a <= Gap * b /\ Gap * a \in Nat /\ Gap * b \in Nat
        BY <4>1, TimesMono
      <4>3. Gap * a = a * Gap /\ Gap * b = b * Gap
        BY <4>1
      <4> QED BY <4>2, <4>3 DEF a, b
    <3>4. (Keep - 1) * Gap >= Day
      BY KeepAssumption
    <3>5. last >= Day
      <4> DEFINE c == (Keep - 1) * Gap
                 d == (L - 1) * Gap
      <4>1. (last >= d \/ last = Horizon) /\ c <= d /\ c >= Day /\ c \in Nat /\ d \in Nat
        BY <3>2, <3>3, <3>4
      <4> HIDE DEF c, d, last
      <4> QED BY <2>5, <4>1, Numbers DEF Age
    <3> QED BY <2>3, <2>4, <3>5
  <2> QED BY <2>3, <2>6, <2>7
<1> QED BY <1>1, SampledAlways, PTL

-----------------------------------------------------------------------------
(* The size of the table. *)

Pruning == {l \in Loop : at[l] = "prune"}
Counted == faults \in Nat /\ SamplesBounded

\* Sets of loops can be counted.
LEMMA LoopsCount ==
  ASSUME NEW P \in SUBSET Loop
  PROVE  IsFiniteSet(P) /\ Cardinality(P) \in Nat
BY LoopAssumption, FS_Subset, FS_CardinalityType

\* The crowd is no less than what either process restarts, and than one loop.
LEMMA CrowdCount ==
  /\ Crowd \in Nat /\ Cardinality(Local) <= Crowd /\ Cardinality(Loop \ Local) <= Crowd
  /\ \A l \in Loop : Crowd >= 1
<1>1. /\ IsFiniteSet(Local) /\ Cardinality(Local) \in Nat
      /\ IsFiniteSet(Loop \ Local) /\ Cardinality(Loop \ Local) \in Nat
  BY LoopsCount, LoopAssumption
<1>2. Crowd \in Nat /\ Cardinality(Local) <= Crowd /\ Cardinality(Loop \ Local) <= Crowd
  BY <1>1 DEF Crowd
<1>3. ASSUME NEW l \in Loop PROVE Crowd >= 1
  <2>1. \A P \in SUBSET Loop : IsFiniteSet(P) /\ l \in P => Cardinality(P) >= 1
    <3> SUFFICES ASSUME NEW P \in SUBSET Loop, IsFiniteSet(P), l \in P PROVE Cardinality(P) >= 1
      OBVIOUS
    <3>1. Cardinality(P) \in Nat /\ Cardinality(P) # 0
      BY LoopsCount, FS_EmptySet
    <3> QED BY <3>1
  <2>2. Local \in SUBSET Loop /\ Loop \ Local \in SUBSET Loop /\ (l \in Local \/ l \in Loop \ Local)
    BY LoopAssumption
  <2>3. Cardinality(Local) >= 1 \/ Cardinality(Loop \ Local) >= 1
    BY <1>1, <2>1, <2>2
  <2> QED BY <1>1, <1>2, <2>3
<1> QED BY <1>2, <1>3

\* What the count says, in numbers.
LEMMA CountedAs ==
  ASSUME Sampled, Counted
  PROVE  /\ Len(snaps) \in Nat /\ faults * Crowd \in Nat /\ Cardinality(Pruning) \in Nat
         /\ Len(snaps) <= Keep + faults * Crowd + Cardinality(Pruning)
<1>1. Len(snaps) \in Nat
  BY DEF Sampled, SampleTypes
<1>2. faults * Crowd \in Nat
  BY CrowdCount, TimesMono DEF Counted
<1>3. Cardinality(Pruning) \in Nat
  BY LoopsCount DEF Pruning
<1> QED BY <1>1, <1>2, <1>3 DEF Counted, SamplesBounded, Pruning

\* A step that writes no sample and begins or ends no pruning.
LEMMA SameCount ==
  ASSUME Counted, Len(snaps') = Len(snaps), faults' = faults, Pruning' = Pruning
  PROVE  Counted'
BY DEF Counted, SamplesBounded, Pruning

\* An INSERT adds a sample and a loop that has yet to prune.
LEMMA InsertCounted ==
  ASSUME Inv, Sampled, Counted, NEW l \in Loop, Insert(l)
  PROVE  Counted'
<1>1. Len(snaps') = Len(snaps) + 1 /\ faults' = faults
  BY InsertSampled DEF Insert
<1>2. at[l] = "insert" /\ at' = [at EXCEPT ![l] = "prune"]
      /\ at \in [Loop -> {"off", "sleep", "gap", "insert", "prune", "lock", "moving"}]
  BY DEF Inv, Types, Insert, Go
<1>3. Pruning' = Pruning \cup {l} /\ l \notin Pruning
  BY <1>2 DEF Pruning
<1>4. Cardinality(Pruning') = Cardinality(Pruning) + 1
  <2>1. IsFiniteSet(Pruning)
    BY LoopsCount DEF Pruning
  <2> QED BY <1>3, <2>1, FS_AddElement
<1>5. Len(snaps') <= Keep + faults' * Crowd + Cardinality(Pruning')
  <2> DEFINE f == faults * Crowd
             c == Cardinality(Pruning)
             n == Len(snaps)
  <2>1. n \in Nat /\ f \in Nat /\ c \in Nat /\ n <= Keep + f + c /\ Keep \in Nat
    BY CountedAs, Numbers
  <2> HIDE DEF f, c, n
  <2>2. n + 1 <= Keep + f + (c + 1)
    BY <2>1
  <2> QED BY <1>1, <1>4, <2>2 DEF f, c, n
<1> QED BY <1>1, <1>5 DEF Counted, SamplesBounded, Pruning

\* A DELETE leaves no more than is kept.
LEMMA PruneCounted ==
  ASSUME Inv, Sampled, Counted, NEW l \in Loop, Prune(l)
  PROVE  Counted'
<1>1. Len(snaps') <= Keep /\ Len(snaps') \in Nat /\ faults' = faults
  BY PruneSampled DEF Prune, Sampled, SampleTypes
<1>2. Cardinality(Pruning') \in Nat /\ faults * Crowd \in Nat
  BY LoopsCount, CountedAs DEF Pruning
<1>3. Len(snaps') <= Keep + faults' * Crowd + Cardinality(Pruning')
  <2> DEFINE f == faults * Crowd
  <2>1. f \in Nat
    BY <1>2
  <2> HIDE DEF f
  <2>2. Len(snaps') <= Keep + f + Cardinality(Pruning')
    BY <1>1, <1>2, <2>1, Numbers
  <2> QED BY <1>1, <2>2 DEF f
<1> QED BY <1>1, <1>3 DEF Counted, SamplesBounded, Pruning

\* A fault that takes at most a crowd of loops from their pruning.
LEMMA FaultCounted ==
  ASSUME Sampled, Counted, faults' = faults + 1, snaps' = snaps,
         Pruning' \in SUBSET Loop, NEW lost \in SUBSET Loop, Cardinality(lost) <= Crowd,
         Pruning = Pruning' \cup (Pruning \cap lost)
  PROVE  Counted'
<1> DEFINE f == faults * Crowd
           c == Cardinality(Pruning)
           d == Cardinality(Pruning')
           n == Len(snaps)
           g == Cardinality(Pruning \cap lost)
<1>1. n \in Nat /\ f \in Nat /\ c \in Nat /\ n <= Keep + f + c /\ Keep \in Nat
  BY CountedAs, Numbers
<1>2. d \in Nat /\ g \in Nat /\ c <= d + g
  <2>1. /\ IsFiniteSet(Pruning') /\ Cardinality(Pruning') \in Nat
        /\ IsFiniteSet(Pruning \cap lost) /\ Cardinality(Pruning \cap lost) \in Nat
        /\ Cardinality(Pruning' \cap (Pruning \cap lost)) \in Nat
    BY LoopsCount
  <2>2. Cardinality(Pruning)
          = Cardinality(Pruning') + Cardinality(Pruning \cap lost)
              - Cardinality(Pruning' \cap (Pruning \cap lost))
    BY <2>1, FS_Union
  <2> QED BY <2>1, <2>2
<1>3. g <= Crowd /\ Crowd \in Nat
  <2>1. IsFiniteSet(lost) /\ Cardinality(lost) \in Nat
    BY LoopsCount
  <2>2. g <= Cardinality(lost)
    BY <2>1, FS_Subset
  <2> QED BY <1>2, <2>1, <2>2, CrowdCount
<1>4. faults' * Crowd = f + Crowd /\ faults' \in Nat
  BY <1>3, TimesNext DEF Counted
<1> HIDE DEF f, c, d, n, g
<1>5. n <= Keep + (f + Crowd) + d
  BY <1>1, <1>2, <1>3
<1>6. Len(snaps') <= Keep + faults' * Crowd + Cardinality(Pruning')
  BY <1>4, <1>5 DEF n, d
<1> QED BY <1>4, <1>6 DEF Counted, SamplesBounded, Pruning

\* A DELETE that fails loses the pruning of one loop.
LEMMA PruneFailsCounted ==
  ASSUME Inv, Sampled, Counted, NEW l \in Loop, PruneFails(l)
  PROVE  Counted'
<1>1. faults' = faults + 1 /\ snaps' = snaps
  BY DEF PruneFails
<1>2. at[l] = "prune" /\ at' = [at EXCEPT ![l] = "lock"]
      /\ at \in [Loop -> {"off", "sleep", "gap", "insert", "prune", "lock", "moving"}]
  BY DEF Inv, Types, PruneFails, Go
<1>3. Pruning' \in SUBSET Loop /\ Pruning = Pruning' \cup (Pruning \cap {l})
  BY <1>2 DEF Pruning
<1>4. {l} \in SUBSET Loop /\ Cardinality({l}) <= Crowd
  <2>1. Cardinality({l}) = 1
    BY FS_Singleton
  <2> QED BY <2>1, CrowdCount
<1> QED BY <1>1, <1>3, <1>4, FaultCounted

\* A restart loses the pruning of the loops it takes.
LEMMA RestartCounted ==
  ASSUME Inv, Sampled, Counted, NEW loops \in SUBSET Loop, Cardinality(loops) <= Crowd,
         NEW requests \in SUBSET Request, Restart(loops, requests)
  PROVE  Counted'
<1>1. faults' = faults + 1 /\ snaps' = snaps
  BY DEF Restart, Reset
<1>2. at' = [l \in Loop |-> IF l \notin loops THEN at[l]
                           ELSE IF l \in Boot THEN "sleep" ELSE "off"]
  BY DEF Restart, Reset
<1>3. Pruning' \in SUBSET Loop /\ Pruning = Pruning' \cup (Pruning \cap loops)
  BY <1>2 DEF Pruning
<1> QED BY <1>1, <1>3, FaultCounted

\* Every step of a pass.
LEMMA PassCounted ==
  ASSUME Inv, Sampled, Counted, NEW l \in Loop, Pass(l)
  PROVE  Counted'
<1>1. at \in [Loop -> {"off", "sleep", "gap", "insert", "prune", "lock", "moving"}]
  BY DEF Inv, Types
<1>2. ASSUME UNCHANGED <<snaps, faults>>, at[l] # "prune",
             NEW to \in {"sleep", "gap", "insert", "lock", "moving"}, at' = [at EXCEPT ![l] = to]
      PROVE  Counted'
  <2>1. Pruning' = Pruning
    BY <1>1, <1>2 DEF Pruning
  <2> QED BY <1>2, <2>1, SameCount
<1>3. CASE Wake(l)
  <2>1. UNCHANGED <<snaps, faults>> /\ at[l] # "prune"
    BY <1>3 DEF Wake
  <2>2. \E to \in {"sleep", "gap", "lock"} : at' = [at EXCEPT ![l] = to]
    BY <1>3 DEF Wake, Check, Succeed, Failed
  <2> QED BY <1>2, <2>1, <2>2
<1>4. CASE ReadGap(l)
  <2> DEFINE to == IF snaps # <<>> /\ snaps[1].age < Gap THEN "lock" ELSE "insert"
  <2>1. UNCHANGED <<snaps, faults>> /\ at[l] # "prune" /\ to \in {"insert", "lock"}
        /\ at' = [at EXCEPT ![l] = to]
    BY <1>4 DEF ReadGap, Go
  <2> HIDE DEF to
  <2> QED BY <1>2, <2>1
<1>5. CASE Insert(l)
  BY <1>5, InsertCounted
<1>6. CASE Prune(l)
  BY <1>6, PruneCounted
<1>7. CASE PruneFails(l)
  BY <1>7, PruneFailsCounted
<1>8. CASE NotBegun(l) \/ End(l)
  <2>1. UNCHANGED <<snaps, faults>> /\ at[l] # "prune" /\ at' = [at EXCEPT ![l] = "sleep"]
    BY <1>8 DEF NotBegun, End, Succeed, Failed
  <2> QED BY <1>2, <2>1
<1>9. CASE Begin(l)
  BY <1>2, <1>9 DEF Begin, Go
<1> QED BY <1>3, <1>4, <1>5, <1>6, <1>7, <1>8, <1>9 DEF Pass

\* Every step keeps the bound.
LEMMA NextCounted == Inv /\ Sampled /\ Counted /\ [Next]_vars => Counted'
<1> SUFFICES ASSUME Inv, Sampled, Counted, [Next]_vars PROVE Counted'
  OBVIOUS
<1>1. at \in [Loop -> {"off", "sleep", "gap", "insert", "prune", "lock", "moving"}]
  BY DEF Inv, Types
<1>2. ASSUME UNCHANGED <<snaps, faults, at>> PROVE Counted'
  BY <1>2, SameCount DEF Pruning
<1>3. CASE UNCHANGED vars
  BY <1>2, <1>3 DEF vars, loopVars, ghostVars
<1>4. ASSUME NEW l \in Loop, Pass(l) PROVE Counted'
  BY <1>4, PassCounted
<1>5. ASSUME NEW r \in Request, Activate(r) \/ Serve(r) \/ Execute(r) PROVE Counted'
  <2>1. CASE StartLoop(r)
    <3>1. UNCHANGED <<snaps, faults>>
      BY <2>1 DEF StartLoop, ghostVars
    <3>2. PICK l \in Local \ Alive : at' = [at EXCEPT ![l] = "sleep"]
      BY <2>1 DEF StartLoop
    <3>3. l \in Loop /\ at[l] = "off"
      BY <3>2, LoopAssumption DEF Alive
    <3>4. Pruning' = Pruning
      BY <1>1, <3>2, <3>3 DEF Pruning
    <3> QED BY <3>1, <3>4, SameCount
  <2>2. CASE Activate(r) \/ Look(r) \/ Executed(r) \/ Execute(r)
    BY <1>2, <2>2 DEF Activate, Look, Executed, Execute, loopVars, ghostVars
  <2> QED BY <1>5, <2>1, <2>2 DEF Serve
<1>6. CASE Pause
  BY <1>2, <1>6 DEF Pause, loopVars
<1>7. CASE Tick
  <2>1. Len(snaps') = Len(snaps) /\ at' = at /\ faults' = faults
    BY <1>7, TickSampled DEF Tick
  <2> QED BY <2>1, SameCount DEF Pruning
<1>8. CASE Restart(Local, Request)
  BY <1>8, RestartCounted, CrowdCount, LoopAssumption
<1>9. CASE Restart(Loop \ Local, {})
  BY <1>9, RestartCounted, CrowdCount
<1> QED BY <1>3, <1>4, <1>5, <1>6, <1>7, <1>8, <1>9 DEF Next

\* The table starts within the bound.
LEMMA InitCounted == Init => Counted
<1> SUFFICES ASSUME Init PROVE Counted
  OBVIOUS
<1>1. Len(snaps) = 0 /\ faults = 0
  BY DEF Init
<1>2. Cardinality(Pruning) \in Nat
  BY LoopsCount DEF Pruning
<1>3. faults * Crowd = 0
  BY <1>1, CrowdCount
<1> QED BY <1>1, <1>2, <1>3, Numbers DEF Counted, SamplesBounded, Pruning

\* The table stays within what is kept, the pruning under way and the pruning lost to faults.
THEOREM TableIsBounded == Spec => []SamplesBounded
<1>1. Inv /\ Sampled /\ Counted /\ [Next]_vars => Counted'
  BY NextCounted
<1>2. Spec => [](Inv /\ Sampled /\ Counted)
  BY InitCounted, SampledAlways, <1>1, PTL DEF Spec
<1> QED BY <1>2, PTL DEF Counted

-----------------------------------------------------------------------------
(* The types: the bound of the waits, and that the holder of the lock moves funds. *)

Longest == Poll * MaxBackoff

Holding ==
  /\ wait \in [Loop -> 0..Longest]
  /\ flock \in Loop => at[flock] = "moving"
  /\ flock \in Request => req[flock] = "moving"

\* No wait is longer than the longest backoff.
LEMMA LongestWait ==
  /\ Longest \in Nat /\ 0 \in 0..Longest /\ Poll \in 0..Longest
  /\ \A k \in 0..MaxFailures : Poll * Backoff(k) \in 0..Longest
<1>1. Poll \in Nat /\ MaxBackoff \in Nat /\ 1 \in Nat /\ 1 <= MaxBackoff
  BY Numbers
<1>2. Longest \in Nat /\ Poll * 1 <= Longest /\ Poll * 1 = Poll
  BY <1>1, TimesMono DEF Longest
<1>3. ASSUME NEW k \in 0..MaxFailures PROVE Poll * Backoff(k) \in 0..Longest
  <2> DEFINE power == 2 ^ k
             b == Backoff(k)
  <2>1. b = IF power < MaxBackoff THEN power ELSE MaxBackoff
    BY DEF Backoff
  <2>2. power \in Nat
    BY PowerAssumption
  <2> HIDE DEF power, b
  <2>3. b \in Nat /\ b <= MaxBackoff
    BY <1>1, <2>1, <2>2
  <2>4. Poll * b <= Poll * MaxBackoff /\ Poll * b \in Nat
    BY <1>1, <2>3, TimesMono
  <2> QED BY <1>2, <2>4 DEF b, Longest
<1> QED BY <1>1, <1>2, <1>3

\* A step that changes neither the waits nor who moves funds.
LEMMA StillHolding ==
  ASSUME Inv, Holding, UNCHANGED <<wait, flock>>,
         \A l \in Loop : at[l] = "moving" => at'[l] = "moving",
         \A r \in Request : req[r] = "moving" => req'[r] = "moving"
  PROVE  Holding'
BY DEF Holding

\* The end of a pass, which gives up the lock when it held it.
LEMMA EndHolding ==
  ASSUME Inv, Holding, NEW l \in Loop, Succeed(l) \/ Failed(l), req' = req,
         (at[l] # "moving" /\ flock' = flock) \/ (at[l] = "moving" /\ flock' = Nobody)
  PROVE  Holding'
<1>1. /\ at \in [Loop -> {"off", "sleep", "gap", "insert", "prune", "lock", "moving"}]
      /\ failures \in [Loop -> 0..MaxFailures] /\ MaxFailures \in Nat
      /\ wait \in [Loop -> 0..Longest]
  BY BoundAssumption DEF Inv, Types, Holding
<1>2. at' = [at EXCEPT ![l] = "sleep"]
  BY DEF Succeed, Failed
<1>3. wait' \in [Loop -> 0..Longest]
  <2>1. CASE Succeed(l)
    BY <1>1, <2>1, LongestWait DEF Succeed
  <2>2. CASE Failed(l)
    <3>1. failures'[l] \in 0..MaxFailures
      BY <1>1, <2>2 DEF Failed
    <3>2. wait' = [wait EXCEPT ![l] = Poll * Backoff(failures'[l])]
      BY <2>2 DEF Failed
    <3>3. Poll * Backoff(failures'[l]) \in 0..Longest
      BY <3>1, LongestWait
    <3> QED BY <1>1, <3>2, <3>3
  <2> QED BY <2>1, <2>2
<1>4. flock' \in Loop => at'[flock'] = "moving"
  BY <1>1, <1>2, NobodyAssumption DEF Holding
<1>5. flock' \in Request => req'[flock'] = "moving"
  BY NobodyAssumption DEF Holding
<1> QED BY <1>3, <1>4, <1>5 DEF Holding

\* Every step of a pass.
LEMMA PassHolding ==
  ASSUME Inv, Holding, NEW l \in Loop, Pass(l)
  PROVE  Holding'
<1>1. at \in [Loop -> {"off", "sleep", "gap", "insert", "prune", "lock", "moving"}]
  BY DEF Inv, Types
<1>2. ASSUME UNCHANGED <<wait, flock, req>>, at[l] # "moving",
             NEW to \in {"gap", "insert", "prune", "lock"}, at' = [at EXCEPT ![l] = to]
      PROVE  Holding'
  <2>1. \A k \in Loop : at[k] = "moving" => at'[k] = "moving"
    BY <1>1, <1>2
  <2> QED BY <1>2, <2>1, StillHolding
<1>3. CASE Wake(l)
  <2>1. at[l] = "sleep" /\ UNCHANGED <<flock, req>>
    BY <1>3 DEF Wake
  <2>2. CASE Check(l)
    <3>1. UNCHANGED wait /\ \E to \in {"gap", "lock"} : at' = [at EXCEPT ![l] = to]
      BY <2>2 DEF Check
    <3> QED BY <1>2, <2>1, <3>1
  <2>3. CASE Succeed(l) \/ Failed(l)
    BY <2>1, <2>3, EndHolding
  <2> QED BY <1>3, <2>2, <2>3 DEF Wake
<1>4. CASE ReadGap(l)
  <2> DEFINE to == IF snaps # <<>> /\ snaps[1].age < Gap THEN "lock" ELSE "insert"
  <2>1. UNCHANGED <<wait, flock, req>> /\ at[l] # "moving" /\ to \in {"insert", "lock"}
        /\ at' = [at EXCEPT ![l] = to]
    BY <1>4 DEF ReadGap, Go
  <2> HIDE DEF to
  <2> QED BY <1>2, <2>1
<1>5. CASE Insert(l)
  BY <1>2, <1>5 DEF Insert, Go
<1>6. CASE Prune(l) \/ PruneFails(l)
  BY <1>2, <1>6 DEF Prune, PruneFails, Go
<1>7. CASE NotBegun(l)
  <2>1. (Succeed(l) \/ Failed(l)) /\ at[l] # "moving" /\ flock' = flock /\ req' = req
    BY <1>7 DEF NotBegun
  <2> QED BY <2>1, EndHolding
<1>8. CASE Begin(l)
  <2>1. at' = [at EXCEPT ![l] = "moving"] /\ flock' = l /\ UNCHANGED <<wait, req>>
    BY <1>8 DEF Begin, Go
  <2>2. at'[l] = "moving" /\ l \notin Request
    BY <1>1, <2>1, NobodyAssumption
  <2> QED BY <2>1, <2>2 DEF Holding
<1>9. CASE End(l)
  <2>1. (Succeed(l) \/ Failed(l)) /\ at[l] = "moving" /\ flock' = Nobody /\ req' = req
    BY <1>9 DEF End
  <2> QED BY <2>1, EndHolding
<1> QED BY <1>3, <1>4, <1>5, <1>6, <1>7, <1>8, <1>9 DEF Pass

\* The control routes.
LEMMA RequestHolding ==
  ASSUME Inv, Holding, NEW r \in Request, Activate(r) \/ Serve(r) \/ Execute(r)
  PROVE  Holding'
<1>1. /\ at \in [Loop -> {"off", "sleep", "gap", "insert", "prune", "lock", "moving"}]
      /\ req \in [Request -> {"idle", "look", "start", "moving"}]
      /\ wait \in [Loop -> 0..Longest]
  BY DEF Inv, Types, Holding
<1>2. CASE Activate(r) \/ Look(r)
  <2>1. UNCHANGED <<at, wait, flock>> /\ req[r] # "moving" /\ \A q \in Request \ {r} : req'[q] = req[q]
    BY <1>1, <1>2 DEF Activate, Look, Reply, loopVars
  <2> QED BY <2>1, StillHolding
<1>3. CASE StartLoop(r)
  <2>1. PICK l \in Local \ Alive : /\ at' = [at EXCEPT ![l] = "sleep"]
                                  /\ wait' = [wait EXCEPT ![l] = 0]
    BY <1>3 DEF StartLoop
  <2>2. l \in Loop /\ at[l] = "off"
    BY <2>1, LoopAssumption DEF Alive
  <2>3. flock' = flock /\ req[r] = "start" /\ req' = [req EXCEPT ![r] = "idle"]
    BY <1>3 DEF StartLoop, Reply
  <2>4. wait' \in [Loop -> 0..Longest]
    BY <1>1, <2>1, LongestWait
  <2>5. flock' \in Loop => at'[flock'] = "moving"
    BY <1>1, <2>1, <2>2, <2>3 DEF Holding
  <2>6. flock' \in Request => req'[flock'] = "moving"
    BY <1>1, <2>3 DEF Holding
  <2> QED BY <2>4, <2>5, <2>6 DEF Holding
<1>4. CASE Execute(r)
  <2>1. UNCHANGED <<at, wait>> /\ flock' = r /\ req'[r] = "moving" /\ r \notin Loop
    BY <1>1, <1>4, NobodyAssumption DEF Execute, Reply, loopVars
  <2> QED BY <2>1 DEF Holding
<1>5. CASE Executed(r)
  <2>1. UNCHANGED <<at, wait>> /\ flock' = Nobody
    BY <1>5 DEF Executed, loopVars
  <2> QED BY <2>1, NobodyAssumption DEF Holding
<1> QED BY <1>2, <1>3, <1>4, <1>5 DEF Serve

\* A restart frees the lock of those it takes.
LEMMA RestartHolding ==
  ASSUME Inv, Holding, NEW loops \in SUBSET Loop, NEW requests \in SUBSET Request,
         Restart(loops, requests)
  PROVE  Holding'
<1>1. /\ at' = [l \in Loop |-> IF l \notin loops THEN at[l]
                              ELSE IF l \in Boot THEN "sleep" ELSE "off"]
      /\ wait' = [l \in Loop |-> IF l \in loops THEN 0 ELSE wait[l]]
      /\ req' = [r \in Request |-> IF r \in requests THEN "idle" ELSE req[r]]
      /\ flock' = IF flock \in loops \cup requests THEN Nobody ELSE flock
  BY DEF Restart, Reset
<1>2. wait' \in [Loop -> 0..Longest]
  BY <1>1, LongestWait DEF Holding
<1>3. flock' \in Loop => flock' = flock /\ flock \notin loops
  BY <1>1, NobodyAssumption
<1>4. flock' \in Request => flock' = flock /\ flock \notin requests
  BY <1>1, NobodyAssumption
<1> QED BY <1>1, <1>2, <1>3, <1>4 DEF Holding

\* Every step keeps the waits bounded and the lock in use.
LEMMA NextHolding == Inv /\ Holding /\ [Next]_vars => Holding'
<1> SUFFICES ASSUME Inv, Holding, [Next]_vars PROVE Holding'
  OBVIOUS
<1>1. CASE UNCHANGED vars
  BY <1>1, StillHolding DEF vars, loopVars, ghostVars
<1>2. ASSUME NEW l \in Loop, Pass(l) PROVE Holding'
  BY <1>2, PassHolding
<1>3. ASSUME NEW r \in Request, Activate(r) \/ Serve(r) \/ Execute(r) PROVE Holding'
  BY <1>3, RequestHolding
<1>4. CASE Pause
  BY <1>4, StillHolding DEF Pause, loopVars
<1>5. CASE Tick
  <2>1. wait' = [l \in Loop |-> IF wait[l] > 0 THEN wait[l] - 1 ELSE 0]
        /\ UNCHANGED <<at, flock, req>>
    BY <1>5 DEF Tick
  <2>2. wait' \in [Loop -> 0..Longest]
    BY <2>1, LongestWait DEF Holding
  <2> QED BY <2>1, <2>2 DEF Holding
<1>6. CASE Restart(Local, Request) \/ Restart(Loop \ Local, {})
  BY <1>6, RestartHolding, LoopAssumption
<1> QED BY <1>1, <1>2, <1>3, <1>4, <1>5, <1>6 DEF Next

\* The variables have their types, and the lock is held by whoever moves funds and by
\* nobody else: neither the end of a pass nor a restart leaves it behind.
THEOREM TypeCorrect == Spec => []TypeOK
<1>1. Init => Holding
  <2> SUFFICES ASSUME Init PROVE Holding
    OBVIOUS
  <2>1. wait = [l \in Loop |-> 0] /\ flock = Nobody
    BY DEF Init
  <2> QED BY <2>1, LongestWait, NobodyAssumption DEF Holding
<1>2. Inv /\ Holding /\ [Next]_vars => Holding'
  BY NextHolding
<1>3. Inv /\ Sampled /\ Counted /\ [Next]_vars => Counted'
  BY NextCounted
<1>4. Inv /\ Sampled /\ Counted /\ Holding => TypeOK
  <2> SUFFICES ASSUME Inv, Sampled, Counted, Holding PROVE TypeOK
    OBVIOUS
  <2>1. Types /\ Locked /\ SampleTypes /\ faults \in Nat /\ wait \in [Loop -> 0..(Poll * MaxBackoff)]
    BY DEF Inv, Sampled, Counted, Holding, Longest
  <2>2. {l \in Loop : at[l] = "moving"} \cup {r \in Request : req[r] = "moving"}
          = {flock} \ {Nobody}
    <3>1. flock \in Loop => at[flock] = "moving"
      BY DEF Holding
    <3>2. flock \in Request => req[flock] = "moving"
      BY DEF Holding
    <3> QED BY <2>1, <3>1, <3>2, NobodyAssumption DEF Types, Locked
  <2> QED BY <2>1, <2>2 DEF Types, SampleTypes, TypeOK
<1>5. Spec => [](Inv /\ Sampled /\ Counted /\ Holding)
  BY InitCounted, SampledAlways, <1>1, <1>2, <1>3, PTL DEF Spec
<1> QED BY <1>4, <1>5, PTL

=============================================================================
