-------------------------- MODULE BootstrapProofs --------------------------
(***************************************************************************)
(* The operator's scripts beside the agent, for any amounts, gas, prices,  *)
(* bounds and failures.                                                    *)
(***************************************************************************)
EXTENDS Bootstrap, RangeMathProofs, SequenceTheorems, TLAPS

-----------------------------------------------------------------------------
(* Sequences of steps. *)

\* Sequences with the same elements are the same.
LEMMA SameSeq ==
  ASSUME NEW S, NEW s \in Seq(S), NEW t \in Seq(S), Len(s) = Len(t),
         \A i \in 1..Len(s) : s[i] = t[i]
  PROVE  s = t
BY SeqEqual

\* Steps put one after another.
LEMMA OneAndOne ==
  ASSUME NEW a, NEW b
  PROVE  <<a>> \o <<b>> = <<a, b>>
<1> DEFINE s == <<a>> \o <<b>>
           t == <<a, b>>
           S == {a, b}
<1>1. s \in Seq(S) /\ t \in Seq(S)
  OBVIOUS
<1>2. Len(s) = 2 /\ Len(t) = 2
  OBVIOUS
<1>3. s[1] = a /\ s[2] = b /\ t[1] = a /\ t[2] = b
  OBVIOUS
<1> HIDE DEF s, t, S
<1>4. \A i \in 1..Len(s) : s[i] = t[i]
  BY <1>2, <1>3
<1>5. s = t
  BY <1>1, <1>2, <1>4, SameSeq
<1> QED BY <1>5 DEF s, t

LEMMA OneAndTwo ==
  ASSUME NEW a, NEW b, NEW c
  PROVE  <<a>> \o <<b, c>> = <<a, b, c>>
<1> DEFINE s == <<a>> \o <<b, c>>
           t == <<a, b, c>>
           S == {a, b, c}
<1>1. s \in Seq(S) /\ t \in Seq(S)
  OBVIOUS
<1>2. Len(s) = 3 /\ Len(t) = 3
  OBVIOUS
<1>3. s[1] = a /\ s[2] = b /\ s[3] = c /\ t[1] = a /\ t[2] = b /\ t[3] = c
  OBVIOUS
<1> HIDE DEF s, t, S
<1>4. \A i \in 1..Len(s) : s[i] = t[i]
  BY <1>2, <1>3
<1>5. s = t
  BY <1>1, <1>2, <1>4, SameSeq
<1> QED BY <1>5 DEF s, t

LEMMA TwoAndTwo ==
  ASSUME NEW a, NEW b, NEW c, NEW d
  PROVE  <<a, b>> \o <<c, d>> = <<a, b, c, d>>
<1> DEFINE s == <<a, b>> \o <<c, d>>
           t == <<a, b, c, d>>
           S == {a, b, c, d}
<1>1. s \in Seq(S) /\ t \in Seq(S)
  OBVIOUS
<1>2. Len(s) = 4 /\ Len(t) = 4
  OBVIOUS
<1>3. s[1] = a /\ s[2] = b /\ s[3] = c /\ s[4] = d /\ t[1] = a /\ t[2] = b /\ t[3] = c /\ t[4] = d
  OBVIOUS
<1> HIDE DEF s, t, S
<1>4. \A i \in 1..Len(s) : s[i] = t[i]
  BY <1>2, <1>3
<1>5. s = t
  BY <1>1, <1>2, <1>4, SameSeq
<1> QED BY <1>5 DEF s, t

\* The steps of a migration, by what is still the old wallet's and known to be.
LEMMA MigrateStepsAre ==
  ASSUME NEW resolved
  PROVE  MigrateSteps(resolved) =
           IF positions[Token].owner = "old"
           THEN IF resolved /\ identity = "old"
                THEN <<"movePosition", "moveIdentity", "sweep", "verify">>
                ELSE <<"movePosition", "sweep", "verify">>
           ELSE IF resolved /\ identity = "old" THEN <<"moveIdentity", "sweep", "verify">>
                                                ELSE <<"sweep", "verify">>
<1> DEFINE a == IF positions[Token].owner = "old" THEN <<"movePosition">> ELSE <<>>
           b == IF resolved /\ identity = "old" THEN <<"moveIdentity">> ELSE <<>>
           c == <<"sweep", "verify">>
           e == <<>>
<1>1. MigrateSteps(resolved) = (a \o b) \o c
  BY DEF MigrateSteps, Movable
<1>2. /\ <<"movePosition">> \o <<"moveIdentity">> = <<"movePosition", "moveIdentity">>
      /\ <<"movePosition", "moveIdentity">> \o c = <<"movePosition", "moveIdentity", "sweep", "verify">>
      /\ <<"movePosition">> \o c = <<"movePosition", "sweep", "verify">>
      /\ <<"moveIdentity">> \o c = <<"moveIdentity", "sweep", "verify">>
  BY OneAndOne, OneAndTwo, TwoAndTwo
<1>3. /\ <<"movePosition">> \o e = <<"movePosition">> /\ e \o <<"moveIdentity">> = <<"moveIdentity">>
      /\ e \o e = e /\ e \o c = c
  <2> DEFINE S == {"movePosition", "moveIdentity", "sweep", "verify"}
  <2>1. <<"movePosition">> \in Seq(S) /\ <<"moveIdentity">> \in Seq(S)
        /\ e \in Seq(S) /\ c \in Seq(S)
    OBVIOUS
  <2> HIDE DEF c, S
  <2> QED BY <2>1, ConcatEmptySeq
<1>4. CASE positions[Token].owner = "old" /\ (resolved /\ identity = "old")
  BY <1>1, <1>2, <1>4
<1>5. CASE positions[Token].owner = "old" /\ ~(resolved /\ identity = "old")
  BY <1>1, <1>2, <1>3, <1>5
<1>6. CASE positions[Token].owner # "old" /\ (resolved /\ identity = "old")
  BY <1>1, <1>2, <1>3, <1>6
<1>7. CASE positions[Token].owner # "old" /\ ~(resolved /\ identity = "old")
  BY <1>1, <1>2, <1>3, <1>7
<1> QED BY <1>4, <1>5, <1>6, <1>7

\* Skipping the swap and its approval.
LEMMA SkipsSwap ==
  ASSUME NEW t, t = <<"router", "swap", "balances", "npmUsdt", "npmWbnb", "mint", "minted">>
  PROVE  SubSeq(t, 4, Len(t)) = <<"npmUsdt", "npmWbnb", "mint", "minted">>
<1> DEFINE s == SubSeq(t, 4, Len(t))
           u == <<"npmUsdt", "npmWbnb", "mint", "minted">>
           S == {"router", "swap", "balances", "npmUsdt", "npmWbnb", "mint", "minted"}
<1>1. t \in Seq(S) /\ u \in Seq(S) /\ Len(t) = 7 /\ Len(u) = 4
      /\ t[4] = u[1] /\ t[5] = u[2] /\ t[6] = u[3] /\ t[7] = u[4]
  OBVIOUS
<1> HIDE DEF u, S
<1>2. s \in Seq(S) /\ Len(s) = 4 /\ \A i \in 1..4 : s[i] = t[i + 3]
  <2>1. SubSeq(t, 4, 7) \in Seq(S) /\ Len(SubSeq(t, 4, 7)) = 4
        /\ \A i \in 1..4 : SubSeq(t, 4, 7)[i] = t[i + 3]
    BY <1>1
  <2> QED BY <1>1, <2>1
<1> HIDE DEF s
<1>3. \A i \in 1..Len(s) : s[i] = u[i]
  <2>1. s[1] = u[1] /\ s[2] = u[2] /\ s[3] = u[3] /\ s[4] = u[4]
    BY <1>1, <1>2
  <2> QED BY <1>2, <2>1
<1>4. s = u
  BY <1>1, <1>2, <1>3, SameSeq
<1> QED BY <1>4 DEF s, u

-----------------------------------------------------------------------------
(* The shape of the state. *)

Bands == {FreshBand(t) : t \in Live}
Amounts == [usdt : Nat, wbnb : Nat]
Half == Total \div 2
Phase == {"run", "signed", "wait", "landed", "reverted"}

\* The steps of the programs, and those that follow each.
MintStep == {"wrap", "usdt", "router", "swap", "balances", "npmUsdt", "npmWbnb", "mint", "minted"}
MigrateStep == {"movePosition", "moveIdentity", "sweep", "verify"}
AgentStep == {"withdraw", "remint", "record"}
StepsOf(p) == {"idle"} \cup IF p = "script" THEN MintStep \cup MigrateStep ELSE AgentStep
Local == {"idle", "usdt", "balances", "minted", "verify", "record"}  \* nothing is sent

Follows(at, todo) ==
  /\ at = "wrap" => todo = <<"usdt", "router", "swap", "balances", "npmUsdt", "npmWbnb", "mint",
                             "minted">>
  /\ at = "usdt" => todo = <<"router", "swap", "balances", "npmUsdt", "npmWbnb", "mint",
                             "minted">>
  /\ at = "router" => todo = <<"swap", "balances", "npmUsdt", "npmWbnb", "mint", "minted">>
  /\ at = "swap" => todo = <<"balances", "npmUsdt", "npmWbnb", "mint", "minted">>
  /\ at = "balances" => todo = <<"npmUsdt", "npmWbnb", "mint", "minted">>
  /\ at = "npmUsdt" => todo = <<"npmWbnb", "mint", "minted">>
  /\ at = "npmWbnb" => todo = <<"mint", "minted">>
  /\ at = "mint" => todo = <<"minted">>
  /\ at = "movePosition" => todo \in {<<"moveIdentity", "sweep", "verify">>, <<"sweep", "verify">>}
  /\ at = "moveIdentity" => todo = <<"sweep", "verify">>
  /\ at = "sweep" => todo = <<"verify">>
  /\ at = "withdraw" => todo = <<"remint", "record">>
  /\ at = "remint" => todo = <<"record">>

\* A transaction that a program may have sent when there are n positions.
TxOK(tx, n) ==
  /\ tx.kind \in {"deposit", "approve", "swap", "mint", "withdraw", "move", "moveIdentity", "sweep"}
  /\ tx.kind \in {"deposit", "approve", "swap"} => tx.amount \in Nat
  /\ tx.kind = "sweep" => tx.amount \in Nat \ {0}
  /\ tx.kind = "approve" => tx.spender \in Spender
  /\ tx.kind = "mint" => /\ tx.band \in Bands /\ tx.want \in Amounts /\ tx.floors \in Amounts
                         /\ tx.approves \in BOOLEAN
  /\ tx.kind \in {"withdraw", "move"} => tx.id \in 1..n

\* The transaction of a step is the one it wants.
StepTx(j, tx) ==
  /\ j.at = "wrap" => tx.kind = "deposit" /\ tx.amount = j.want.wbnb
  /\ j.at \in Spender => /\ tx.kind = "approve" /\ tx.spender = j.at
                         /\ j.at = "router" => tx.amount \in {0, Half}
                         /\ j.at = "npmUsdt" => tx.amount \in {0, j.want.usdt}
                         /\ j.at = "npmWbnb" => tx.amount \in {0, j.want.wbnb}
  /\ j.at = "swap" => tx.kind = "swap" /\ tx.amount = Half
  /\ j.at = "mint" => tx.kind = "mint" /\ ~tx.approves
  /\ j.at = "movePosition" => tx.kind = "move" /\ tx.id = j.token
  /\ j.at = "moveIdentity" => tx.kind = "moveIdentity"
  /\ j.at = "sweep" => tx.kind = "sweep"
  /\ j.at = "withdraw" => tx.kind = "withdraw" /\ tx.id = j.token
  /\ j.at = "remint" => tx.kind = "mint" /\ tx.approves

\* A process that is at a step with n positions and a mempool of m.
JobOK(j, n, m) ==
  /\ j.phase # "signed" => j.slot = 0
  /\ Follows(j.at, j.todo)
  /\ j.phase \in Phase /\ j.want \in Amounts /\ j.floors \in Amounts
  /\ j.zeroed \in BOOLEAN /\ j.token \in 0..n /\ j.slot \in 0..(m + 1)
  /\ j.at \in Local => j.phase = "run"
  /\ j.at \in MintStep => j.band \in Bands
  /\ j.at \in {"movePosition", "withdraw"} => j.token # 0
  /\ j.phase # "run" => TxOK(j.tx, n) /\ StepTx(j, j.tx)
  /\ j.at = "remint" /\ j.phase = "landed" => j.token # 0

Fields == {"at", "phase", "tx", "slot", "band", "want", "floors", "zeroed", "token", "todo"}

Shape ==
  /\ tick \in Live
  /\ wallet \in [native : 0..Native, wbnb : Nat, usdt : Nat]
  /\ allowance \in [Spender -> Nat]
  /\ positions \in Seq([owner : {"old", "new"}, liquidity : Nat, band : Bands])
  /\ identity \in {"old", "new"} /\ {toml, store} \subseteq 0..Len(positions)
  /\ late \in BOOLEAN /\ swept \in BOOLEAN /\ {overlapped, skipped} \subseteq BOOLEAN
  /\ wrapped \in Nat /\ spent \in Nat
  /\ \E S : mempool \in Seq(S)
  /\ \A i \in DOMAIN mempool : /\ TxOK(mempool[i].tx, Len(positions))
                              /\ mempool[i].by \in Process \cup {"nobody"}
                              /\ DOMAIN mempool[i] = {"by", "tx"}
  /\ \A i \in DOMAIN mempool : mempool[i].by \in Process =>
       job[mempool[i].by].phase = "wait" /\ mempool[i].tx = job[mempool[i].by].tx
  /\ \A i, k \in DOMAIN mempool : mempool[i].by = mempool[k].by /\ mempool[i].by \in Process => i = k
  /\ DOMAIN job = Process
  /\ \A p \in Process : /\ JobOK(job[p], Len(positions), Len(mempool))
                        /\ DOMAIN job[p] = Fields /\ job[p].at \in StepsOf(p)

-----------------------------------------------------------------------------
(* The amounts are numbers. *)

\* The constants, for the provers.
LEMMA Constants ==
  /\ {Native, Cost, Plain, MintSlip, SwapSlip, MaxMints, MaxMigrations, MaxPasses,
      MaxMoves, MaxFaults} \subseteq Nat
  /\ Native \in Nat /\ Cost \in Nat /\ Plain \in Nat /\ Plain < Cost /\ MaxPasses \in Nat
  /\ MintSlip \in 0..100 /\ SwapSlip \in 0..100
  /\ Total \in Nat /\ Total > 0 /\ Half \in Nat /\ Half <= Total
BY BootstrapAssumption, GasAssumption DEF Half

\* A ratio of the pool, and a band around one.
LEMMA Ratio ==
  ASSUME NEW t \in Live
  PROVE  SqrtAt[t] \in Nat \ {0}
BY BootstrapAssumption, SqrtAssumption

LEMMA BandRatios ==
  ASSUME NEW band \in Bands
  PROVE  /\ Low(band) \in Nat \ {0} /\ High(band) \in Nat \ {0} /\ Low(band) < High(band)
         /\ band \in [lower : Tick, upper : Tick]
<1>1. PICK t \in Live : band = FreshBand(t)
  BY DEF Bands
<1>2. /\ band.lower \in Tick /\ band.upper \in Tick
      /\ band.lower \in DOMAIN SqrtAt /\ band.upper \in DOMAIN SqrtAt /\ ~(band.lower >= band.upper)
  BY <1>1, BandAssumption DEF Collapsed
<1>3. band.lower < band.upper
  <2>1. Tick \subseteq Int
    BY PriceAssumption
  <2>2. band.lower \in Int /\ band.upper \in Int
    BY <1>2, <2>1
  <2> QED BY <1>2, <2>2
<1>4. band \in [lower : Tick, upper : Tick]
  BY <1>1, <1>2 DEF FreshBand, PriceRangeToTicks
<1>5. Low(band) < High(band)
  BY <1>2, <1>3, BandAssumption DEF Low, High
<1> QED BY <1>2, <1>4, <1>5, SqrtAssumption DEF Low, High

\* Liquidity and what it is worth.
LEMMA LiquidityIsNat ==
  ASSUME NEW amount \in Amounts, NEW sqrt \in Nat \ {0}, NEW low \in Nat \ {0},
         NEW high \in Nat \ {0}, low < high
  PROVE  AmountsToLiquidity(amount, sqrt, low, high) \in Nat
<1> DEFINE at == Clamp(sqrt, low, high)
           side0 == Liquidity0(amount.usdt, at, high)
           side1 == Liquidity1(amount.wbnb, low, at)
           l == AmountsToLiquidity(amount, sqrt, low, high)
<1>1. at \in Nat \ {0} /\ low <= at /\ at <= high
  BY DEF Clamp
<1>2. l = IF at = low THEN side0
          ELSE IF at = high THEN side1
          ELSE IF side0 < side1 THEN side0 ELSE side1
  BY DEF AmountsToLiquidity
<1>3. amount.usdt \in Nat /\ amount.wbnb \in Nat
  BY DEF Amounts
<1> HIDE DEF at
<1>4. at < high => side0 \in Nat
  BY <1>1, <1>3, Liquidity0Nat
<1>5. low < at => side1 \in Nat
  BY <1>1, <1>3, Liquidity1Nat
<1> HIDE DEF side0, side1, l
<1>6. l \in Nat
  BY <1>1, <1>2, <1>4, <1>5
<1> QED BY <1>6 DEF l

LEMMA Amount0Nat ==
  ASSUME NEW l \in Nat, NEW from \in Nat \ {0}, NEW to \in Nat \ {0}, from <= to
  PROVE  Amount0(l, from, to) \in Nat
<1>1. to - from \in Nat /\ Unit \in Nat /\ from * to \in Nat \ {0}
  BY SqrtAssumption, MulNat
<1>2. l * (to - from) * Unit \in Nat
  BY <1>1, MulNat
<1> QED BY <1>1, <1>2, DivNat DEF Amount0

LEMMA Amount1Nat ==
  ASSUME NEW l \in Nat, NEW from \in Nat \ {0}, NEW to \in Nat \ {0}, from <= to
  PROVE  Amount1(l, from, to) \in Nat
<1>1. to - from \in Nat /\ Unit \in Nat \ {0}
  BY SqrtAssumption
<1>2. l * (to - from) \in Nat
  BY <1>1, MulNat
<1> QED BY <1>1, <1>2, DivNat DEF Amount1

LEMMA WorthIsNat ==
  ASSUME NEW l \in Nat, NEW sqrt \in Nat \ {0}, NEW low \in Nat \ {0}, NEW high \in Nat \ {0},
         low < high
  PROVE  LiquidityToAmounts(l, sqrt, low, high) \in Amounts
<1> DEFINE at == Clamp(sqrt, low, high)
<1>1. at \in Nat \ {0} /\ low <= at /\ at <= high
  BY DEF Clamp
<1>2. LiquidityToAmounts(l, sqrt, low, high)
        = [usdt |-> Amount0(l, at, high), wbnb |-> Amount1(l, low, at)]
  BY DEF LiquidityToAmounts
<1> HIDE DEF at
<1>3. Amount0(l, at, high) \in Nat /\ Amount1(l, low, at) \in Nat
  BY <1>1, Amount0Nat, Amount1Nat
<1> QED BY <1>2, <1>3 DEF Amounts

\* What a swap gives, at a price of the pool.
LEMMA SwapOutNat ==
  ASSUME tick \in Live, NEW amount \in Nat
  PROVE  SwapOut(amount) \in Nat
<1>1. SqrtAt[tick] * SqrtAt[tick] \in Nat \ {0}
  BY Ratio, MulNat
<1>2. amount * Unit * Unit \in Nat
  BY SqrtAssumption, MulNat
<1> QED BY <1>1, <1>2, DivNat DEF SwapOut

\* What a mint puts in the pool and takes from the wallet.
LEMMA MintIsNat ==
  ASSUME tick \in Live, NEW tx, tx.band \in Bands, tx.want \in Amounts
  PROVE  Minted(tx) \in Nat /\ Taken(tx) \in Amounts
<1>1. SqrtAt[tick] \in Nat \ {0}
  BY Ratio
<1>2. Low(tx.band) \in Nat \ {0} /\ High(tx.band) \in Nat \ {0} /\ Low(tx.band) < High(tx.band)
  BY BandRatios
<1>3. Minted(tx) \in Nat
  BY <1>1, <1>2, LiquidityIsNat DEF Minted
<1> QED BY <1>1, <1>2, <1>3, WorthIsNat DEF Taken

\* What a withdrawal gives back.
LEMMA ValueIsNat ==
  ASSUME tick \in Live, NEW id, positions[id].liquidity \in Nat, positions[id].band \in Bands
  PROVE  Value(id) \in Amounts
BY Ratio, BandRatios, WorthIsNat DEF Value

\* The floors of a mint.
LEMMA FloorsAreNat ==
  ASSUME tick \in Live, NEW band \in Bands, NEW want \in Amounts
  PROVE  FloorsOf(band, want) \in Amounts
<1> DEFINE sqrt == SqrtAt[tick]
           l == AmountsToLiquidity(want, sqrt, Low(band), High(band))
           worth == LiquidityToAmounts(l, sqrt, Low(band), High(band))
<1>1. sqrt \in Nat \ {0} /\ Low(band) \in Nat \ {0} /\ High(band) \in Nat \ {0} /\ Low(band) < High(band)
  BY Ratio, BandRatios
<1> HIDE DEF sqrt
<1>2. l \in Nat
  BY <1>1, LiquidityIsNat
<1> HIDE DEF l
<1>3. worth \in Amounts
  BY <1>1, <1>2, WorthIsNat
<1>4. FloorsOf(band, want) = [usdt |-> Floor(worth.usdt, MintSlip), wbnb |-> Floor(worth.wbnb, MintSlip)]
  BY DEF FloorsOf, LiquidityAmountFloors, l, sqrt
<1> HIDE DEF worth
<1>5. Floor(worth.usdt, MintSlip) \in Nat /\ Floor(worth.wbnb, MintSlip) \in Nat
  BY <1>3, Constants, FloorBelow DEF Amounts
<1> QED BY <1>4, <1>5 DEF Amounts

-----------------------------------------------------------------------------
(* The steps of the programs. *)

\* What holds of a process, in one piece.
LEMMA JobFacts ==
  ASSUME Shape, NEW p \in Process
  PROVE  /\ JobOK(job[p], Len(positions), Len(mempool)) /\ DOMAIN job[p] = Fields
         /\ job[p].at \in StepsOf(p) /\ DOMAIN job = Process
         /\ Len(positions) \in Nat /\ Len(mempool) \in Nat
         /\ DOMAIN mempool = 1..Len(mempool) /\ DOMAIN positions = 1..Len(positions)
<1>1. PICK S : mempool \in Seq(S)
  BY DEF Shape
<1>2. Len(mempool) \in Nat /\ DOMAIN mempool = 1..Len(mempool)
  BY <1>1
<1>3. Len(positions) \in Nat /\ DOMAIN positions = 1..Len(positions)
  BY DEF Shape
<1> QED BY <1>2, <1>3 DEF Shape

\* The transaction of a step is what it should be.
LEMMA WantedOK ==
  ASSUME Shape, NEW p \in Process, NEW tx \in Wanted(p), job[p].phase = "run"
  PROVE  TxOK(tx, Len(positions)) /\ StepTx(job[p], tx) /\ job[p].at \notin Local
<1> DEFINE j == job[p]
           n == Len(positions)
           at == job[p].at
<1>1. /\ j.want \in Amounts /\ j.floors \in Amounts /\ j.token \in 0..n /\ n \in Nat
      /\ at \in MintStep => j.band \in Bands
      /\ at \in {"movePosition", "withdraw"} => j.token # 0
      /\ at \in MintStep \cup MigrateStep \cup AgentStep \cup {"idle"}
  BY JobFacts DEF JobOK, StepsOf
<1>2. tick \in Live /\ wallet.native \in Nat /\ Balances \in Amounts
  BY DEF Shape, Balances, Amounts
<1>3. Half \in Nat /\ j.want.usdt \in Nat /\ j.want.wbnb \in Nat /\ j.floors.usdt \in Nat
  BY <1>1, Constants DEF Amounts
<1>4. CASE at = "wrap"
  BY <1>1, <1>3, <1>4 DEF Wanted, TxOK, StepTx, Local, Spender
<1>5. CASE at \in Spender /\ ~Allowed(p)
  <2>1. tx = Approval(p)
    BY <1>5 DEF Wanted, Spender
  <2>2. tx.kind = "approve" /\ tx.spender = at
        /\ (tx.amount = 0 \/ tx.amount = Asked(p))
    BY <2>1 DEF Approval
  <2>3. /\ at = "router" => Asked(p) = Half
        /\ at = "npmUsdt" => Asked(p) = j.want.usdt
        /\ at = "npmWbnb" => Asked(p) = j.want.wbnb
    BY DEF Asked, Half
  <2> QED BY <1>3, <1>5, <2>2, <2>3 DEF TxOK, StepTx, Local, Spender
<1>6. CASE at = "swap"
  <2>1. tx.kind = "swap" /\ tx.amount = Half
    BY <1>6 DEF Wanted, Spender, Half
  <2> QED BY <1>3, <1>6, <2>1 DEF TxOK, StepTx, Local, Spender
<1>7. CASE at = "mint"
  <2>1. tx = MintOf(j.band, j.want, j.floors, FALSE)
    BY <1>7 DEF Wanted, Spender
  <2>2. tx.kind = "mint" /\ tx.band = j.band /\ tx.want = j.want /\ tx.floors = j.floors
        /\ tx.approves = FALSE
    BY <2>1 DEF MintOf
  <2> QED BY <1>1, <1>7, <2>2 DEF TxOK, StepTx, Local, Spender, MintStep
<1>8. CASE at = "movePosition"
  <2>1. tx = [kind |-> "move", id |-> j.token]
    BY <1>8 DEF Wanted, Spender
  <2> QED BY <1>1, <1>8, <2>1 DEF TxOK, StepTx, Local, Spender
<1>9. CASE at = "moveIdentity"
  <2>1. tx.kind = "moveIdentity"
    BY <1>9 DEF Wanted, Spender
  <2> QED BY <1>9, <2>1 DEF TxOK, StepTx, Local, Spender
<1>10. CASE at = "sweep"
  <2>1. tx.kind = "sweep" /\ tx.amount = SweepAmount /\ SweepAmount > 0
    BY <1>10 DEF Wanted, Spender
  <2>2. SweepAmount \in Nat \ {0}
    BY <1>2, <2>1, Constants DEF SweepAmount
  <2> QED BY <1>10, <2>1, <2>2 DEF TxOK, StepTx, Local, Spender
<1>11. CASE at = "withdraw"
  <2>1. tx = [kind |-> "withdraw", id |-> j.token]
    BY <1>11 DEF Wanted, Spender
  <2> QED BY <1>1, <1>11, <2>1 DEF TxOK, StepTx, Local, Spender
<1>12. CASE at = "remint"
  <2> DEFINE band == FreshBand(tick)
  <2>1. tx = MintOf(band, Balances, FloorsOf(band, Balances), TRUE)
    BY <1>12 DEF Wanted, Spender
  <2>2. band \in Bands
    BY <1>2 DEF Bands
  <2> HIDE DEF band
  <2>3. FloorsOf(band, Balances) \in Amounts
    BY <1>2, <2>2, FloorsAreNat
  <2>4. tx.kind = "mint" /\ tx.band = band /\ tx.want = Balances
        /\ tx.floors = FloorsOf(band, Balances) /\ tx.approves = TRUE
    BY <2>1 DEF MintOf
  <2> QED BY <1>2, <1>12, <2>2, <2>3, <2>4 DEF TxOK, StepTx, Local, Spender
<1>13. CASE at \in Local \/ (at \in Spender /\ Allowed(p))
  BY <1>13 DEF Wanted, Local, Spender
<1> QED BY <1>1, <1>4, <1>5, <1>6, <1>7, <1>8, <1>9, <1>10, <1>11, <1>12, <1>13
        DEF MintStep, MigrateStep, AgentStep, Local, Spender

\* A step that changes nothing but what one process, which waits for nothing, knows.
LEMMA JobStep ==
  ASSUME Shape, NEW p \in Process, UNCHANGED chainVars,
         UNCHANGED <<late, wrapped, spent, swept>>, {overlapped', skipped'} \subseteq BOOLEAN,
         {toml', store'} \subseteq 0..Len(positions),
         DOMAIN job' = Process, \A q \in Process \ {p} : job'[q] = job[q],
         JobOK(job'[p], Len(positions), Len(mempool)), DOMAIN job'[p] = Fields,
         job'[p].at \in StepsOf(p), \A i \in DOMAIN mempool : mempool[i].by # p
  PROVE  Shape'
<1>1. /\ tick' = tick /\ wallet' = wallet /\ allowance' = allowance /\ positions' = positions
      /\ identity' = identity /\ mempool' = mempool
  BY DEF chainVars
<1>2. \A q \in Process : /\ JobOK(job'[q], Len(positions), Len(mempool))
                         /\ DOMAIN job'[q] = Fields /\ job'[q].at \in StepsOf(q)
  BY DEF Shape
<1>3. \A i \in DOMAIN mempool : mempool[i].by \in Process =>
        job'[mempool[i].by].phase = "wait" /\ mempool[i].tx = job'[mempool[i].by].tx
  BY DEF Shape
<1> QED BY <1>1, <1>2, <1>3 DEF Shape

\* Only who waits has a transaction that it waits for.
LEMMA NoneSent ==
  ASSUME Shape, NEW p \in Process, job[p].phase # "wait"
  PROVE  \A i \in DOMAIN mempool : mempool[i].by # p
BY DEF Shape

\* The step that follows is another of the same program, and is followed as it should be.
LEMMA NextStep ==
  ASSUME NEW at \in (MintStep \cup MigrateStep \cup AgentStep) \ {"minted", "verify", "record"},
         NEW todo, Follows(at, todo)
  PROVE  /\ Follows(Head(todo), Tail(todo))
         /\ at \in MintStep => Head(todo) \in MintStep \ {"wrap"}
         /\ at \in MigrateStep => Head(todo) \in MigrateStep \ {"movePosition"}
         /\ at \in AgentStep => Head(todo) \in AgentStep \ {"withdraw"}
<1> USE DEF MintStep, MigrateStep, AgentStep
<1>1. CASE at = "wrap"
  <2>1. todo = <<"usdt", "router", "swap", "balances", "npmUsdt", "npmWbnb", "mint", "minted">>
    BY <1>1 DEF Follows
  <2>2. Head(todo) = "usdt" /\ Tail(todo) = <<"router", "swap", "balances", "npmUsdt", "npmWbnb", "mint", "minted">>
    BY <2>1
  <2> HIDE DEF Follows
  <2>3. Follows("usdt", <<"router", "swap", "balances", "npmUsdt", "npmWbnb", "mint", "minted">>)
    BY DEF Follows
  <2> QED BY <1>1, <2>2, <2>3
<1>2. CASE at = "usdt"
  <2>1. todo = <<"router", "swap", "balances", "npmUsdt", "npmWbnb", "mint", "minted">>
    BY <1>2 DEF Follows
  <2>2. Head(todo) = "router" /\ Tail(todo) = <<"swap", "balances", "npmUsdt", "npmWbnb", "mint", "minted">>
    BY <2>1
  <2> HIDE DEF Follows
  <2>3. Follows("router", <<"swap", "balances", "npmUsdt", "npmWbnb", "mint", "minted">>)
    BY DEF Follows
  <2> QED BY <1>2, <2>2, <2>3
<1>3. CASE at = "router"
  <2>1. todo = <<"swap", "balances", "npmUsdt", "npmWbnb", "mint", "minted">>
    BY <1>3 DEF Follows
  <2>2. Head(todo) = "swap" /\ Tail(todo) = <<"balances", "npmUsdt", "npmWbnb", "mint", "minted">>
    BY <2>1
  <2> HIDE DEF Follows
  <2>3. Follows("swap", <<"balances", "npmUsdt", "npmWbnb", "mint", "minted">>)
    BY DEF Follows
  <2> QED BY <1>3, <2>2, <2>3
<1>4. CASE at = "swap"
  <2>1. todo = <<"balances", "npmUsdt", "npmWbnb", "mint", "minted">>
    BY <1>4 DEF Follows
  <2>2. Head(todo) = "balances" /\ Tail(todo) = <<"npmUsdt", "npmWbnb", "mint", "minted">>
    BY <2>1
  <2> HIDE DEF Follows
  <2>3. Follows("balances", <<"npmUsdt", "npmWbnb", "mint", "minted">>)
    BY DEF Follows
  <2> QED BY <1>4, <2>2, <2>3
<1>5. CASE at = "balances"
  <2>1. todo = <<"npmUsdt", "npmWbnb", "mint", "minted">>
    BY <1>5 DEF Follows
  <2>2. Head(todo) = "npmUsdt" /\ Tail(todo) = <<"npmWbnb", "mint", "minted">>
    BY <2>1
  <2> HIDE DEF Follows
  <2>3. Follows("npmUsdt", <<"npmWbnb", "mint", "minted">>)
    BY DEF Follows
  <2> QED BY <1>5, <2>2, <2>3
<1>6. CASE at = "npmUsdt"
  <2>1. todo = <<"npmWbnb", "mint", "minted">>
    BY <1>6 DEF Follows
  <2>2. Head(todo) = "npmWbnb" /\ Tail(todo) = <<"mint", "minted">>
    BY <2>1
  <2> HIDE DEF Follows
  <2>3. Follows("npmWbnb", <<"mint", "minted">>)
    BY DEF Follows
  <2> QED BY <1>6, <2>2, <2>3
<1>7. CASE at = "npmWbnb"
  <2>1. todo = <<"mint", "minted">>
    BY <1>7 DEF Follows
  <2>2. Head(todo) = "mint" /\ Tail(todo) = <<"minted">>
    BY <2>1
  <2> HIDE DEF Follows
  <2>3. Follows("mint", <<"minted">>)
    BY DEF Follows
  <2> QED BY <1>7, <2>2, <2>3
<1>8. CASE at = "mint"
  <2>1. todo = <<"minted">>
    BY <1>8 DEF Follows
  <2>2. Head(todo) = "minted" /\ Tail(todo) = <<>>
    BY <2>1
  <2> HIDE DEF Follows
  <2>3. Follows("minted", <<>>)
    BY DEF Follows
  <2> QED BY <1>8, <2>2, <2>3
<1>9. CASE at = "movePosition"
  <2>1. CASE todo = <<"moveIdentity", "sweep", "verify">>
    <3>1. Head(todo) = "moveIdentity" /\ Tail(todo) = <<"sweep", "verify">>
      BY <2>1
    <3>2. Follows("moveIdentity", <<"sweep", "verify">>)
      BY DEF Follows
    <3> QED BY <1>9, <3>1, <3>2
  <2>2. CASE todo = <<"sweep", "verify">>
    <3>1. Head(todo) = "sweep" /\ Tail(todo) = <<"verify">>
      BY <2>2
    <3>2. Follows("sweep", <<"verify">>)
      BY DEF Follows
    <3> QED BY <1>9, <3>1, <3>2
  <2> QED BY <1>9, <2>1, <2>2 DEF Follows
<1>10. CASE at = "moveIdentity"
  <2>1. todo = <<"sweep", "verify">>
    BY <1>10 DEF Follows
  <2>2. Head(todo) = "sweep" /\ Tail(todo) = <<"verify">>
    BY <2>1
  <2> HIDE DEF Follows
  <2>3. Follows("sweep", <<"verify">>)
    BY DEF Follows
  <2> QED BY <1>10, <2>2, <2>3
<1>11. CASE at = "sweep"
  <2>1. todo = <<"verify">>
    BY <1>11 DEF Follows
  <2>2. Head(todo) = "verify" /\ Tail(todo) = <<>>
    BY <2>1
  <2> HIDE DEF Follows
  <2>3. Follows("verify", <<>>)
    BY DEF Follows
  <2> QED BY <1>11, <2>2, <2>3
<1>12. CASE at = "withdraw"
  <2>1. todo = <<"remint", "record">>
    BY <1>12 DEF Follows
  <2>2. Head(todo) = "remint" /\ Tail(todo) = <<"record">>
    BY <2>1
  <2> HIDE DEF Follows
  <2>3. Follows("remint", <<"record">>)
    BY DEF Follows
  <2> QED BY <1>12, <2>2, <2>3
<1>13. CASE at = "remint"
  <2>1. todo = <<"record">>
    BY <1>13 DEF Follows
  <2>2. Head(todo) = "record" /\ Tail(todo) = <<>>
    BY <2>1
  <2> HIDE DEF Follows
  <2>3. Follows("record", <<>>)
    BY DEF Follows
  <2> QED BY <1>13, <2>2, <2>3
<1> QED BY <1>1, <1>2, <1>3, <1>4, <1>5, <1>6, <1>7, <1>8, <1>9, <1>10, <1>11, <1>12, <1>13

\* Going on to the next step.
LEMMA AdvanceOK ==
  ASSUME NEW p \in Process, NEW j, NEW n \in Nat, NEW m \in Nat, JobOK(j, n, m), DOMAIN j = Fields,
         j.at \in StepsOf(p) \ {"idle", "minted", "verify", "record"}, j.phase # "signed"
  PROVE  /\ JobOK(Advance(j), n, m) /\ DOMAIN Advance(j) = Fields
         /\ Advance(j).at \in StepsOf(p) \ {"idle", "wrap", "movePosition", "withdraw"}
         /\ Advance(j).at = Head(j.todo) /\ Advance(j).phase = "run"
         /\ Advance(j).want = j.want /\ Advance(j).band = j.band /\ Advance(j).token = j.token
         /\ Advance(j).floors = j.floors /\ Advance(j).todo = Tail(j.todo)
<1> DEFINE a == Advance(j)
<1>1. /\ DOMAIN a = Fields /\ a.at = Head(j.todo) /\ a.todo = Tail(j.todo) /\ a.phase = "run"
      /\ a.zeroed = FALSE /\ a.slot = j.slot /\ a.band = j.band /\ a.want = j.want
      /\ a.floors = j.floors /\ a.token = j.token
  BY DEF Advance, Fields
<1> HIDE DEF a
<1>2. Follows(j.at, j.todo) /\ j.slot = 0
  BY DEF JobOK
<1>3. /\ a.at \in StepsOf(p) \ {"idle", "wrap", "movePosition", "withdraw"}
      /\ Follows(a.at, a.todo) /\ (a.at \in MintStep => j.at \in MintStep)
  <2>1. j.at \in (MintStep \cup MigrateStep \cup AgentStep) \ {"minted", "verify", "record"}
    BY DEF StepsOf
  <2>2. /\ Follows(a.at, a.todo)
        /\ j.at \in MintStep => a.at \in MintStep \ {"wrap"}
        /\ j.at \in MigrateStep => a.at \in MigrateStep \ {"movePosition"}
        /\ j.at \in AgentStep => a.at \in AgentStep \ {"withdraw"}
    BY <1>1, <1>2, <2>1, NextStep
  <2> HIDE DEF Follows
  <2> QED BY <2>1, <2>2 DEF StepsOf, MintStep, MigrateStep, AgentStep
<1>4. (a.at \in MintStep => a.band \in Bands) /\ a.at \notin {"movePosition", "withdraw"}
  BY <1>1, <1>3 DEF JobOK
<1>5. JobOK(a, n, m)
  <2>1. /\ a.phase \in Phase /\ a.want \in Amounts /\ a.floors \in Amounts /\ a.zeroed \in BOOLEAN
        /\ a.token \in 0..n /\ a.slot \in 0..(m + 1) /\ a.slot = 0
    BY <1>1, <1>2 DEF JobOK, Phase
  <2> QED BY <1>1, <1>3, <1>4, <2>1 DEF JobOK
<1> QED BY <1>1, <1>3, <1>5 DEF a

\* A process at rest.
LEMMA IdleOK ==
  ASSUME NEW p \in Process, NEW n \in Nat, NEW m \in Nat
  PROVE  JobOK(Idle, n, m) /\ DOMAIN Idle = Fields /\ Idle.at \in StepsOf(p)
<1>1. /\ DOMAIN Idle = Fields /\ Idle.at = "idle" /\ Idle.phase = "run" /\ Idle.slot = 0
      /\ Idle.want = Nothing /\ Idle.floors = Nothing /\ Idle.zeroed = FALSE /\ Idle.token = 0
  BY DEF Idle, Fields
<1>2. Nothing \in Amounts
  BY DEF Nothing, Amounts
<1>3. Follows("idle", Idle.todo)
  BY DEF Follows
<1>4. /\ Idle.phase \in Phase /\ Idle.token \in 0..n /\ Idle.slot \in 0..(m + 1)
      /\ Idle.at \notin MintStep /\ Idle.at \in StepsOf(p)
  BY <1>1 DEF Phase, MintStep, StepsOf
<1> HIDE DEF Idle
<1> QED BY <1>1, <1>2, <1>3, <1>4 DEF JobOK

\* A run that ends, well or not, without a transaction in the mempool.
LEMMA Rests ==
  ASSUME Shape, NEW p \in Process, job' = [job EXCEPT ![p] = Idle],
         UNCHANGED chainVars, UNCHANGED ghostVars,
         {toml', store'} \subseteq 0..Len(positions), \A i \in DOMAIN mempool : mempool[i].by # p
  PROVE  Shape'
<1>1. DOMAIN job' = Process /\ job'[p] = Idle /\ \A q \in Process \ {p} : job'[q] = job[q]
  BY JobFacts
<1>2. JobOK(Idle, Len(positions), Len(mempool)) /\ DOMAIN Idle = Fields /\ Idle.at \in StepsOf(p)
  BY JobFacts, IdleOK
<1>3. UNCHANGED <<late, wrapped, spent, swept>> /\ {overlapped', skipped'} \subseteq BOOLEAN
  BY DEF ghostVars, Shape
<1> QED BY <1>1, <1>2, <1>3, JobStep

\* A step that only goes on to the next.
LEMMA GoesOn ==
  ASSUME Shape, NEW p \in Process, job' = [job EXCEPT ![p] = Advance(job[p])],
         job[p].at \notin {"idle", "minted", "verify", "record"},
         job[p].phase \notin {"signed", "wait"},
         UNCHANGED chainVars, UNCHANGED ghostVars, UNCHANGED <<toml, store>>
  PROVE  Shape'
<1>1. DOMAIN job' = Process /\ job'[p] = Advance(job[p]) /\ \A q \in Process \ {p} : job'[q] = job[q]
  BY JobFacts
<1>2. /\ JobOK(Advance(job[p]), Len(positions), Len(mempool)) /\ DOMAIN Advance(job[p]) = Fields
      /\ Advance(job[p]).at \in StepsOf(p)
  BY JobFacts, AdvanceOK
<1>3. UNCHANGED <<late, wrapped, spent, swept>> /\ {overlapped', skipped'} \subseteq BOOLEAN
      /\ {toml', store'} \subseteq 0..Len(positions)
  BY DEF ghostVars, Shape
<1> QED BY <1>1, <1>2, <1>3, JobStep, NoneSent

\* _send, up to the signature.
LEMMA SignShape ==
  ASSUME Shape, NEW p \in Process, Sign(p)
  PROVE  Shape'
<1>1. PICK tx \in Wanted(p) :
        job' = [job EXCEPT ![p].phase = "signed", ![p].tx = tx, ![p].slot = Len(mempool) + 1]
  BY DEF Sign
<1>2. job[p].phase = "run" /\ UNCHANGED chainVars /\ UNCHANGED ghostVars /\ UNCHANGED <<toml, store>>
  BY DEF Sign
<1>3. TxOK(tx, Len(positions)) /\ StepTx(job[p], tx) /\ job[p].at \notin Local
  BY <1>2, WantedOK
<1>4. /\ DOMAIN job' = Process /\ \A q \in Process \ {p} : job'[q] = job[q]
      /\ DOMAIN job'[p] = Fields /\ job'[p].phase = "signed" /\ job'[p].tx = tx
      /\ job'[p].slot = Len(mempool) + 1 /\ job'[p].at = job[p].at /\ job'[p].todo = job[p].todo
      /\ job'[p].band = job[p].band /\ job'[p].want = job[p].want /\ job'[p].token = job[p].token
      /\ job'[p].floors = job[p].floors /\ job'[p].zeroed = job[p].zeroed
  BY <1>1, JobFacts DEF Fields
<1>5. StepTx(job'[p], tx)
  BY <1>3, <1>4 DEF StepTx
<1>6. JobOK(job'[p], Len(positions), Len(mempool))
  <2>1. JobOK(job[p], Len(positions), Len(mempool)) /\ Len(mempool) \in Nat
    BY JobFacts
  <2> HIDE DEF Follows, TxOK, StepTx
  <2> QED BY <1>3, <1>4, <1>5, <2>1 DEF JobOK, Phase
<1>7. UNCHANGED <<late, wrapped, spent, swept>> /\ {overlapped', skipped'} \subseteq BOOLEAN
      /\ {toml', store'} \subseteq 0..Len(positions)
  BY <1>2 DEF ghostVars, Shape
<1>8. job'[p].at \in StepsOf(p)
  BY <1>4, JobFacts
<1> QED BY <1>2, <1>4, <1>6, <1>7, <1>8, JobStep, NoneSent

\* The receipt says 1.
LEMMA LandedShape ==
  ASSUME Shape, NEW p \in Process, Landed(p)
  PROVE  Shape'
<1> DEFINE j == job[p]
<1>1. j.phase = "landed" /\ UNCHANGED chainVars /\ UNCHANGED ghostVars /\ UNCHANGED <<toml, store>>
      /\ job' = [job EXCEPT ![p] =
           IF j.tx.kind = "approve" /\ j.tx.amount = 0
           THEN [j EXCEPT !.phase = "run", !.tx = NoTx, !.zeroed = TRUE] ELSE Advance(j)]
  BY DEF Landed
<1>2. JobOK(j, Len(positions), Len(mempool)) /\ DOMAIN j = Fields /\ j.at \in StepsOf(p)
      /\ Len(positions) \in Nat /\ Len(mempool) \in Nat
  BY JobFacts
<1>3. j.at \notin Local
  BY <1>1, <1>2 DEF JobOK
<1>4. CASE j.tx.kind = "approve" /\ j.tx.amount = 0
  <2>1. job' = [job EXCEPT ![p] = [j EXCEPT !.phase = "run", !.tx = NoTx, !.zeroed = TRUE]]
    BY <1>1, <1>4
  <2>2. /\ DOMAIN job' = Process /\ \A q \in Process \ {p} : job'[q] = job[q]
        /\ job'[p] = [j EXCEPT !.phase = "run", !.tx = NoTx, !.zeroed = TRUE]
    BY <2>1, JobFacts
  <2>3. /\ DOMAIN job'[p] = Fields /\ job'[p].phase = "run" /\ job'[p].zeroed = TRUE
        /\ job'[p].slot = j.slot /\ job'[p].at = j.at /\ job'[p].todo = j.todo
        /\ job'[p].band = j.band /\ job'[p].want = j.want /\ job'[p].token = j.token
        /\ job'[p].floors = j.floors
    BY <1>2, <2>2 DEF Fields
  <2>4. JobOK(job'[p], Len(positions), Len(mempool))
    BY <1>1, <1>2, <2>3 DEF JobOK, Phase
  <2>5. UNCHANGED <<late, wrapped, spent, swept>> /\ {overlapped', skipped'} \subseteq BOOLEAN
        /\ {toml', store'} \subseteq 0..Len(positions)
    BY <1>1 DEF ghostVars, Shape
  <2>6. job'[p].at \in StepsOf(p) /\ \A i \in DOMAIN mempool : mempool[i].by # p
    BY <1>1, <1>2, <2>3, NoneSent
  <2> QED BY <1>1, <2>2, <2>3, <2>4, <2>5, <2>6, JobStep
<1>5. CASE ~(j.tx.kind = "approve" /\ j.tx.amount = 0)
  <2>1. job' = [job EXCEPT ![p] = Advance(job[p])]
    BY <1>1, <1>5
  <2> QED BY <1>1, <1>3, <2>1, GoesOn DEF Local
<1> QED BY <1>4, <1>5

\* A run that ends with an exception.
LEMMA FailsShape ==
  ASSUME Shape, NEW p \in Process, Fails(p)
  PROVE  Shape'
<1>1. job' = [job EXCEPT ![p] = Idle] /\ UNCHANGED chainVars /\ UNCHANGED ghostVars
      /\ {toml', store'} \subseteq 0..Len(positions)
  BY DEF Fails, Shape
<1>2. \A i \in DOMAIN mempool : mempool[i].by # p
  BY NoneSent DEF Fails
<1> QED BY <1>1, <1>2, Rests

\* What holds of a process and of a transaction holds of it when there are more positions.
LEMMA TxGrows ==
  ASSUME NEW n \in Nat, NEW k \in Nat, n <= k, NEW tx, TxOK(tx, n)
  PROVE  TxOK(tx, k)
BY DEF TxOK

LEMMA JobGrows ==
  ASSUME NEW n \in Nat, NEW k \in Nat, n <= k, NEW m \in Nat, NEW l \in Nat, NEW j, JobOK(j, n, m),
         j.slot <= l + 1
  PROVE  JobOK(j, k, l)
<1>1. /\ j.phase # "signed" => j.slot = 0
      /\ Follows(j.at, j.todo)
      /\ j.phase \in Phase /\ j.want \in Amounts /\ j.floors \in Amounts
      /\ j.zeroed \in BOOLEAN
      /\ j.at \in Local => j.phase = "run"
      /\ j.at \in MintStep => j.band \in Bands
      /\ j.at \in {"movePosition", "withdraw"} => j.token # 0
      /\ j.phase # "run" => StepTx(j, j.tx)
      /\ j.at = "remint" /\ j.phase = "landed" => j.token # 0
  BY DEF JobOK
<1>2. j.token \in 0..k /\ j.slot \in 0..(l + 1)
  BY DEF JobOK
<1>3. j.phase # "run" => TxOK(j.tx, k)
  BY TxGrows DEF JobOK
<1> QED BY <1>1, <1>2, <1>3 DEF JobOK

\* A sequence of anything is one of more.
LEMMA SeqOfMore ==
  ASSUME NEW S, NEW T, NEW s \in Seq(S), S \subseteq T
  PROVE  s \in Seq(T)
<1>1. Len(s) \in Nat /\ s \in [1..Len(s) -> S]
  BY LenProperties
<1>2. s \in [1..Len(s) -> T]
  BY <1>1
<1> QED BY <1>1, <1>2, SeqDef

\* A transaction is put at the end of the mempool or in the place of another.
LEMMA PutInMempool ==
  ASSUME Shape, NEW slot \in 1..(Len(mempool) + 1), NEW sent,
         mempool' = IF slot > Len(mempool) THEN Append(mempool, sent)
                    ELSE [mempool EXCEPT ![slot] = sent]
  PROVE  /\ \E S : mempool' \in Seq(S)
         /\ Len(mempool') \in Len(mempool)..(Len(mempool) + 1)
         /\ DOMAIN mempool' = 1..Len(mempool') /\ slot \in DOMAIN mempool' /\ mempool'[slot] = sent
         /\ \A i \in DOMAIN mempool' \ {slot} : i \in DOMAIN mempool /\ mempool'[i] = mempool[i]
<1>1. PICK S : mempool \in Seq(S)
  BY DEF Shape
<1> DEFINE T == S \cup {sent}
<1>2. mempool \in Seq(T) /\ sent \in T
  BY <1>1, SeqOfMore
<1> HIDE DEF T
<1>3. CASE slot > Len(mempool)
  BY <1>2, <1>3
<1>4. CASE slot <= Len(mempool)
  <2>1. mempool' = [mempool EXCEPT ![slot] = sent] /\ Len(mempool) \in Nat /\ slot \in 1..Len(mempool)
    BY <1>2, <1>4
  <2>2. mempool' \in Seq(T) /\ Len(mempool') = Len(mempool)
    BY <1>2, <2>1, ExceptSeq
  <2>3. DOMAIN mempool = 1..Len(mempool) /\ DOMAIN mempool' = DOMAIN mempool
    BY <1>2, <2>1
  <2>4. mempool'[slot] = sent /\ \A i \in DOMAIN mempool' \ {slot} : mempool'[i] = mempool[i]
    BY <2>1, <2>3
  <2>5. Len(mempool) \in Nat /\ slot \in 1..Len(mempool)
    BY <2>1
  <2>6. Len(mempool') \in Len(mempool)..(Len(mempool) + 1)
    <3> DEFINE l == Len(mempool)
    <3>1. l \in Nat /\ Len(mempool') = l
      BY <2>2, <2>5
    <3> HIDE DEF l
    <3>2. Len(mempool') \in l..(l + 1)
      BY <3>1
    <3> QED BY <3>2 DEF l
  <2>7. slot \in DOMAIN mempool'
    BY <2>3, <2>5
  <2> QED BY <2>2, <2>3, <2>4, <2>6, <2>7
<1> QED BY <1>2, <1>3, <1>4

\* The transaction is broadcast.
LEMMA BroadcastShape ==
  ASSUME Shape, NEW p \in Process, Broadcast(p)
  PROVE  Shape'
<1> DEFINE j == job[p]
           n == Len(positions)
           m == Len(mempool)
           sent == [by |-> p, tx |-> j.tx]
<1>1. /\ j.phase = "signed" /\ j.slot > 0
      /\ mempool' = IF j.slot > m THEN Append(mempool, sent) ELSE [mempool EXCEPT ![j.slot] = sent]
      /\ job' = [job EXCEPT ![p].phase = "wait", ![p].slot = 0]
      /\ UNCHANGED <<tick, wallet, allowance, positions, identity, toml, store, left, ghostVars>>
  BY DEF Broadcast
<1>2. JobOK(j, n, m) /\ DOMAIN j = Fields /\ j.at \in StepsOf(p) /\ n \in Nat /\ m \in Nat
      /\ DOMAIN job = Process
  BY JobFacts
<1>3. j.slot \in 1..(m + 1)
  BY <1>1, <1>2 DEF JobOK
<1>4. /\ \E S : mempool' \in Seq(S)
      /\ Len(mempool') \in m..(m + 1)
      /\ DOMAIN mempool' = 1..Len(mempool') /\ j.slot \in DOMAIN mempool' /\ mempool'[j.slot] = sent
      /\ \A i \in DOMAIN mempool' \ {j.slot} : i \in DOMAIN mempool /\ mempool'[i] = mempool[i]
  <2> HIDE DEF sent, j
  <2> QED BY <1>1, <1>3, PutInMempool
<1>5. /\ DOMAIN job' = Process /\ \A q \in Process \ {p} : job'[q] = job[q]
      /\ DOMAIN job'[p] = Fields /\ job'[p].phase = "wait" /\ job'[p].slot = 0
      /\ job'[p].at = j.at /\ job'[p].todo = j.todo /\ job'[p].tx = j.tx
      /\ job'[p].band = j.band /\ job'[p].want = j.want /\ job'[p].token = j.token
      /\ job'[p].floors = j.floors /\ job'[p].zeroed = j.zeroed
  BY <1>1, <1>2 DEF Fields
<1>6. /\ TxOK(j.tx, n) /\ sent.by = p /\ sent.tx = j.tx
      /\ DOMAIN sent = {"by", "tx"} /\ \A i \in DOMAIN mempool : mempool[i].by # p
  BY <1>1, <1>2, NoneSent DEF JobOK
<1> HIDE DEF sent
<1>7. JobOK(job'[p], n, Len(mempool'))
  <2>1. j.at \notin Local /\ StepTx(j, j.tx)
    BY <1>1, <1>2 DEF JobOK
  <2>2. StepTx(job'[p], j.tx)
    BY <1>5, <2>1 DEF StepTx
  <2>3. 0 \in 0..(Len(mempool') + 1)
    BY <1>2, <1>4
  <2> QED BY <1>2, <1>5, <1>6, <2>1, <2>2, <2>3 DEF JobOK, Phase
<1>8. \A q \in Process : /\ JobOK(job'[q], n, Len(mempool'))
                         /\ DOMAIN job'[q] = Fields /\ job'[q].at \in StepsOf(q)
  <2> SUFFICES ASSUME NEW q \in Process
               PROVE  /\ JobOK(job'[q], n, Len(mempool'))
                      /\ DOMAIN job'[q] = Fields /\ job'[q].at \in StepsOf(q)
    OBVIOUS
  <2>1. CASE q = p
    BY <1>2, <1>5, <1>7, <2>1
  <2>2. CASE q # p
    <3>1. job'[q] = job[q] /\ JobOK(job[q], n, m) /\ DOMAIN job[q] = Fields /\ job[q].at \in StepsOf(q)
      BY <1>5, <2>2, JobFacts
    <3>2. job[q].slot <= Len(mempool') + 1 /\ Len(mempool') \in Nat
      BY <1>2, <1>4, <3>1 DEF JobOK
    <3> QED BY <1>2, <3>1, <3>2, JobGrows
  <2> QED BY <2>1, <2>2
<1>9. \A i \in DOMAIN mempool' : /\ TxOK(mempool'[i].tx, n)
                                /\ mempool'[i].by \in Process \cup {"nobody"}
                                /\ DOMAIN mempool'[i] = {"by", "tx"}
  <2>1. \A i \in DOMAIN mempool : /\ TxOK(mempool[i].tx, n)
                                 /\ mempool[i].by \in Process \cup {"nobody"}
                                 /\ DOMAIN mempool[i] = {"by", "tx"}
    BY DEF Shape
  <2> QED BY <1>4, <1>6, <2>1
<1>10. \A i \in DOMAIN mempool' : mempool'[i].by \in Process =>
         job'[mempool'[i].by].phase = "wait" /\ mempool'[i].tx = job'[mempool'[i].by].tx
  <2>1. \A i \in DOMAIN mempool : mempool[i].by \in Process =>
         job[mempool[i].by].phase = "wait" /\ mempool[i].tx = job[mempool[i].by].tx
    BY DEF Shape
  <2> QED BY <1>4, <1>5, <1>6, <2>1
<1>11. \A i, k \in DOMAIN mempool' :
         mempool'[i].by = mempool'[k].by /\ mempool'[i].by \in Process => i = k
  <2>1. \A i, k \in DOMAIN mempool :
         mempool[i].by = mempool[k].by /\ mempool[i].by \in Process => i = k
    BY DEF Shape
  <2> QED BY <1>4, <1>6, <2>1
<1>12. /\ tick' = tick /\ wallet' = wallet /\ allowance' = allowance /\ positions' = positions
       /\ identity' = identity /\ UNCHANGED <<toml, store>> /\ late' = late /\ swept' = swept
       /\ UNCHANGED <<overlapped, skipped>> /\ wrapped' = wrapped /\ spent' = spent
  BY <1>1 DEF ghostVars
<1> HIDE DEF j, m
<1> QED BY <1>4, <1>5, <1>8, <1>9, <1>10, <1>11, <1>12 DEF Shape

\* A run that ends at any point; a transaction stays behind.
LEMMA AbortShape ==
  ASSUME Shape, NEW p \in Process, Abort(p)
  PROVE  Shape'
<1> DEFINE n == Len(positions)
           m == Len(mempool)
<1>1. /\ mempool' = [i \in DOMAIN mempool |->
                      IF mempool[i].by = p THEN [mempool[i] EXCEPT !.by = "nobody"] ELSE mempool[i]]
      /\ job' = [job EXCEPT ![p] = Idle]
      /\ tick' = tick /\ wallet' = wallet /\ allowance' = allowance /\ positions' = positions
      /\ identity' = identity /\ UNCHANGED <<toml, store>> /\ swept' = swept
      /\ UNCHANGED <<overlapped, skipped>> /\ wrapped' = wrapped /\ spent' = spent
  BY DEF Abort
<1>2. late' \in BOOLEAN
  BY DEF Abort, Shape
<1>3. n \in Nat /\ m \in Nat /\ DOMAIN mempool = 1..m /\ DOMAIN job = Process
  BY JobFacts
<1>4. /\ \E S : mempool' \in Seq(S)
      /\ DOMAIN mempool' = 1..m /\ Len(mempool') = m
  <2> DEFINE S == {mempool'[i] : i \in 1..m}
  <2>1. mempool' \in [1..m -> S]
    BY <1>1, <1>3
  <2> HIDE DEF S
  <2>2. mempool' \in Seq(S)
    BY <1>3, <2>1, SeqDef
  <2> QED BY <1>3, <2>1, <2>2
<1>5. \A i \in 1..m : /\ TxOK(mempool[i].tx, n) /\ mempool[i].by \in Process \cup {"nobody"}
                     /\ DOMAIN mempool[i] = {"by", "tx"}
  BY <1>3 DEF Shape
<1>6. \A i \in 1..m : /\ mempool'[i].tx = mempool[i].tx /\ DOMAIN mempool'[i] = {"by", "tx"}
                     /\ mempool'[i].by = IF mempool[i].by = p THEN "nobody" ELSE mempool[i].by
  BY <1>1, <1>3, <1>5
<1>7. \A i \in 1..m : mempool'[i].by \in Process => mempool'[i].by = mempool[i].by /\ mempool[i].by # p
  BY <1>6 DEF Process
<1>8. /\ DOMAIN job' = Process /\ job'[p] = Idle /\ \A q \in Process \ {p} : job'[q] = job[q]
      /\ JobOK(Idle, n, m) /\ DOMAIN Idle = Fields /\ Idle.at \in StepsOf(p)
  BY <1>1, <1>3, IdleOK
<1>9. \A q \in Process : /\ JobOK(job'[q], n, m)
                         /\ DOMAIN job'[q] = Fields /\ job'[q].at \in StepsOf(q)
  BY <1>8 DEF Shape
<1>10. \A i \in 1..m : /\ TxOK(mempool'[i].tx, n)
                      /\ mempool'[i].by \in Process \cup {"nobody"}
                      /\ DOMAIN mempool'[i] = {"by", "tx"}
  BY <1>5, <1>6
<1>11. \A i \in 1..m : mempool'[i].by \in Process =>
         job'[mempool'[i].by].phase = "wait" /\ mempool'[i].tx = job'[mempool'[i].by].tx
  <2>1. \A i \in DOMAIN mempool : mempool[i].by \in Process =>
         job[mempool[i].by].phase = "wait" /\ mempool[i].tx = job[mempool[i].by].tx
    BY DEF Shape
  <2> QED BY <1>3, <1>6, <1>7, <1>8, <2>1
<1>12. \A i, k \in 1..m :
         mempool'[i].by = mempool'[k].by /\ mempool'[i].by \in Process => i = k
  <2>1. \A i, k \in DOMAIN mempool :
         mempool[i].by = mempool[k].by /\ mempool[i].by \in Process => i = k
    BY DEF Shape
  <2> QED BY <1>3, <1>7, <2>1
<1>13. /\ tick \in Live /\ wallet \in [native : 0..Native, wbnb : Nat, usdt : Nat]
       /\ allowance \in [Spender -> Nat]
       /\ positions \in Seq([owner : {"old", "new"}, liquidity : Nat, band : Bands])
       /\ identity \in {"old", "new"} /\ {toml, store} \subseteq 0..Len(positions)
       /\ swept \in BOOLEAN /\ {overlapped, skipped} \subseteq BOOLEAN /\ wrapped \in Nat /\ spent \in Nat
  BY DEF Shape
<1>14. /\ \A q \in Process : /\ JobOK(job'[q], Len(positions'), Len(mempool'))
                             /\ DOMAIN job'[q] = Fields /\ job'[q].at \in StepsOf(q)
       /\ \A i \in DOMAIN mempool' : /\ TxOK(mempool'[i].tx, Len(positions'))
                                    /\ mempool'[i].by \in Process \cup {"nobody"}
                                    /\ DOMAIN mempool'[i] = {"by", "tx"}
       /\ \A i, k \in DOMAIN mempool' :
            mempool'[i].by = mempool'[k].by /\ mempool'[i].by \in Process => i = k
  BY <1>1, <1>4, <1>9, <1>10, <1>12
<1>15. \A i \in DOMAIN mempool' : mempool'[i].by \in Process =>
         job'[mempool'[i].by].phase = "wait" /\ mempool'[i].tx = job'[mempool'[i].by].tx
  BY <1>4, <1>11
<1>16. /\ tick' \in Live /\ wallet' \in [native : 0..Native, wbnb : Nat, usdt : Nat]
       /\ allowance' \in [Spender -> Nat]
       /\ positions' \in Seq([owner : {"old", "new"}, liquidity : Nat, band : Bands])
       /\ identity' \in {"old", "new"} /\ {toml', store'} \subseteq 0..Len(positions')
       /\ swept' \in BOOLEAN /\ {overlapped', skipped'} \subseteq BOOLEAN /\ wrapped' \in Nat /\ spent' \in Nat
  BY <1>1, <1>13
<1> QED BY <1>2, <1>4, <1>8, <1>14, <1>15, <1>16 DEF Shape

-----------------------------------------------------------------------------
(* What is mined. *)

\* A transaction pays its gas, and takes no more than there is.
LEMMA ChargeOK ==
  ASSUME Shape, NEW tx, NEW native \in Int, NEW wbnb \in Int, NEW usdt \in Int,
         Charge(tx, native, wbnb, usdt), native <= 0, wallet.native + native >= Fee(tx),
         wallet.wbnb + wbnb >= 0, wallet.usdt + usdt >= 0
  PROVE  wallet' \in [native : 0..Native, wbnb : Nat, usdt : Nat]
<1>1. Fee(tx) \in Nat /\ Native \in Nat
  BY Constants DEF Fee
<1>2. wallet.native \in 0..Native /\ wallet.wbnb \in Nat /\ wallet.usdt \in Nat
  BY DEF Shape
<1>3. /\ wallet.native + native - Fee(tx) \in 0..Native
      /\ wallet.wbnb + wbnb \in Nat /\ wallet.usdt + usdt \in Nat
  BY <1>1, <1>2
<1> QED BY <1>3 DEF Charge

\* What a transaction of each kind does to the chain.
Outcome(tx) ==
  \/ Deposit(tx) \/ Approve(tx) \/ Swap(tx) \/ Mint(tx) \/ Withdraw(tx) \/ Move(tx) \/ Sweep(tx)

ChainOK ==
  /\ wallet' \in [native : 0..Native, wbnb : Nat, usdt : Nat]
  /\ allowance' \in [Spender -> Nat]
  /\ positions' \in Seq([owner : {"old", "new"}, liquidity : Nat, band : Bands])
  /\ identity' \in {"old", "new"} /\ swept' \in BOOLEAN /\ wrapped' \in Nat /\ spent' \in Nat
  /\ Len(positions') \in Len(positions)..(Len(positions) + 1)

LEMMA OutcomeOK ==
  ASSUME Shape, NEW tx, TxOK(tx, Len(positions)), Affordable(tx), Executes(tx), Outcome(tx)
  PROVE  ChainOK /\ (tx.kind = "mint" => Len(positions') = Len(positions) + 1)
<1>1. /\ wallet.native \in 0..Native /\ wallet.wbnb \in Nat /\ wallet.usdt \in Nat /\ tick \in Live
      /\ allowance \in [Spender -> Nat]
      /\ positions \in Seq([owner : {"old", "new"}, liquidity : Nat, band : Bands])
      /\ identity \in {"old", "new"} /\ swept \in BOOLEAN /\ wrapped \in Nat /\ spent \in Nat
      /\ Len(positions) \in Nat /\ Fee(tx) \in Nat
  BY Constants DEF Shape, Fee
<1>2. /\ wallet.native + 0 >= Fee(tx) /\ wallet.wbnb + 0 >= 0 /\ wallet.usdt + 0 >= 0
      /\ tx.kind \in {"deposit", "sweep"} =>
           /\ tx.amount \in Nat /\ -tx.amount \in Int /\ -tx.amount <= 0
           /\ wallet.native + -tx.amount >= Fee(tx) /\ wallet.wbnb + tx.amount >= 0
  <2>1. wallet.native \in Nat /\ wallet.wbnb \in Nat /\ wallet.usdt \in Nat /\ Fee(tx) \in Nat
    BY <1>1
  <2>2. CASE tx.kind \in {"deposit", "sweep"}
    <3>1. tx.amount \in Nat /\ wallet.native >= Fee(tx) + tx.amount
      BY <2>2 DEF TxOK, Affordable
    <3>2. \A w, a, f \in Nat :
            w >= f + a => -a \in Int /\ -a <= 0 /\ w + -a >= f /\ w + 0 >= f /\ w + a >= 0
      OBVIOUS
    <3>3. \A w, a \in Nat : w + a >= 0 /\ w + 0 >= 0
      OBVIOUS
    <3> QED BY <2>1, <3>1, <3>2, <3>3
  <2>3. CASE tx.kind \notin {"deposit", "sweep"}
    <3>1. wallet.native >= Fee(tx) + 0
      BY <2>3 DEF Affordable
    <3> QED BY <2>1, <2>3, <3>1
  <2> QED BY <2>2, <2>3
<1>10. Len(positions) \in Len(positions)..(Len(positions) + 1)
  BY <1>1
<1>3. CASE Deposit(tx)
  <2>1. /\ tx.kind = "deposit" /\ Charge(tx, -tx.amount, tx.amount, 0)
        /\ wrapped' = wrapped + tx.amount /\ allowance' = allowance /\ positions' = positions
        /\ identity' = identity /\ spent' = spent /\ swept' = swept
    BY <1>3 DEF Deposit
  <2>2. tx.amount \in Nat
    BY <2>1 DEF TxOK
  <2>3. wallet' \in [native : 0..Native, wbnb : Nat, usdt : Nat]
    <3>1. /\ -tx.amount \in Int /\ tx.amount \in Int /\ -tx.amount <= 0
          /\ wallet.native + -tx.amount >= Fee(tx) /\ wallet.wbnb + tx.amount >= 0
          /\ wallet.usdt + 0 >= 0
      BY <1>2, <2>1
    <3> QED BY <2>1, <3>1, ChargeOK
  <2>4. wrapped' \in Nat
    BY <1>1, <2>1, <2>2
  <2> QED BY <1>1, <1>10, <2>1, <2>3, <2>4 DEF ChainOK
<1>4. CASE Approve(tx)
  <2>1. /\ tx.kind = "approve" /\ Charge(tx, 0, 0, 0)
        /\ allowance' = [allowance EXCEPT ![tx.spender] = tx.amount] /\ positions' = positions
        /\ identity' = identity /\ wrapped' = wrapped /\ spent' = spent /\ swept' = swept
    BY <1>4 DEF Approve
  <2>2. tx.amount \in Nat
    BY <2>1 DEF TxOK
  <2>3. wallet' \in [native : 0..Native, wbnb : Nat, usdt : Nat]
    <3> QED BY <1>2, <2>1, ChargeOK
  <2>4. allowance' \in [Spender -> Nat]
    BY <1>1, <2>1, <2>2
  <2> QED BY <1>1, <1>10, <2>1, <2>3, <2>4 DEF ChainOK
<1>5. CASE Swap(tx)
  <2>1. /\ tx.kind = "swap" /\ Charge(tx, 0, -tx.amount, SwapOut(tx.amount))
        /\ allowance' = [allowance EXCEPT !["router"] = @ - tx.amount]
        /\ spent' = spent + tx.amount /\ positions' = positions
        /\ identity' = identity /\ wrapped' = wrapped /\ swept' = swept
    BY <1>5 DEF Swap
  <2>2. tx.amount \in Nat /\ SwapOut(tx.amount) \in Nat
    BY <1>1, <2>1, SwapOutNat DEF TxOK
  <2>3. tx.amount <= wallet.wbnb /\ tx.amount <= allowance["router"]
    BY <2>1 DEF Executes
  <2>4. wallet' \in [native : 0..Native, wbnb : Nat, usdt : Nat]
    <3>1. /\ -tx.amount \in Int
          /\ wallet.wbnb + -tx.amount >= 0 /\ wallet.usdt + SwapOut(tx.amount) >= 0
      BY <1>1, <2>2, <2>3
    <3> QED BY <1>2, <2>1, <2>2, <3>1, ChargeOK
  <2>5. allowance' \in [Spender -> Nat]
    <3>1. allowance["router"] \in Nat
      BY <1>1 DEF Spender
    <3>2. allowance["router"] - tx.amount \in Nat
      BY <2>2, <2>3, <3>1
    <3> QED BY <1>1, <2>1, <3>2
  <2>6. spent' \in Nat
    BY <1>1, <2>1, <2>2
  <2> QED BY <1>1, <1>10, <2>1, <2>4, <2>5, <2>6 DEF ChainOK
<1>6. CASE Mint(tx)
  <2>1. /\ tx.kind = "mint" /\ Charge(tx, 0, -Taken(tx).wbnb, -Taken(tx).usdt)
        /\ positions' = Append(positions, [owner |-> "old", liquidity |-> Minted(tx), band |-> tx.band])
        /\ allowance' = IF tx.approves THEN allowance
                        ELSE [allowance EXCEPT !["npmUsdt"] = @ - Taken(tx).usdt,
                                               !["npmWbnb"] = @ - Taken(tx).wbnb]
        /\ spent' = spent + Taken(tx).wbnb
        /\ identity' = identity /\ wrapped' = wrapped /\ swept' = swept
    BY <1>6 DEF Mint
  <2>2. tx.band \in Bands /\ tx.want \in Amounts /\ tx.floors \in Amounts
    BY <2>1 DEF TxOK
  <2>3. Minted(tx) \in Nat /\ Taken(tx).usdt \in Nat /\ Taken(tx).wbnb \in Nat
    BY <1>1, <2>2, MintIsNat DEF Amounts
  <2>4. /\ Taken(tx).usdt <= wallet.usdt /\ Taken(tx).wbnb <= wallet.wbnb
        /\ ~tx.approves => /\ Taken(tx).usdt <= allowance["npmUsdt"]
                           /\ Taken(tx).wbnb <= allowance["npmWbnb"]
    <3>1. /\ Taken(tx).usdt \in tx.floors.usdt..wallet.usdt
          /\ Taken(tx).wbnb \in tx.floors.wbnb..wallet.wbnb
          /\ tx.approves \/ /\ Taken(tx).usdt <= allowance["npmUsdt"]
                            /\ Taken(tx).wbnb <= allowance["npmWbnb"]
      BY <2>1 DEF Executes
    <3>2. tx.floors.usdt \in Nat /\ tx.floors.wbnb \in Nat
      BY <2>2 DEF Amounts
    <3> QED BY <1>1, <2>3, <3>1, <3>2
  <2>5. wallet' \in [native : 0..Native, wbnb : Nat, usdt : Nat]
    <3>1. /\ -Taken(tx).wbnb \in Int /\ -Taken(tx).usdt \in Int
          /\ wallet.wbnb + -Taken(tx).wbnb >= 0 /\ wallet.usdt + -Taken(tx).usdt >= 0
      BY <1>1, <2>3, <2>4
    <3> QED BY <1>2, <2>1, <3>1, ChargeOK
  <2>6. allowance' \in [Spender -> Nat]
    <3>1. allowance["npmUsdt"] \in Nat /\ allowance["npmWbnb"] \in Nat
      BY <1>1 DEF Spender
    <3>2. ~tx.approves => /\ allowance["npmUsdt"] - Taken(tx).usdt \in Nat
                          /\ allowance["npmWbnb"] - Taken(tx).wbnb \in Nat
      BY <2>3, <2>4, <3>1
    <3>3. CASE tx.approves
      BY <1>1, <2>1, <3>3
    <3>4. CASE ~tx.approves
      <4> DEFINE u == Taken(tx).usdt
                 w == Taken(tx).wbnb
      <4>1. allowance' = [allowance EXCEPT !["npmUsdt"] = @ - u, !["npmWbnb"] = @ - w]
        BY <2>1, <3>4
      <4>2. allowance["npmUsdt"] - u \in Nat /\ allowance["npmWbnb"] - w \in Nat
        BY <3>2, <3>4
      <4> HIDE DEF u, w
      <4> QED BY <1>1, <4>1, <4>2
    <3> QED BY <3>3, <3>4
  <2>7. /\ positions' \in Seq([owner : {"old", "new"}, liquidity : Nat, band : Bands])
        /\ Len(positions') = Len(positions) + 1
    <3> DEFINE e == [owner |-> "old", liquidity |-> Minted(tx), band |-> tx.band]
    <3>1. e \in [owner : {"old", "new"}, liquidity : Nat, band : Bands]
      BY <2>2, <2>3
    <3> HIDE DEF e
    <3>2. positions' = Append(positions, e)
      BY <2>1 DEF e
    <3> QED BY <1>1, <3>1, <3>2, AppendProperties
  <2>8. spent' \in Nat
    BY <1>1, <2>1, <2>3
  <2>9. Len(positions') \in Len(positions)..(Len(positions) + 1)
    <3>1. Len(positions) \in Nat
      BY <1>1
    <3> QED BY <2>7, <3>1
  <2> QED BY <1>1, <2>1, <2>5, <2>6, <2>7, <2>8, <2>9 DEF ChainOK
<1>7. CASE Withdraw(tx)
  <2>1. /\ tx.kind = "withdraw" /\ Charge(tx, 0, Value(tx.id).wbnb, Value(tx.id).usdt)
        /\ positions' = [positions EXCEPT ![tx.id].liquidity = 0]
        /\ allowance' = allowance /\ identity' = identity /\ wrapped' = wrapped
        /\ spent' = spent /\ swept' = swept
    BY <1>7 DEF Withdraw
  <2>2. tx.id \in 1..Len(positions)
    BY <2>1 DEF TxOK
  <2>3. positions[tx.id] \in [owner : {"old", "new"}, liquidity : Nat, band : Bands]
    BY <1>1, <2>2, ElementOfSeq
  <2>4. Value(tx.id).usdt \in Nat /\ Value(tx.id).wbnb \in Nat
    BY <1>1, <2>3, ValueIsNat DEF Amounts
  <2>5. wallet' \in [native : 0..Native, wbnb : Nat, usdt : Nat]
    <3>1. wallet.wbnb + Value(tx.id).wbnb >= 0 /\ wallet.usdt + Value(tx.id).usdt >= 0
      BY <1>1, <2>4
    <3> QED BY <1>2, <2>1, <2>4, <3>1, ChargeOK
  <2>6. /\ positions' \in Seq([owner : {"old", "new"}, liquidity : Nat, band : Bands])
        /\ Len(positions') = Len(positions)
    <3> DEFINE e == [positions[tx.id] EXCEPT !.liquidity = 0]
    <3>1. e \in [owner : {"old", "new"}, liquidity : Nat, band : Bands]
      BY <2>3
    <3>2. positions' = [positions EXCEPT ![tx.id] = e]
      BY <2>1
    <3> HIDE DEF e
    <3> QED BY <1>1, <2>2, <3>1, <3>2, ExceptSeq
  <2> QED BY <1>1, <1>10, <2>1, <2>5, <2>6 DEF ChainOK
<1>8. CASE Move(tx)
  <2>1. /\ tx.kind \in {"move", "moveIdentity"} /\ Charge(tx, 0, 0, 0)
        /\ \/ tx.kind = "move" /\ positions' = [positions EXCEPT ![tx.id].owner = "new"]
              /\ identity' = identity
           \/ identity' = "new" /\ positions' = positions
        /\ allowance' = allowance /\ wrapped' = wrapped
        /\ spent' = spent /\ swept' = swept
    BY <1>8 DEF Move
  <2>2. wallet' \in [native : 0..Native, wbnb : Nat, usdt : Nat]
    <3> QED BY <1>2, <2>1, ChargeOK
  <2>3. CASE tx.kind = "move" /\ positions' = [positions EXCEPT ![tx.id].owner = "new"]
             /\ identity' = identity
    <3> DEFINE e == [positions[tx.id] EXCEPT !.owner = "new"]
    <3>1. tx.id \in 1..Len(positions)
      BY <2>3 DEF TxOK
    <3>2. positions[tx.id] \in [owner : {"old", "new"}, liquidity : Nat, band : Bands]
      BY <1>1, <3>1, ElementOfSeq
    <3>3. e \in [owner : {"old", "new"}, liquidity : Nat, band : Bands]
      BY <3>2
    <3>4. positions' = [positions EXCEPT ![tx.id] = e]
      BY <2>3
    <3> HIDE DEF e
    <3>5. /\ positions' \in Seq([owner : {"old", "new"}, liquidity : Nat, band : Bands])
          /\ Len(positions') = Len(positions)
      BY <1>1, <3>1, <3>3, <3>4, ExceptSeq
    <3> QED BY <1>1, <1>10, <2>1, <2>2, <2>3, <3>5 DEF ChainOK
  <2>4. CASE identity' = "new" /\ positions' = positions
    BY <1>1, <1>10, <2>1, <2>2, <2>4 DEF ChainOK
  <2> QED BY <2>1, <2>3, <2>4
<1>9. CASE Sweep(tx)
  <2>1. /\ tx.kind = "sweep" /\ Charge(tx, -tx.amount, 0, 0) /\ swept' = TRUE
        /\ allowance' = allowance /\ positions' = positions
        /\ identity' = identity /\ wrapped' = wrapped /\ spent' = spent
    BY <1>9 DEF Sweep
  <2>2. tx.amount \in Nat
    BY <2>1 DEF TxOK
  <2>3. wallet' \in [native : 0..Native, wbnb : Nat, usdt : Nat]
    <3> QED BY <1>2, <2>1, ChargeOK
  <2> QED BY <1>1, <1>10, <2>1, <2>3 DEF ChainOK
<1> QED BY <1>3, <1>4, <1>5, <1>6, <1>7, <1>8, <1>9 DEF Outcome

\* Mining, in parts: the oldest transaction, the chain, who waited, and the others.
LEMMA MineFacts ==
  ASSUME Shape, Mine
  PROVE  /\ Len(mempool) > 0 /\ TxOK(mempool[1].tx, Len(positions)) /\ Affordable(mempool[1].tx)
         /\ \/ Revert(mempool[1].tx, mempool[1].by)
            \/ Executes(mempool[1].tx) /\ Outcome(mempool[1].tx)
         /\ DOMAIN job' = Process
         /\ \A q \in Process :
              job'[q] = IF q = mempool[1].by
                        THEN [job[q] EXCEPT
                                !.phase = IF Executes(mempool[1].tx) THEN "landed" ELSE "reverted",
                                !.token = IF mempool[1].tx.kind = "mint" THEN Len(positions') ELSE @]
                        ELSE IF job[q].phase = "signed" /\ job[q].slot > 0
                             THEN [job[q] EXCEPT !.slot = @ - 1] ELSE job[q]
         /\ \E S : mempool' \in Seq(S)
         /\ Len(mempool') = Len(mempool) - 1 /\ DOMAIN mempool' = 1..(Len(mempool) - 1)
         /\ \A i \in DOMAIN mempool' : i + 1 \in DOMAIN mempool /\ mempool'[i] = mempool[i + 1]
         /\ UNCHANGED <<tick, toml, store, left, late, overlapped, skipped>>
<1>1. PICK S : mempool \in Seq(S)
  BY DEF Shape
<1>2. mempool # <<>> /\ mempool' = Tail(mempool)
  BY DEF Mine
<1>3. Len(mempool) \in Nat \ {0} /\ Head(mempool) = mempool[1] /\ 1 \in DOMAIN mempool
  BY <1>1, <1>2
<1>4. TxOK(mempool[1].tx, Len(positions))
  BY <1>3 DEF Shape
<1>5. /\ mempool' \in Seq(S) /\ Len(mempool') = Len(mempool) - 1
      /\ DOMAIN mempool' = 1..(Len(mempool) - 1)
      /\ \A i \in DOMAIN mempool' : i + 1 \in DOMAIN mempool /\ mempool'[i] = mempool[i + 1]
  BY <1>1, <1>2, <1>3
<1>6. /\ Affordable(mempool[1].tx)
      /\ \/ Revert(mempool[1].tx, mempool[1].by)
         \/ Executes(mempool[1].tx) /\ Outcome(mempool[1].tx)
      /\ job' = [p \in Process |->
           IF p = mempool[1].by
           THEN [job[p] EXCEPT
                   !.phase = IF Executes(mempool[1].tx) THEN "landed" ELSE "reverted",
                   !.token = IF mempool[1].tx.kind = "mint" THEN Len(positions') ELSE @]
           ELSE IF job[p].phase = "signed" /\ job[p].slot > 0
                THEN [job[p] EXCEPT !.slot = @ - 1] ELSE job[p]]
      /\ UNCHANGED <<tick, toml, store, left, late, overlapped, skipped>>
  BY <1>3, Zenon DEF Mine, Outcome
<1>7. \E T : mempool' \in Seq(T)
  BY <1>5
<1>8. /\ DOMAIN job' = Process
      /\ \A q \in Process :
           job'[q] = IF q = mempool[1].by
                     THEN [job[q] EXCEPT
                             !.phase = IF Executes(mempool[1].tx) THEN "landed" ELSE "reverted",
                             !.token = IF mempool[1].tx.kind = "mint" THEN Len(positions') ELSE @]
                     ELSE IF job[q].phase = "signed" /\ job[q].slot > 0
                          THEN [job[q] EXCEPT !.slot = @ - 1] ELSE job[q]
  BY <1>6, Zenon
<1>9. Len(mempool) > 0
  BY <1>3
<1> QED BY <1>4, <1>5, <1>6, <1>7, <1>8, <1>9, Zenon

\* The chain afterwards.
LEMMA MineChain ==
  ASSUME Shape, Mine
  PROVE  /\ ChainOK
         /\ mempool[1].tx.kind = "mint" /\ Executes(mempool[1].tx) /\ mempool[1].by \in Process
              => Len(positions') = Len(positions) + 1
<1> DEFINE tx == mempool[1].tx
           by == mempool[1].by
<1>1. TxOK(tx, Len(positions)) /\ Affordable(tx)
      /\ (Revert(tx, by) \/ (Executes(tx) /\ Outcome(tx)))
  BY MineFacts, Zenon
<1> HIDE DEF tx, by
<1>2. CASE Executes(tx) /\ Outcome(tx)
  <2>1. ChainOK /\ (tx.kind = "mint" => Len(positions') = Len(positions) + 1)
    BY <1>1, <1>2, OutcomeOK
  <2> QED BY <2>1 DEF tx
<1>3. CASE Revert(tx, by)
  <2>1. /\ Charge(tx, 0, 0, 0) /\ allowance' = allowance /\ positions' = positions
        /\ identity' = identity /\ wrapped' = wrapped /\ spent' = spent /\ swept' = swept
        /\ ~Executes(tx) \/ by = "nobody"
    BY <1>3 DEF Revert, MayExpire
  <2>2. /\ wallet.native \in 0..Native /\ wallet.wbnb \in Nat /\ wallet.usdt \in Nat
        /\ allowance \in [Spender -> Nat]
        /\ positions \in Seq([owner : {"old", "new"}, liquidity : Nat, band : Bands])
        /\ identity \in {"old", "new"} /\ swept \in BOOLEAN /\ wrapped \in Nat /\ spent \in Nat
        /\ Len(positions) \in Nat
    BY DEF Shape
  <2>3. Fee(tx) \in Nat
    BY Constants DEF Fee
  <2>4. wallet.native + 0 >= Fee(tx) /\ wallet.wbnb + 0 >= 0 /\ wallet.usdt + 0 >= 0
    <3>1. CASE tx.kind \in {"deposit", "sweep"}
      <4>1. tx.amount \in Nat /\ wallet.native >= Fee(tx) + tx.amount
        BY <1>1, <3>1 DEF TxOK, Affordable
      <4>2. \A w, a, f \in Nat : w >= f + a => w + 0 >= f
        OBVIOUS
      <4> QED BY <2>2, <2>3, <4>1, <4>2
    <3>2. CASE tx.kind \notin {"deposit", "sweep"}
      <4>1. wallet.native >= Fee(tx) + 0
        BY <1>1, <3>2 DEF Affordable
      <4> QED BY <2>2, <2>3, <4>1
    <3> QED BY <3>1, <3>2
  <2>5. wallet' \in [native : 0..Native, wbnb : Nat, usdt : Nat]
    BY <2>1, <2>4, ChargeOK
  <2>6. Len(positions') \in Len(positions)..(Len(positions) + 1)
    BY <2>1, <2>2
  <2>7. ChainOK
    BY <2>1, <2>2, <2>5, <2>6 DEF ChainOK
  <2>8. ~(Executes(tx) /\ by \in Process)
    BY <2>1 DEF Process
  <2> QED BY <2>7, <2>8 DEF tx, by
<1> QED BY <1>1, <1>2, <1>3

LEMMA MineShape ==
  ASSUME Shape, Mine
  PROVE  Shape'
<1> DEFINE tx == mempool[1].tx
           by == mempool[1].by
           n == Len(positions)
           m == Len(mempool)
           k == Len(positions')
           l == Len(mempool')
           lands == Executes(tx)
<1>1. /\ m > 0
      /\ TxOK(tx, n)
      /\ DOMAIN job' = Process
      /\ \A q \in Process \ {by} :
           job'[q] = IF job[q].phase = "signed" /\ job[q].slot > 0
                     THEN [job[q] EXCEPT !.slot = @ - 1] ELSE job[q]
      /\ by \in Process =>
           job'[by] = [job[by] EXCEPT !.phase = IF lands THEN "landed" ELSE "reverted",
                                      !.token = IF tx.kind = "mint" THEN k ELSE @]
      /\ \E S : mempool' \in Seq(S)
      /\ l = m - 1 /\ DOMAIN mempool' = 1..l
      /\ \A i \in DOMAIN mempool' : i + 1 \in DOMAIN mempool /\ mempool'[i] = mempool[i + 1]
      /\ tick' = tick /\ UNCHANGED <<toml, store>> /\ late' = late /\ UNCHANGED <<overlapped, skipped>>
  BY MineFacts
<1>2. ChainOK /\ (tx.kind = "mint" /\ lands /\ by \in Process => k = n + 1)
  BY MineChain
<1>3. n \in Nat /\ m \in Nat /\ DOMAIN mempool = 1..m
  <2>1. "script" \in Process
    BY DEF Process
  <2> QED BY <2>1, JobFacts
<1>4. k \in n..(n + 1) /\ k \in Nat /\ l \in Nat /\ n <= k /\ l + 1 = m
  BY <1>1, <1>2, <1>3 DEF ChainOK
<1>5. /\ \A i \in DOMAIN mempool : /\ TxOK(mempool[i].tx, n)
                                  /\ mempool[i].by \in Process \cup {"nobody"}
                                  /\ DOMAIN mempool[i] = {"by", "tx"}
      /\ \A i \in DOMAIN mempool : mempool[i].by \in Process =>
           job[mempool[i].by].phase = "wait" /\ mempool[i].tx = job[mempool[i].by].tx
      /\ \A i, o \in DOMAIN mempool :
           mempool[i].by = mempool[o].by /\ mempool[i].by \in Process => i = o
      /\ \A q \in Process : /\ JobOK(job[q], n, m) /\ DOMAIN job[q] = Fields /\ job[q].at \in StepsOf(q)
  BY DEF Shape
<1>6. \A i \in DOMAIN mempool' : mempool'[i].by \in Process => mempool'[i].by # by
  <2> SUFFICES ASSUME NEW i \in DOMAIN mempool', mempool'[i].by \in Process
               PROVE  mempool'[i].by # by
    OBVIOUS
  <2>1. /\ mempool'[i] = mempool[i + 1] /\ i + 1 \in DOMAIN mempool /\ 1 \in DOMAIN mempool
        /\ i + 1 # 1
    BY <1>1, <1>3, <1>4
  <2> QED BY <1>5, <2>1
<1>7. by \in Process => job[by].phase = "wait" /\ job[by].tx = tx
  BY <1>1, <1>3, <1>5
<1>8. \A q \in Process : JobOK(job'[q], k, l) /\ DOMAIN job'[q] = Fields /\ job'[q].at \in StepsOf(q)
  <2> SUFFICES ASSUME NEW q \in Process
               PROVE  JobOK(job'[q], k, l) /\ DOMAIN job'[q] = Fields /\ job'[q].at \in StepsOf(q)
    OBVIOUS
  <2> DEFINE j == job[q]
             c == job'[q]
  <2>0. JobOK(j, n, m) /\ DOMAIN j = Fields /\ j.at \in StepsOf(q)
    BY <1>5
  <2>1. CASE q = by
    <3>1. c = [j EXCEPT !.phase = IF lands THEN "landed" ELSE "reverted",
                        !.token = IF tx.kind = "mint" THEN k ELSE @]
      BY <1>1, <2>1
    <3>2. j.phase = "wait" /\ j.tx = tx /\ (tx.kind = "mint" /\ lands => k = n + 1)
      BY <1>2, <1>7, <2>1
    <3> HIDE DEF lands, c, tx
    <3>3. /\ DOMAIN c = Fields /\ c.at = j.at /\ c.todo = j.todo /\ c.tx = j.tx /\ c.slot = j.slot
          /\ c.band = j.band /\ c.want = j.want /\ c.floors = j.floors /\ c.zeroed = j.zeroed
          /\ c.phase \in {"landed", "reverted"} /\ (c.phase = "landed" => lands)
          /\ c.token = IF tx.kind = "mint" THEN k ELSE j.token
      BY <2>0, <3>1 DEF Fields
    <3> HIDE DEF j
    <3>4. /\ TxOK(j.tx, n) /\ StepTx(j, j.tx) /\ Follows(j.at, j.todo) /\ j.slot = 0
          /\ j.want \in Amounts /\ j.floors \in Amounts /\ j.zeroed \in BOOLEAN /\ j.token \in 0..n
          /\ j.at \notin Local /\ (j.at \in MintStep => j.band \in Bands)
          /\ (j.at \in {"movePosition", "withdraw"} => j.token # 0)
      BY <2>0, <3>2 DEF JobOK
    <3>5. TxOK(c.tx, k)
      BY <1>3, <1>4, <3>3, <3>4, TxGrows
    <3>6. StepTx(c, c.tx) /\ (c.at \in {"movePosition", "withdraw"} => c.token = j.token)
          /\ (c.at = "remint" => tx.kind = "mint")
      BY <3>2, <3>3, <3>4 DEF StepTx
    <3>7. c.token \in 0..k /\ c.slot \in 0..(l + 1) /\ c.phase \in Phase /\ c.phase # "signed"
          /\ (c.at = "remint" /\ c.phase = "landed" => c.token # 0)
      BY <1>3, <1>4, <3>2, <3>3, <3>4, <3>6 DEF Phase
    <3> QED BY <2>0, <3>3, <3>4, <3>5, <3>6, <3>7 DEF JobOK, c, j
  <2>2. CASE q # by /\ j.phase = "signed" /\ j.slot > 0
    <3>1. c = [j EXCEPT !.slot = @ - 1]
      BY <1>1, <2>2
    <3> HIDE DEF c
    <3>2. /\ DOMAIN c = Fields /\ c.at = j.at /\ c.todo = j.todo /\ c.tx = j.tx /\ c.slot = j.slot - 1
          /\ c.band = j.band /\ c.want = j.want /\ c.floors = j.floors /\ c.zeroed = j.zeroed
          /\ c.phase = "signed" /\ c.token = j.token
      BY <2>0, <2>2, <3>1 DEF Fields
    <3>3. j.slot \in 0..(m + 1) /\ j.slot > 0
      BY <2>0, <2>2 DEF JobOK
    <3>4. c.slot \in 0..(m + 1) /\ c.slot <= l + 1
      BY <1>3, <1>4, <3>2, <3>3
    <3>5. JobOK(c, n, m)
      <4> HIDE DEF j
      <4>1. StepTx(c, c.tx)
        BY <2>0, <2>2, <3>2 DEF StepTx, JobOK
      <4> QED BY <2>0, <2>2, <3>2, <3>4, <4>1 DEF JobOK
    <3>6. JobOK(c, k, l)
      BY <1>3, <1>4, <3>4, <3>5, JobGrows
    <3> QED BY <2>0, <3>2, <3>6 DEF c
  <2>3. CASE q # by /\ ~(j.phase = "signed" /\ j.slot > 0)
    <3>1. c = j
      BY <1>1, <2>3
    <3>2. j.slot = 0 /\ j.slot <= l + 1
      BY <1>3, <1>4, <2>0, <2>3 DEF JobOK
    <3>3. JobOK(j, k, l)
      BY <1>3, <1>4, <2>0, <3>2, JobGrows
    <3> QED BY <2>0, <3>1, <3>3
  <2> QED BY <2>1, <2>2, <2>3
<1>9. \A i \in DOMAIN mempool' : /\ TxOK(mempool'[i].tx, k)
                                /\ mempool'[i].by \in Process \cup {"nobody"}
                                /\ DOMAIN mempool'[i] = {"by", "tx"}
  <2> HIDE DEF k, l, n, m
  <2> QED BY <1>1, <1>3, <1>4, <1>5, TxGrows
<1>10. \A i \in DOMAIN mempool' : mempool'[i].by \in Process =>
         job'[mempool'[i].by].phase = "wait" /\ mempool'[i].tx = job'[mempool'[i].by].tx
  <2> SUFFICES ASSUME NEW i \in DOMAIN mempool', mempool'[i].by \in Process
               PROVE  job'[mempool'[i].by].phase = "wait" /\ mempool'[i].tx = job'[mempool'[i].by].tx
    OBVIOUS
  <2>1. mempool'[i] = mempool[i + 1] /\ i + 1 \in DOMAIN mempool /\ mempool'[i].by \in Process \ {by}
    BY <1>1, <1>6
  <2>2. job[mempool'[i].by].phase = "wait" /\ mempool'[i].tx = job[mempool'[i].by].tx
    BY <1>5, <2>1
  <2>3. job'[mempool'[i].by] = job[mempool'[i].by]
    BY <1>1, <2>1, <2>2
  <2> QED BY <2>2, <2>3
<1>11. \A i, o \in DOMAIN mempool' :
         mempool'[i].by = mempool'[o].by /\ mempool'[i].by \in Process => i = o
  <2> SUFFICES ASSUME NEW i \in DOMAIN mempool', NEW o \in DOMAIN mempool',
                      mempool'[i].by = mempool'[o].by, mempool'[i].by \in Process
               PROVE  i = o
    OBVIOUS
  <2>1. /\ mempool'[i] = mempool[i + 1] /\ i + 1 \in DOMAIN mempool
        /\ mempool'[o] = mempool[o + 1] /\ o + 1 \in DOMAIN mempool
    BY <1>1
  <2>2. i + 1 = o + 1
    BY <1>5, <2>1
  <2>3. i \in Int /\ o \in Int
    BY <1>1, <1>4
  <2> QED BY <2>2, <2>3
<1>12. tick \in Live /\ {toml, store} \subseteq 0..n /\ late \in BOOLEAN /\ {overlapped, skipped} \subseteq BOOLEAN
  BY DEF Shape
<1>13. {toml', store'} \subseteq 0..k
  BY <1>1, <1>3, <1>4, <1>12
<1> HIDE DEF tx, by, lands, n, m
<1> QED BY <1>1, <1>2, <1>8, <1>9, <1>10, <1>11, <1>12, <1>13 DEF Shape, ChainOK

-----------------------------------------------------------------------------
(* The steps of a program that send nothing. *)

\* A program about to take a step.
LEMMA RunOK ==
  ASSUME NEW n \in Nat, NEW m \in Nat, NEW j, j.phase = "run", j.slot = 0, Follows(j.at, j.todo),
         j.want \in Amounts, j.floors \in Amounts, j.zeroed \in BOOLEAN, j.token \in 0..n,
         j.at \in MintStep => j.band \in Bands, j.at \in {"movePosition", "withdraw"} => j.token # 0
  PROVE  JobOK(j, n, m)
<1>1. j.phase \in Phase /\ 0 \in 0..(m + 1)
  BY DEF Phase
<1> HIDE DEF Follows
<1> QED BY <1>1 DEF JobOK

\* What a step that sends nothing leaves alone.
LEMMA RunStep ==
  ASSUME Shape, NEW p \in Process, NEW j, job' = [job EXCEPT ![p] = j], job[p].phase = "run",
         UNCHANGED chainVars, {toml', store'} \subseteq 0..Len(positions),
         UNCHANGED <<late, wrapped, spent, swept>>, {overlapped', skipped'} \subseteq BOOLEAN,
         JobOK(j, Len(positions), Len(mempool)), DOMAIN j = Fields, j.at \in StepsOf(p)
  PROVE  Shape'
<1>1. DOMAIN job' = Process /\ job'[p] = j /\ \A q \in Process \ {p} : job'[q] = job[q]
  BY JobFacts
<1>2. \A i \in DOMAIN mempool : mempool[i].by # p
  BY NoneSent
<1> QED BY <1>1, <1>2, JobStep

\* The price.
LEMMA PriceShape ==
  ASSUME Shape, PriceMoves
  PROVE  Shape'
<1>1. /\ tick' \in Live /\ wallet' = wallet /\ allowance' = allowance /\ positions' = positions
      /\ identity' = identity /\ mempool' = mempool /\ UNCHANGED <<toml, store>> /\ job' = job /\ late' = late
      /\ wrapped' = wrapped /\ spent' = spent /\ swept' = swept /\ UNCHANGED <<overlapped, skipped>>
  BY DEF PriceMoves, ghostVars
<1> QED BY <1>1 DEF Shape

\* The start of a mint.
LEMMA MintStepsAre ==
  /\ Head(MintSteps) = "wrap" /\ Head(Tail(MintSteps)) = "usdt"
  /\ Follows("wrap", Tail(MintSteps)) /\ Follows("usdt", Tail(Tail(MintSteps)))
<1>1. /\ Head(MintSteps) = "wrap"
      /\ Tail(MintSteps) = <<"usdt", "router", "swap", "balances", "npmUsdt", "npmWbnb", "mint",
                             "minted">>
  BY DEF MintSteps
<1>2. /\ Head(Tail(MintSteps)) = "usdt"
      /\ Tail(Tail(MintSteps)) = <<"router", "swap", "balances", "npmUsdt", "npmWbnb", "mint", "minted">>
  <2> DEFINE s == Tail(MintSteps)
  <2>1. s = <<"usdt", "router", "swap", "balances", "npmUsdt", "npmWbnb", "mint", "minted">>
    BY <1>1
  <2> HIDE DEF s
  <2>2. /\ Head(s) = "usdt"
        /\ Tail(s) = <<"router", "swap", "balances", "npmUsdt", "npmWbnb", "mint", "minted">>
    BY <2>1
  <2> QED BY <2>2 DEF s
<1> QED BY <1>1, <1>2 DEF Follows

LEMMA StartMintShape ==
  ASSUME Shape, StartMint
  PROVE  Shape'
<1> DEFINE t == IF Shortfall > 0 THEN MintSteps ELSE Tail(MintSteps)
           want == [Nothing EXCEPT !.wbnb = Shortfall]
           j == [Start(t) EXCEPT !.band = FreshBand(tick), !.want = want]
<1>1. /\ job["script"].at = "idle" /\ UNCHANGED chainVars /\ UNCHANGED <<toml, store>> /\ UNCHANGED ghostVars
      /\ job' = [job EXCEPT !["script"] = j]
  BY DEF StartMint
<1>2. "script" \in Process /\ tick \in Live /\ wallet.wbnb \in Nat
  BY DEF Shape, Process
<1>3. JobOK(job["script"], Len(positions), Len(mempool)) /\ Len(positions) \in Nat /\ Len(mempool) \in Nat
  BY <1>2, JobFacts
<1>4. job["script"].phase = "run"
  BY <1>1, <1>3 DEF JobOK, Local
<1>5. Shortfall \in Nat
  BY <1>2, Constants DEF Shortfall
<1>6. want \in Amounts /\ Nothing \in Amounts
  BY <1>5 DEF Nothing, Amounts
<1>7. FreshBand(tick) \in Bands
  BY <1>2 DEF Bands
<1>8. Head(t) \in {"wrap", "usdt"} /\ Follows(Head(t), Tail(t))
  BY MintStepsAre
<1> HIDE DEF t, want
<1>9. /\ DOMAIN j = Fields /\ j.at = Head(t) /\ j.todo = Tail(t) /\ j.phase = "run" /\ j.slot = 0
      /\ j.band = FreshBand(tick) /\ j.want = want /\ j.floors = Nothing /\ j.zeroed = FALSE
      /\ j.token = 0
  BY DEF Start, Idle, Fields
<1> HIDE DEF j
<1>10. JobOK(j, Len(positions), Len(mempool))
  <2>1. /\ j.phase = "run" /\ j.slot = 0 /\ Follows(j.at, j.todo) /\ j.want \in Amounts
        /\ j.floors \in Amounts /\ j.zeroed \in BOOLEAN /\ j.band \in Bands
        /\ j.at \notin {"movePosition", "withdraw"}
    BY <1>6, <1>7, <1>8, <1>9
  <2>2. j.token \in 0..Len(positions)
    BY <1>3, <1>9
  <2> QED BY <1>3, <2>1, <2>2, RunOK
<1>11. j.at \in StepsOf("script")
  BY <1>8, <1>9 DEF StepsOf, MintStep
<1>12. UNCHANGED <<late, wrapped, spent, swept>> /\ {overlapped', skipped'} \subseteq BOOLEAN
       /\ {toml', store'} \subseteq 0..Len(positions)
  BY <1>1 DEF ghostVars, Shape
<1> QED BY <1>1, <1>2, <1>4, <1>9, <1>10, <1>11, <1>12, RunStep

\* USDT that is held already.
LEMMA HaveUsdtShape ==
  ASSUME Shape, HaveUsdt
  PROVE  Shape'
<1> DEFINE i == job["script"]
           t == SubSeq(i.todo, 4, Len(i.todo))
           j == [i EXCEPT !.at = "balances", !.todo = t]
<1>1. /\ i.at = "usdt" /\ i.phase = "run" /\ UNCHANGED chainVars /\ UNCHANGED <<toml, store>>
      /\ UNCHANGED ghostVars /\ job' = [job EXCEPT !["script"].at = "balances", !["script"].todo = t]
  BY DEF HaveUsdt, At
<1>2. "script" \in Process
  BY DEF Process
<1>3. JobOK(i, Len(positions), Len(mempool)) /\ DOMAIN i = Fields /\ Len(positions) \in Nat
      /\ Len(mempool) \in Nat /\ DOMAIN job = Process
  BY <1>2, JobFacts
<1>4. i.todo = <<"router", "swap", "balances", "npmUsdt", "npmWbnb", "mint", "minted">>
  BY <1>1, <1>3 DEF JobOK, Follows
<1>5. Follows("balances", t)
  <2>1. t = <<"npmUsdt", "npmWbnb", "mint", "minted">>
    BY <1>4, SkipsSwap
  <2> QED BY <2>1 DEF Follows
<1>6. job' = [job EXCEPT !["script"] = j]
  <2> HIDE DEF t
  <2> QED BY <1>1, <1>2, <1>3
<1> HIDE DEF t
<1>7. /\ DOMAIN j = Fields /\ j.at = "balances" /\ j.todo = t /\ j.phase = "run" /\ j.slot = i.slot
      /\ j.band = i.band /\ j.want = i.want /\ j.floors = i.floors /\ j.zeroed = i.zeroed
      /\ j.token = i.token
  BY <1>1, <1>3 DEF Fields
<1>8. /\ i.slot = 0 /\ i.band \in Bands /\ i.want \in Amounts /\ i.floors \in Amounts
      /\ i.zeroed \in BOOLEAN /\ i.token \in 0..Len(positions)
  BY <1>1, <1>3 DEF JobOK, MintStep
<1> HIDE DEF j, i
<1>9. JobOK(j, Len(positions), Len(mempool))
  BY <1>3, <1>5, <1>7, <1>8, RunOK
<1>10. j.at \in StepsOf("script")
  BY <1>7 DEF StepsOf, MintStep
<1>11. UNCHANGED <<late, wrapped, spent, swept>> /\ {overlapped', skipped'} \subseteq BOOLEAN
       /\ {toml', store'} \subseteq 0..Len(positions)
  BY <1>1 DEF ghostVars, Shape
<1> QED BY <1>1, <1>2, <1>6, <1>7, <1>9, <1>10, <1>11, RunStep DEF i

\* The quote.
LEMMA QuoteShape ==
  ASSUME Shape, QuoteSwap
  PROVE  Shape'
<1> DEFINE i == job["script"]
           f == Floor(SwapOut(Total \div 2), SwapSlip)
           j == [Advance(i) EXCEPT !.floors.usdt = f]
<1>1. /\ i.at = "usdt" /\ i.phase = "run" /\ UNCHANGED chainVars /\ UNCHANGED <<toml, store>>
      /\ UNCHANGED ghostVars /\ job' = [job EXCEPT !["script"] = j]
  BY DEF QuoteSwap, At
<1>2. "script" \in Process /\ tick \in Live
  BY DEF Process, Shape
<1>3. JobOK(i, Len(positions), Len(mempool)) /\ DOMAIN i = Fields /\ Len(positions) \in Nat
      /\ Len(mempool) \in Nat /\ i.at \in StepsOf("script") /\ i.floors \in Amounts
  BY <1>2, JobFacts DEF JobOK
<1>4. f \in Nat
  <2>1. SwapOut(Total \div 2) \in Nat
    BY <1>2, Constants, SwapOutNat DEF Half
  <2> QED BY <2>1, Constants, FloorBelow
<1>5. /\ JobOK(Advance(i), Len(positions), Len(mempool)) /\ DOMAIN Advance(i) = Fields
      /\ Advance(i).at \in StepsOf("script") /\ Advance(i).phase = "run" /\ Advance(i).floors = i.floors
  <2> HIDE DEF i
  <2> QED BY <1>1, <1>2, <1>3, AdvanceOK
<1> DEFINE a == Advance(i)
           g == [a.floors EXCEPT !.usdt = f]
<1>6. g \in Amounts
  BY <1>3, <1>4, <1>5 DEF Amounts
<1>7. j = [a EXCEPT !.floors = g]
  BY <1>5
<1> HIDE DEF j, a, i, g
<1>8. /\ DOMAIN j = Fields /\ j.at = a.at /\ j.todo = a.todo /\ j.phase = a.phase /\ j.slot = a.slot
      /\ j.band = a.band /\ j.want = a.want /\ j.floors = g /\ j.zeroed = a.zeroed
      /\ j.token = a.token
  BY <1>5, <1>7 DEF Fields, a
<1>9. JobOK(a, Len(positions), Len(mempool)) /\ a.phase = "run" /\ a.at \in StepsOf("script")
  BY <1>5 DEF a
<1>10. /\ a.slot = 0 /\ a.want \in Amounts /\ a.zeroed \in BOOLEAN /\ a.token \in 0..Len(positions)
       /\ (a.at \in MintStep => a.band \in Bands) /\ Follows(a.at, a.todo)
       /\ (a.at \in {"movePosition", "withdraw"} => a.token # 0)
  BY <1>9 DEF JobOK
<1>11. JobOK(j, Len(positions), Len(mempool))
  BY <1>3, <1>6, <1>8, <1>9, <1>10, RunOK
<1>12. UNCHANGED <<late, wrapped, spent, swept>> /\ {overlapped', skipped'} \subseteq BOOLEAN
       /\ {toml', store'} \subseteq 0..Len(positions)
  BY <1>1 DEF ghostVars, Shape
<1> QED BY <1>1, <1>2, <1>8, <1>9, <1>11, <1>12, RunStep DEF i

\* The balances and the floors.
LEMMA BalancesShape ==
  ASSUME Shape, ReadBalances
  PROVE  Shape'
<1> DEFINE i == job["script"]
           f == FloorsOf(i.band, Balances)
           a == Advance(i)
           j == [a EXCEPT !.want = Balances, !.floors = f]
<1>1. /\ i.at = "balances" /\ i.phase = "run" /\ UNCHANGED chainVars /\ UNCHANGED <<toml, store>>
      /\ UNCHANGED ghostVars /\ job' = [job EXCEPT !["script"] = j]
  BY DEF ReadBalances, At
<1>2. "script" \in Process /\ tick \in Live /\ Balances \in Amounts
  BY DEF Process, Shape, Balances, Amounts
<1>3. JobOK(i, Len(positions), Len(mempool)) /\ DOMAIN i = Fields /\ Len(positions) \in Nat
      /\ Len(mempool) \in Nat /\ i.at \in StepsOf("script")
  BY <1>2, JobFacts
<1>4. f \in Amounts
  <2>1. i.band \in Bands
    BY <1>1, <1>3 DEF JobOK, MintStep
  <2> QED BY <1>2, <2>1, FloorsAreNat
<1> HIDE DEF i, f
<1>5. /\ JobOK(a, Len(positions), Len(mempool)) /\ DOMAIN a = Fields
      /\ a.at \in StepsOf("script") /\ a.phase = "run"
  BY <1>1, <1>2, <1>3, AdvanceOK
<1> HIDE DEF a
<1>6. /\ DOMAIN j = Fields /\ j.at = a.at /\ j.todo = a.todo /\ j.phase = a.phase /\ j.slot = a.slot
      /\ j.band = a.band /\ j.want = Balances /\ j.floors = f /\ j.zeroed = a.zeroed
      /\ j.token = a.token
  BY <1>5 DEF Fields
<1> HIDE DEF j
<1>7. /\ a.slot = 0 /\ a.zeroed \in BOOLEAN /\ a.token \in 0..Len(positions)
      /\ (a.at \in MintStep => a.band \in Bands) /\ Follows(a.at, a.todo)
      /\ (a.at \in {"movePosition", "withdraw"} => a.token # 0)
  BY <1>5 DEF JobOK
<1>8. JobOK(j, Len(positions), Len(mempool))
  BY <1>2, <1>3, <1>4, <1>5, <1>6, <1>7, RunOK
<1>9. UNCHANGED <<late, wrapped, spent, swept>> /\ {overlapped', skipped'} \subseteq BOOLEAN
      /\ {toml', store'} \subseteq 0..Len(positions)
  BY <1>1 DEF ghostVars, Shape
<1> QED BY <1>1, <1>2, <1>5, <1>6, <1>8, <1>9, RunStep DEF i

\* An allowance that suffices; nothing to sweep.
LEMMA AllowedShape ==
  ASSUME Shape, AllowedAlready
  PROVE  Shape'
<1>1. /\ job["script"].phase = "run" /\ job["script"].at \in Spender
      /\ UNCHANGED chainVars /\ UNCHANGED <<toml, store>> /\ UNCHANGED ghostVars
      /\ job' = [job EXCEPT !["script"] = Advance(job["script"])]
  BY DEF AllowedAlready, Allowed
<1>2. "script" \in Process /\ job["script"].at \notin {"idle", "minted", "verify", "record"}
  BY <1>1 DEF Process, Spender
<1> QED BY <1>1, <1>2, GoesOn

LEMMA NothingToSweepShape ==
  ASSUME Shape, NothingToSweep
  PROVE  Shape'
<1>1. /\ job["script"].phase = "run" /\ job["script"].at = "sweep"
      /\ UNCHANGED chainVars /\ UNCHANGED <<toml, store>> /\ UNCHANGED ghostVars
      /\ job' = [job EXCEPT !["script"] = Advance(job["script"])]
  BY DEF NothingToSweep, At
<1>2. "script" \in Process
  BY DEF Process
<1> QED BY <1>1, <1>2, GoesOn

\* The ends of the programs.
LEMMA SetTokenShape ==
  ASSUME Shape, SetToken
  PROVE  Shape'
<1>1. /\ job["script"].phase = "run" /\ UNCHANGED chainVars /\ UNCHANGED ghostVars
      /\ toml' = job["script"].token /\ store' = store /\ job' = [job EXCEPT !["script"] = Idle]
  BY DEF SetToken, At
<1>2. "script" \in Process
  BY DEF Process
<1>3. {toml', store'} \subseteq 0..Len(positions)
  BY <1>1, <1>2, JobFacts DEF JobOK, Shape
<1> QED BY <1>1, <1>2, <1>3, NoneSent, Rests

LEMMA RecordShape ==
  ASSUME Shape, Record
  PROVE  Shape'
<1>1. /\ job["agent"].phase = "run" /\ UNCHANGED chainVars /\ UNCHANGED ghostVars
      /\ store' = job["agent"].token /\ toml' = toml /\ job' = [job EXCEPT !["agent"] = Idle]
  BY DEF Record, At
<1>2. "agent" \in Process
  BY DEF Process
<1>3. {toml', store'} \subseteq 0..Len(positions)
  BY <1>1, <1>2, JobFacts DEF JobOK, Shape
<1> QED BY <1>1, <1>2, <1>3, NoneSent, Rests

LEMMA VerifiedShape ==
  ASSUME Shape, Verified
  PROVE  Shape'
<1>1. /\ job["script"].phase = "run" /\ UNCHANGED chainVars /\ UNCHANGED ghostVars
      /\ {toml', store'} \subseteq 0..Len(positions) /\ job' = [job EXCEPT !["script"] = Idle]
  BY DEF Verified, At, Shape
<1>2. "script" \in Process
  BY DEF Process
<1> QED BY <1>1, <1>2, NoneSent, Rests

\* A migration, by what is still the old wallet's.
LEMMA MigrationStarts ==
  ASSUME NEW resolved
  PROVE  /\ Head(MigrateSteps(resolved)) \in {"movePosition", "moveIdentity", "sweep"}
         /\ Follows(Head(MigrateSteps(resolved)), Tail(MigrateSteps(resolved)))
<1> DEFINE t == MigrateSteps(resolved)
<1>1. t \in {<<"movePosition", "moveIdentity", "sweep", "verify">>, <<"movePosition", "sweep", "verify">>,
             <<"moveIdentity", "sweep", "verify">>, <<"sweep", "verify">>}
  BY MigrateStepsAre
<1> HIDE DEF t
<1>2. CASE t = <<"movePosition", "moveIdentity", "sweep", "verify">>
  <2>1. Head(t) = "movePosition" /\ Tail(t) = <<"moveIdentity", "sweep", "verify">>
    BY <1>2
  <2> QED BY <2>1 DEF Follows, t
<1>3. CASE t = <<"movePosition", "sweep", "verify">>
  <2>1. Head(t) = "movePosition" /\ Tail(t) = <<"sweep", "verify">>
    BY <1>3
  <2> QED BY <2>1 DEF Follows, t
<1>4. CASE t = <<"moveIdentity", "sweep", "verify">>
  <2>1. Head(t) = "moveIdentity" /\ Tail(t) = <<"sweep", "verify">>
    BY <1>4
  <2> QED BY <2>1 DEF Follows, t
<1>5. CASE t = <<"sweep", "verify">>
  <2>1. Head(t) = "sweep" /\ Tail(t) = <<"verify">>
    BY <1>5
  <2> QED BY <2>1 DEF Follows, t
<1> QED BY <1>1, <1>2, <1>3, <1>4, <1>5

\* A run that starts with the position that the agent manages.
LEMMA StartsWithToken ==
  ASSUME Shape, NEW p \in Process, NEW todo, Follows(Head(todo), Tail(todo)),
         Head(todo) \in StepsOf(p) \ MintStep,
         job[p].at = "idle", Token # 0, UNCHANGED chainVars, UNCHANGED <<toml, store>>,
         UNCHANGED <<late, wrapped, spent, swept>>, {overlapped', skipped'} \subseteq BOOLEAN,
         job' = [job EXCEPT ![p] = [Start(todo) EXCEPT !.token = Token]]
  PROVE  Shape'
<1> DEFINE j == [Start(todo) EXCEPT !.token = Token]
<1>1. JobOK(job[p], Len(positions), Len(mempool)) /\ Len(positions) \in Nat /\ Len(mempool) \in Nat
  BY JobFacts
<1>2. job[p].phase = "run"
  BY <1>1 DEF JobOK, Local
<1>3. Nothing \in Amounts /\ {toml, store} \subseteq 0..Len(positions)
      /\ Token \in 0..Len(positions)
  BY DEF Nothing, Amounts, Shape, Token
<1>4. /\ DOMAIN j = Fields /\ j.at = Head(todo) /\ j.todo = Tail(todo) /\ j.phase = "run" /\ j.slot = 0
      /\ j.want = Nothing /\ j.floors = Nothing /\ j.zeroed = FALSE /\ j.token = Token
  BY DEF Start, Idle, Fields
<1>5. job' = [job EXCEPT ![p] = j]
  OBVIOUS
<1> HIDE DEF j
<1>6. JobOK(j, Len(positions), Len(mempool))
  BY <1>1, <1>3, <1>4, RunOK
<1>7. {toml', store'} \subseteq 0..Len(positions)
  BY <1>3
<1> QED BY <1>2, <1>4, <1>5, <1>6, <1>7, RunStep

LEMMA StartMigrateShape ==
  ASSUME Shape, StartMigrate
  PROVE  Shape'
<1>1. PICK resolved \in BOOLEAN :
        /\ job' = [job EXCEPT !["script"] = [Start(MigrateSteps(resolved)) EXCEPT !.token = Token]]
        /\ skipped' = (skipped \/ ~resolved)
  BY DEF StartMigrate
<1> DEFINE t == MigrateSteps(resolved)
<1>2. /\ job["script"].at = "idle" /\ Token # 0 /\ UNCHANGED chainVars /\ UNCHANGED <<toml, store>>
      /\ UNCHANGED <<late, wrapped, spent, swept>>
  BY DEF StartMigrate
<1>3. {overlapped', skipped'} \subseteq BOOLEAN
  BY <1>1 DEF StartMigrate, Shape
<1>4. "script" \in Process
  BY DEF Process
<1>5. Head(t) \in {"movePosition", "moveIdentity", "sweep"} /\ Follows(Head(t), Tail(t))
  BY MigrationStarts
<1>6. job' = [job EXCEPT !["script"] = [Start(t) EXCEPT !.token = Token]]
  BY <1>1
<1> HIDE DEF t
<1>7. Head(t) \in StepsOf("script") \ MintStep
  BY <1>5 DEF StepsOf, MintStep, MigrateStep
<1> QED BY <1>2, <1>3, <1>4, <1>5, <1>6, <1>7, StartsWithToken

LEMMA StartPassShape ==
  ASSUME Shape, StartPass
  PROVE  Shape'
<1> DEFINE t == <<"withdraw", "remint", "record">>
<1>1. /\ job["agent"].at = "idle" /\ Token # 0 /\ UNCHANGED chainVars /\ UNCHANGED <<toml, store>>
      /\ UNCHANGED <<late, wrapped, spent, swept>>
      /\ job' = [job EXCEPT !["agent"] = [Start(t) EXCEPT !.token = Token]]
  BY DEF StartPass
<1>2. {overlapped', skipped'} \subseteq BOOLEAN
  BY DEF StartPass, Shape
<1>3. "agent" \in Process
  BY DEF Process
<1>4. Head(t) = "withdraw" /\ Tail(t) = <<"remint", "record">>
  OBVIOUS
<1> HIDE DEF t
<1>5. Head(t) \in StepsOf("agent") \ MintStep /\ Follows(Head(t), Tail(t))
  BY <1>4 DEF StepsOf, MintStep, AgentStep, Follows
<1> QED BY <1>1, <1>2, <1>3, <1>5, StartsWithToken

-----------------------------------------------------------------------------
(* Type correctness. *)

LEMMA InitShape ==
  ASSUME Init
  PROVE  Shape
<1>1. /\ tick = 0 /\ wallet = [native |-> Native, wbnb |-> 0, usdt |-> 0]
      /\ allowance = [s \in Spender |-> 0] /\ positions = <<>> /\ identity = "old" /\ toml = 0 /\ store = 0
      /\ mempool = <<>> /\ job = [p \in Process |-> Idle]
      /\ late = FALSE /\ wrapped = 0 /\ spent = 0 /\ swept = FALSE /\ overlapped = FALSE /\ skipped = FALSE
  BY DEF Init
<1>2. 0 \in Live
  BY BootstrapAssumption
<1>3. wallet \in [native : 0..Native, wbnb : Nat, usdt : Nat]
  <2>1. Native \in 0..Native
    BY Constants
  <2> QED BY <1>1, <2>1
<1>4. /\ positions \in Seq([owner : {"old", "new"}, liquidity : Nat, band : Bands])
      /\ Len(positions) = 0
  BY <1>1
<1>5. mempool \in Seq({}) /\ Len(mempool) = 0 /\ DOMAIN mempool = {}
  BY <1>1
<1>6. \A p \in Process : /\ JobOK(job[p], Len(positions), Len(mempool))
                         /\ DOMAIN job[p] = Fields /\ job[p].at \in StepsOf(p)
  <2> SUFFICES ASSUME NEW p \in Process
               PROVE  /\ JobOK(job[p], Len(positions), Len(mempool))
                      /\ DOMAIN job[p] = Fields /\ job[p].at \in StepsOf(p)
    OBVIOUS
  <2>1. job[p] = Idle
    BY <1>1
  <2> QED BY <1>4, <1>5, <2>1, IdleOK
<1>7. /\ allowance \in [Spender -> Nat] /\ identity \in {"old", "new"} /\ {toml, store} \subseteq 0..Len(positions)
      /\ late \in BOOLEAN /\ swept \in BOOLEAN /\ {overlapped, skipped} \subseteq BOOLEAN
      /\ wrapped \in Nat /\ spent \in Nat /\ DOMAIN job = Process
  <2>1. allowance \in [Spender -> Nat] /\ DOMAIN job = Process
    BY <1>1
  <2>2. {toml, store} \subseteq 0..Len(positions)
    BY <1>1, <1>4
  <2> QED BY <1>1, <2>1, <2>2
<1>8. \E S : mempool \in Seq(S)
  BY <1>5
<1>9. tick \in Live
  BY <1>1, <1>2
<1> QED BY <1>3, <1>4, <1>5, <1>6, <1>7, <1>8, <1>9 DEF Shape

\* One lemma for each action.
LEMMA NextShape ==
  ASSUME Shape, [Next]_vars
  PROVE  Shape'
<1>1. CASE Next
  <2>1. CASE Mine
    BY <2>1, MineShape
  <2>2. CASE PriceMoves
    BY <2>2, PriceShape
  <2>3. CASE \E p \in Process : Sign(p) \/ Broadcast(p) \/ Landed(p) \/ Fails(p) \/ Abort(p)
    <3>1. PICK p \in Process : Sign(p) \/ Broadcast(p) \/ Landed(p) \/ Fails(p) \/ Abort(p)
      BY <2>3
    <3> QED BY <3>1, SignShape, BroadcastShape, LandedShape, FailsShape, AbortShape
  <2>4. CASE StartMint
    BY <2>4, StartMintShape
  <2>5. CASE HaveUsdt
    BY <2>5, HaveUsdtShape
  <2>6. CASE QuoteSwap
    BY <2>6, QuoteShape
  <2>7. CASE AllowedAlready
    BY <2>7, AllowedShape
  <2>8. CASE ReadBalances
    BY <2>8, BalancesShape
  <2>9. CASE SetToken
    BY <2>9, SetTokenShape
  <2>10. CASE StartMigrate
    BY <2>10, StartMigrateShape
  <2>11. CASE NothingToSweep
    BY <2>11, NothingToSweepShape
  <2>12. CASE Verified
    BY <2>12, VerifiedShape
  <2>13. CASE StartPass
    BY <2>13, StartPassShape
  <2>14. CASE Record
    BY <2>14, RecordShape
  <2> QED BY <1>1, <2>1, <2>2, <2>3, <2>4, <2>5, <2>6, <2>7, <2>8, <2>9, <2>10, <2>11, <2>12,
             <2>13, <2>14 DEF Next
<1>2. CASE UNCHANGED vars
  <2>1. /\ tick' = tick /\ wallet' = wallet /\ allowance' = allowance /\ positions' = positions
        /\ identity' = identity /\ mempool' = mempool /\ UNCHANGED <<toml, store>> /\ job' = job /\ late' = late
        /\ wrapped' = wrapped /\ spent' = spent /\ swept' = swept /\ UNCHANGED <<overlapped, skipped>>
    BY <1>2 DEF vars, chainVars, ghostVars
  <2> QED BY <2>1 DEF Shape
<1> QED BY <1>1, <1>2

\* Where a process is in its script decides what its local variables hold, what it has left to
\* do and which transaction it can have signed or waits for; nobody signs for another's step,
\* and what waits in the mempool is a transaction that some step of the programs sends.
THEOREM ShapeHolds == Spec => []Shape
<1>1. Init => Shape
  BY InitShape
<1>2. Shape /\ [Next]_vars => Shape'
  BY NextShape
<1> QED BY <1>1, <1>2, PTL DEF Spec

\* The types of the state: whatever the order of scripts, agent, failures and blocks, the wallet
\* is never overdrawn, a nonce that was read stands for a place in the mempool or the next one,
\* and the store and the programs know only positions that were minted.
THEOREM TypeCorrect == Spec => []TypeOK
<1>1. Shape => TypeOK
  <2> SUFFICES ASSUME Shape PROVE TypeOK
    OBVIOUS
  <2>1. \A i \in DOMAIN positions :
          positions[i] \in [owner : {"old", "new"}, liquidity : Nat,
                           band : [lower : Tick, upper : Tick]]
    <3> TAKE i \in DOMAIN positions
    <3>1. positions \in Seq([owner : {"old", "new"}, liquidity : Nat, band : Bands])
      BY DEF Shape
    <3> DEFINE S == [owner : {"old", "new"}, liquidity : Nat, band : Bands]
    <3>4. positions[i] \in S
      <4> HIDE DEF S
      <4>1. positions \in Seq(S) /\ i \in 1..Len(positions)
        BY <3>1 DEF S
      <4> QED BY <4>1, ElementOfSeq
    <3>2. positions[i] \in [owner : {"old", "new"}, liquidity : Nat, band : Bands]
      BY <3>4
    <3>3. positions[i].band \in [lower : Tick, upper : Tick]
      BY <3>2, BandRatios
    <3> QED BY <3>2, <3>3
  <2>2. \A p \in Process : /\ job[p].phase \in {"run", "signed", "wait", "landed", "reverted"}
                           /\ job[p].token \in 0..Len(positions)
                           /\ job[p].slot \in 0..Len(mempool) + 1
    <3> TAKE p \in Process
    <3>1. JobOK(job[p], Len(positions), Len(mempool))
      BY JobFacts
    <3> QED BY <3>1 DEF JobOK, Phase
  <2> QED BY <2>1, <2>2 DEF Shape, TypeOK
<1> QED BY <1>1, ShapeHolds, PTL

-----------------------------------------------------------------------------
(* What a step of a program changes of what it knows. *)

\* A process goes on with the same step, and the others stay where they are.
SameStep(p) ==
  /\ job'[p].at = job[p].at /\ job'[p].todo = job[p].todo /\ job'[p].want = job[p].want
  /\ job'[p].token = job[p].token
  /\ \A q \in Process \ {p} : job'[q] = job[q]

\* A process goes on to the next step.
NextOne(p) ==
  /\ job'[p] = Advance(job[p]) /\ job'[p].at = Head(job[p].todo) /\ job'[p].todo = Tail(job[p].todo)
  /\ job'[p].phase = "run" /\ job'[p].want = job[p].want /\ job'[p].token = job[p].token
  /\ job[p].at \notin {"idle", "minted", "verify", "record"} /\ Follows(job[p].at, job[p].todo)
  /\ \A q \in Process \ {p} : job'[q] = job[q]

\* A process comes to rest.
ToRest(p) ==
  /\ job'[p] = Idle /\ job'[p].at = "idle" /\ job'[p].phase = "run"
  /\ \A q \in Process \ {p} : job'[q] = job[q]

LEMMA SignStep ==
  ASSUME Shape, NEW p \in Process, Sign(p)
  PROVE  /\ SameStep(p) /\ job[p].phase = "run" /\ job'[p].phase = "signed" /\ job[p].at \notin Local
         /\ job'[p].tx \in Wanted(p) /\ Affordable(job'[p].tx) /\ job'[p].slot = Len(mempool) + 1
         /\ UNCHANGED chainVars /\ UNCHANGED ghostVars /\ UNCHANGED <<toml, store>> /\ left' = left
<1>1. PICK tx \in Wanted(p) :
        /\ Affordable(tx)
        /\ job' = [job EXCEPT ![p].phase = "signed", ![p].tx = tx, ![p].slot = Len(mempool) + 1]
  BY DEF Sign
<1>2. job[p].phase = "run" /\ UNCHANGED chainVars /\ UNCHANGED ghostVars /\ UNCHANGED <<toml, store>>
      /\ left' = left
  BY DEF Sign
<1>3. job[p].at \notin Local
  BY <1>2, WantedOK
<1>4. /\ \A q \in Process \ {p} : job'[q] = job[q]
      /\ job'[p].phase = "signed" /\ job'[p].tx = tx /\ job'[p].slot = Len(mempool) + 1
      /\ job'[p].at = job[p].at /\ job'[p].todo = job[p].todo /\ job'[p].want = job[p].want
      /\ job'[p].token = job[p].token
  BY <1>1, JobFacts DEF Fields
<1> QED BY <1>1, <1>2, <1>3, <1>4 DEF SameStep

LEMMA BroadcastStep ==
  ASSUME Shape, NEW p \in Process, Broadcast(p)
  PROVE  /\ SameStep(p) /\ job[p].phase = "signed" /\ job'[p].phase = "wait"
         /\ job'[p].tx = job[p].tx /\ job[p].at \notin Local
         /\ Len(mempool') \in Len(mempool)..(Len(mempool) + 1) /\ DOMAIN mempool' = 1..Len(mempool')
         /\ job[p].slot \in DOMAIN mempool'
         /\ mempool'[job[p].slot] = [by |-> p, tx |-> job[p].tx]
         /\ \A i \in DOMAIN mempool' \ {job[p].slot} : i \in DOMAIN mempool /\ mempool'[i] = mempool[i]
         /\ UNCHANGED <<tick, wallet, allowance, positions, identity, toml, store, left, ghostVars>>
<1> DEFINE sent == [by |-> p, tx |-> job[p].tx]
           slot == job[p].slot
<1>1. /\ job[p].phase = "signed" /\ slot > 0
      /\ mempool' = IF slot > Len(mempool) THEN Append(mempool, sent)
                    ELSE [mempool EXCEPT ![slot] = sent]
      /\ job' = [job EXCEPT ![p].phase = "wait", ![p].slot = 0]
      /\ UNCHANGED <<tick, wallet, allowance, positions, identity, toml, store, left, ghostVars>>
  BY DEF Broadcast
<1>2. JobOK(job[p], Len(positions), Len(mempool)) /\ DOMAIN job[p] = Fields /\ Len(mempool) \in Nat
      /\ DOMAIN job = Process
  BY JobFacts
<1>3. slot \in 1..(Len(mempool) + 1) /\ job[p].at \notin Local
  BY <1>1, <1>2 DEF JobOK
<1>4. /\ job'[p].at = job[p].at /\ job'[p].todo = job[p].todo /\ job'[p].want = job[p].want
      /\ job'[p].token = job[p].token /\ job'[p].phase = "wait" /\ job'[p].tx = job[p].tx
      /\ \A q \in Process \ {p} : job'[q] = job[q]
  BY <1>1, <1>2 DEF Fields
<1> HIDE DEF sent, slot
<1>5. /\ Len(mempool') \in Len(mempool)..(Len(mempool) + 1) /\ DOMAIN mempool' = 1..Len(mempool')
      /\ slot \in DOMAIN mempool' /\ mempool'[slot] = sent
      /\ \A i \in DOMAIN mempool' \ {slot} : i \in DOMAIN mempool /\ mempool'[i] = mempool[i]
  BY <1>1, <1>3, PutInMempool
<1> QED BY <1>1, <1>3, <1>4, <1>5 DEF SameStep, sent, slot

LEMMA LandedStep ==
  ASSUME Shape, NEW p \in Process, Landed(p)
  PROVE  /\ job[p].phase = "landed" /\ job[p].at \notin Local /\ job'[p].phase = "run"
         /\ (SameStep(p) /\ job[p].tx.kind = "approve") \/ NextOne(p)
         /\ UNCHANGED chainVars /\ UNCHANGED ghostVars /\ UNCHANGED <<toml, store>> /\ left' = left
<1> DEFINE j == job[p]
<1>1. j.phase = "landed" /\ UNCHANGED chainVars /\ UNCHANGED ghostVars /\ UNCHANGED <<toml, store>> /\ left' = left
      /\ job' = [job EXCEPT ![p] =
           IF j.tx.kind = "approve" /\ j.tx.amount = 0
           THEN [j EXCEPT !.phase = "run", !.tx = NoTx, !.zeroed = TRUE] ELSE Advance(j)]
  BY DEF Landed
<1>2. JobOK(j, Len(positions), Len(mempool)) /\ DOMAIN j = Fields /\ j.at \in StepsOf(p)
      /\ Len(positions) \in Nat /\ Len(mempool) \in Nat /\ DOMAIN job = Process
  BY JobFacts
<1>3. j.at \notin Local /\ Follows(j.at, j.todo)
  BY <1>1, <1>2 DEF JobOK
<1>4. \A q \in Process \ {p} : job'[q] = job[q]
  BY <1>1, <1>2
<1>5. CASE j.tx.kind = "approve" /\ j.tx.amount = 0
  <2>1. job'[p] = [j EXCEPT !.phase = "run", !.tx = NoTx, !.zeroed = TRUE]
    BY <1>1, <1>2, <1>5
  <2>2. /\ job'[p].at = j.at /\ job'[p].todo = j.todo /\ job'[p].want = j.want
        /\ job'[p].token = j.token /\ job'[p].phase = "run"
    BY <1>2, <2>1 DEF Fields
  <2> QED BY <1>1, <1>3, <1>4, <1>5, <2>2 DEF SameStep
<1>6. CASE ~(j.tx.kind = "approve" /\ j.tx.amount = 0)
  <2>1. job'[p] = Advance(j)
    BY <1>1, <1>2, <1>6
  <2>2. /\ Advance(j).at = Head(j.todo) /\ Advance(j).phase = "run" /\ Advance(j).want = j.want
        /\ Advance(j).token = j.token /\ Advance(j).todo = Tail(j.todo)
    BY <1>1, <1>2, <1>3, AdvanceOK DEF Local
  <2> QED BY <1>1, <1>3, <1>4, <2>1, <2>2 DEF NextOne, Local
<1> QED BY <1>5, <1>6

LEMMA GoesOnStep ==
  ASSUME Shape, NEW p \in Process, job' = [job EXCEPT ![p] = Advance(job[p])],
         job[p].at \notin {"idle", "minted", "verify", "record"}, job[p].phase # "signed"
  PROVE  NextOne(p)
<1>1. JobOK(job[p], Len(positions), Len(mempool)) /\ DOMAIN job[p] = Fields /\ job[p].at \in StepsOf(p)
      /\ Len(positions) \in Nat /\ Len(mempool) \in Nat /\ DOMAIN job = Process
  BY JobFacts
<1>2. /\ Advance(job[p]).at = Head(job[p].todo) /\ Advance(job[p]).phase = "run"
      /\ Advance(job[p]).want = job[p].want /\ Advance(job[p]).token = job[p].token
      /\ Advance(job[p]).todo = Tail(job[p].todo)
  BY <1>1, AdvanceOK
<1>3. Follows(job[p].at, job[p].todo) /\ job'[p] = Advance(job[p])
      /\ \A q \in Process \ {p} : job'[q] = job[q]
  BY <1>1 DEF JobOK
<1> QED BY <1>2, <1>3 DEF NextOne

LEMMA RestStep ==
  ASSUME Shape, NEW p \in Process, job' = [job EXCEPT ![p] = Idle]
  PROVE  ToRest(p)
<1>1. job'[p] = Idle /\ \A q \in Process \ {p} : job'[q] = job[q]
  BY JobFacts
<1>2. Idle.at = "idle" /\ Idle.phase = "run"
  BY DEF Idle
<1> QED BY <1>1, <1>2 DEF ToRest

\* The step that follows, by name.
LEMMA WhatFollows ==
  ASSUME NEW at, NEW todo, Follows(at, todo)
  PROVE  /\ at = "wrap" => Head(todo) = "usdt"
         /\ at = "usdt" => Head(todo) = "router"
         /\ at = "router" => Head(todo) = "swap"
         /\ at = "swap" => Head(todo) = "balances"
         /\ at = "balances" => Head(todo) = "npmUsdt"
         /\ at = "npmUsdt" => Head(todo) = "npmWbnb"
         /\ at = "npmWbnb" => Head(todo) = "mint"
         /\ at = "mint" => Head(todo) = "minted"
         /\ at = "movePosition" => Head(todo) \in {"moveIdentity", "sweep"}
         /\ at = "moveIdentity" => Head(todo) = "sweep"
         /\ at = "sweep" => Head(todo) = "verify"
         /\ at = "withdraw" => Head(todo) = "remint"
         /\ at = "remint" => Head(todo) = "record"
<1>1. at = "wrap" => Head(todo) = "usdt"
  <2>1. at = "wrap" => todo = <<"usdt", "router", "swap", "balances", "npmUsdt", "npmWbnb", "mint", "minted">>
    BY DEF Follows
  <2> QED BY <2>1
<1>2. at = "usdt" => Head(todo) = "router"
  <2>1. at = "usdt" => todo = <<"router", "swap", "balances", "npmUsdt", "npmWbnb", "mint", "minted">>
    BY DEF Follows
  <2> QED BY <2>1
<1>3. at = "router" => Head(todo) = "swap"
  <2>1. at = "router" => todo = <<"swap", "balances", "npmUsdt", "npmWbnb", "mint", "minted">>
    BY DEF Follows
  <2> QED BY <2>1
<1>4. at = "swap" => Head(todo) = "balances"
  <2>1. at = "swap" => todo = <<"balances", "npmUsdt", "npmWbnb", "mint", "minted">>
    BY DEF Follows
  <2> QED BY <2>1
<1>5. at = "balances" => Head(todo) = "npmUsdt"
  <2>1. at = "balances" => todo = <<"npmUsdt", "npmWbnb", "mint", "minted">>
    BY DEF Follows
  <2> QED BY <2>1
<1>6. at = "npmUsdt" => Head(todo) = "npmWbnb"
  <2>1. at = "npmUsdt" => todo = <<"npmWbnb", "mint", "minted">>
    BY DEF Follows
  <2> QED BY <2>1
<1>7. at = "npmWbnb" => Head(todo) = "mint"
  <2>1. at = "npmWbnb" => todo = <<"mint", "minted">>
    BY DEF Follows
  <2> QED BY <2>1
<1>8. at = "mint" => Head(todo) = "minted"
  <2>1. at = "mint" => todo = <<"minted">>
    BY DEF Follows
  <2> QED BY <2>1
<1>9. at = "movePosition" => Head(todo) \in {"moveIdentity", "sweep"}
  <2>1. at = "movePosition" => todo \in {<<"moveIdentity", "sweep", "verify">>, <<"sweep", "verify">>}
    BY DEF Follows
  <2> QED BY <2>1
<1>10. at = "moveIdentity" => Head(todo) = "sweep"
  <2>1. at = "moveIdentity" => todo = <<"sweep", "verify">>
    BY DEF Follows
  <2> QED BY <2>1
<1>11. at = "sweep" => Head(todo) = "verify"
  <2>1. at = "sweep" => todo = <<"verify">>
    BY DEF Follows
  <2> QED BY <2>1
<1>12. at = "withdraw" => Head(todo) = "remint"
  <2>1. at = "withdraw" => todo = <<"remint", "record">>
    BY DEF Follows
  <2> QED BY <2>1
<1>13. at = "remint" => Head(todo) = "record"
  <2>1. at = "remint" => todo = <<"record">>
    BY DEF Follows
  <2> QED BY <2>1
<1> QED BY <1>1, <1>2, <1>3, <1>4, <1>5, <1>6, <1>7, <1>8, <1>9, <1>10, <1>11, <1>12, <1>13

\* The steps of the scripts that send nothing.
LEMMA StartMintStep ==
  ASSUME Shape, StartMint
  PROVE  /\ job["script"].at = "idle" /\ job'["script"].phase = "run" /\ job'["agent"] = job["agent"]
         /\ job'["script"].at = IF Shortfall > 0 THEN "wrap" ELSE "usdt"
         /\ job'["script"].want.wbnb = Shortfall /\ wallet.native >= Total + Headroom
         /\ UNCHANGED chainVars /\ UNCHANGED ghostVars /\ UNCHANGED <<toml, store>>
<1> DEFINE t == IF Shortfall > 0 THEN MintSteps ELSE Tail(MintSteps)
           want == [Nothing EXCEPT !.wbnb = Shortfall]
           j == [Start(t) EXCEPT !.band = FreshBand(tick), !.want = want]
<1>1. /\ job["script"].at = "idle" /\ UNCHANGED chainVars /\ UNCHANGED <<toml, store>> /\ UNCHANGED ghostVars
      /\ job' = [job EXCEPT !["script"] = j] /\ wallet.native >= Total + Headroom
  BY DEF StartMint
<1>2. DOMAIN job = Process /\ "script" \in Process /\ "agent" \in Process
  BY DEF Process, Shape
<1>3. Head(t) = IF Shortfall > 0 THEN "wrap" ELSE "usdt"
  BY MintStepsAre
<1>4. want.wbnb = Shortfall
  BY DEF Nothing
<1> HIDE DEF t, want
<1>5. j.at = Head(t) /\ j.phase = "run" /\ j.want = want
  BY DEF Start, Idle
<1> HIDE DEF j
<1>6. job'["script"] = j /\ job'["agent"] = job["agent"]
  BY <1>1, <1>2
<1> QED BY <1>1, <1>3, <1>4, <1>5, <1>6

LEMMA HaveUsdtStep ==
  ASSUME Shape, HaveUsdt
  PROVE  /\ job["script"].at = "usdt" /\ job'["script"].at = "balances" /\ wallet.usdt > 0
         /\ job'["script"].phase = "run" /\ job'["agent"] = job["agent"]
         /\ UNCHANGED chainVars /\ UNCHANGED ghostVars /\ UNCHANGED <<toml, store>>
<1> DEFINE t == SubSeq(job["script"].todo, 4, Len(job["script"].todo))
<1>1. /\ job["script"].at = "usdt" /\ job["script"].phase = "run" /\ wallet.usdt > 0
      /\ UNCHANGED chainVars /\ UNCHANGED <<toml, store>> /\ UNCHANGED ghostVars
      /\ job' = [job EXCEPT !["script"].at = "balances", !["script"].todo = t]
  BY DEF HaveUsdt, At
<1>2. DOMAIN job = Process /\ "script" \in Process /\ "agent" \in Process
      /\ DOMAIN job["script"] = Fields
  BY DEF Process, Shape
<1> HIDE DEF t
<1>3. /\ job'["script"].at = "balances" /\ job'["script"].phase = job["script"].phase
      /\ job'["agent"] = job["agent"]
  BY <1>1, <1>2 DEF Fields
<1> QED BY <1>1, <1>3

LEMMA QuoteStep ==
  ASSUME Shape, QuoteSwap
  PROVE  /\ job["script"].at = "usdt" /\ job'["script"].at = "router" /\ wallet.usdt = 0
         /\ job'["script"].phase = "run" /\ job'["agent"] = job["agent"]
         /\ UNCHANGED chainVars /\ UNCHANGED ghostVars /\ UNCHANGED <<toml, store>>
<1> DEFINE f == Floor(SwapOut(Total \div 2), SwapSlip)
           a == Advance(job["script"])
           j == [a EXCEPT !.floors.usdt = f]
<1>1. /\ job["script"].at = "usdt" /\ job["script"].phase = "run" /\ wallet.usdt = 0
      /\ UNCHANGED chainVars /\ UNCHANGED <<toml, store>> /\ UNCHANGED ghostVars
      /\ job' = [job EXCEPT !["script"] = j]
  BY DEF QuoteSwap, At
<1>2. "script" \in Process /\ "agent" \in Process /\ DOMAIN job = Process
  BY DEF Process, Shape
<1>3. JobOK(job["script"], Len(positions), Len(mempool)) /\ DOMAIN job["script"] = Fields
      /\ Len(positions) \in Nat /\ Len(mempool) \in Nat /\ job["script"].at \in StepsOf("script")
      /\ Follows(job["script"].at, job["script"].todo)
  BY <1>2, JobFacts DEF JobOK
<1>4. a.at = "router" /\ a.phase = "run"
  <2>1. a.at = Head(job["script"].todo) /\ a.phase = "run" /\ DOMAIN a = Fields
    BY <1>1, <1>2, <1>3, AdvanceOK
  <2>2. Head(job["script"].todo) = "router"
    BY <1>1, <1>3, WhatFollows
  <2> QED BY <2>1, <2>2
<1> HIDE DEF a, f
<1>5. j.at = a.at /\ j.phase = a.phase
  OBVIOUS
<1> HIDE DEF j
<1>6. job'["script"] = j /\ job'["agent"] = job["agent"]
  BY <1>1, <1>2
<1> QED BY <1>1, <1>4, <1>5, <1>6

LEMMA BalancesStep ==
  ASSUME Shape, ReadBalances
  PROVE  /\ job["script"].at = "balances" /\ job'["script"].at = "npmUsdt"
         /\ job'["script"].want = Balances
         /\ job'["script"].phase = "run" /\ job'["agent"] = job["agent"]
         /\ UNCHANGED chainVars /\ UNCHANGED ghostVars /\ UNCHANGED <<toml, store>>
<1> DEFINE f == FloorsOf(job["script"].band, Balances)
           a == Advance(job["script"])
           j == [a EXCEPT !.want = Balances, !.floors = f]
<1>1. /\ job["script"].at = "balances" /\ job["script"].phase = "run"
      /\ UNCHANGED chainVars /\ UNCHANGED <<toml, store>> /\ UNCHANGED ghostVars
      /\ job' = [job EXCEPT !["script"] = j]
  BY DEF ReadBalances, At
<1>2. "script" \in Process /\ "agent" \in Process /\ DOMAIN job = Process
  BY DEF Process, Shape
<1>3. JobOK(job["script"], Len(positions), Len(mempool)) /\ DOMAIN job["script"] = Fields
      /\ Len(positions) \in Nat /\ Len(mempool) \in Nat /\ job["script"].at \in StepsOf("script")
      /\ Follows(job["script"].at, job["script"].todo)
  BY <1>2, JobFacts DEF JobOK
<1>4. a.at = "npmUsdt" /\ a.phase = "run" /\ DOMAIN a = Fields
  <2>1. a.at = Head(job["script"].todo) /\ a.phase = "run" /\ DOMAIN a = Fields
    BY <1>1, <1>2, <1>3, AdvanceOK
  <2>2. Head(job["script"].todo) = "npmUsdt"
    BY <1>1, <1>3, WhatFollows
  <2> QED BY <2>1, <2>2
<1> HIDE DEF a, f
<1>5. j.at = a.at /\ j.phase = a.phase /\ j.want = Balances
  BY <1>4 DEF Fields
<1> HIDE DEF j
<1>6. job'["script"] = j /\ job'["agent"] = job["agent"]
  BY <1>1, <1>2
<1> QED BY <1>1, <1>4, <1>5, <1>6

LEMMA StartMigrateStep ==
  ASSUME Shape, StartMigrate
  PROVE  /\ \E resolved \in BOOLEAN :
              /\ job'["script"].at = Head(MigrateSteps(resolved))
              /\ job'["script"].todo = Tail(MigrateSteps(resolved))
              /\ skipped' = (skipped \/ ~resolved)
         /\ job["script"].at = "idle" /\ job'["script"].token = Token /\ Token # 0
         /\ job'["script"].phase = "run" /\ job'["agent"] = job["agent"]
         /\ UNCHANGED chainVars /\ UNCHANGED <<late, wrapped, spent, swept>>
         /\ UNCHANGED <<toml, store>>
         /\ overlapped' = (overlapped \/ job["agent"].at # "idle")
<1>1. PICK resolved \in BOOLEAN :
        /\ job' = [job EXCEPT !["script"] = [Start(MigrateSteps(resolved)) EXCEPT !.token = Token]]
        /\ skipped' = (skipped \/ ~resolved)
  BY DEF StartMigrate
<1> DEFINE t == MigrateSteps(resolved)
           j == [Start(t) EXCEPT !.token = Token]
<1>2. /\ job["script"].at = "idle" /\ Token # 0 /\ UNCHANGED chainVars /\ UNCHANGED <<toml, store>>
      /\ UNCHANGED <<late, wrapped, spent, swept>>
      /\ overlapped' = (overlapped \/ job["agent"].at # "idle")
  BY DEF StartMigrate
<1>3. "script" \in Process /\ "agent" \in Process /\ DOMAIN job = Process
  BY DEF Process, Shape
<1>4. job' = [job EXCEPT !["script"] = j]
  BY <1>1
<1> HIDE DEF t
<1>5. j.at = Head(t) /\ j.todo = Tail(t) /\ j.phase = "run" /\ j.token = Token
  BY DEF Start, Idle
<1> HIDE DEF j
<1>6. job'["script"] = j /\ job'["agent"] = job["agent"]
  BY <1>3, <1>4
<1>7. /\ job'["script"].at = Head(MigrateSteps(resolved))
      /\ job'["script"].todo = Tail(MigrateSteps(resolved))
  BY <1>5, <1>6 DEF t
<1> QED BY <1>1, <1>2, <1>5, <1>6, <1>7

\* Its first step.
LEMMA StartMigrateAt ==
  ASSUME Shape, StartMigrate
  PROVE  job'["script"].at \in {"movePosition", "moveIdentity", "sweep"}
<1>1. PICK resolved \in BOOLEAN : job'["script"].at = Head(MigrateSteps(resolved))
  BY StartMigrateStep
<1> QED BY <1>1, MigrationStarts

LEMMA StartPassStep ==
  ASSUME Shape, StartPass
  PROVE  /\ job["agent"].at = "idle" /\ job'["script"] = job["script"] /\ left.passes > 0
         /\ job'["agent"].at = "withdraw"
         /\ Token # 0 /\ positions[Token].owner = "old"
         /\ UNCHANGED chainVars /\ UNCHANGED <<late, wrapped, spent, swept>> /\ UNCHANGED <<toml, store>>
         /\ overlapped' = (overlapped \/ Migrating) /\ left' = [left EXCEPT !.passes = @ - 1]
<1> DEFINE t == <<"withdraw", "remint", "record">>
           j == [Start(t) EXCEPT !.token = Token]
<1>1. /\ job["agent"].at = "idle" /\ Token # 0 /\ UNCHANGED chainVars /\ UNCHANGED <<toml, store>>
      /\ UNCHANGED <<late, wrapped, spent, swept>> /\ positions[Token].owner = "old"
      /\ overlapped' = (overlapped \/ Migrating) /\ left.passes > 0
      /\ job' = [job EXCEPT !["agent"] = j] /\ left' = [left EXCEPT !.passes = @ - 1]
  BY DEF StartPass
<1>2. "script" \in Process /\ "agent" \in Process /\ DOMAIN job = Process
  BY DEF Process, Shape
<1>3. Head(t) = "withdraw"
  OBVIOUS
<1> HIDE DEF t
<1>4. j.at = Head(t)
  BY DEF Start, Idle
<1> HIDE DEF j
<1>5. job'["script"] = job["script"] /\ job'["agent"] = j
  BY <1>1, <1>2
<1> QED BY <1>1, <1>3, <1>4, <1>5

\* The step that sends a transaction, by the transaction.
LEMMA WhoSends ==
  ASSUME NEW p \in Process, NEW j, NEW tx, StepTx(j, tx), j.at \in StepsOf(p), j.at \notin Local
  PROVE  /\ tx.kind = "deposit" => j.at = "wrap" /\ tx.amount = j.want.wbnb
         /\ tx.kind = "approve" => /\ j.at \in Spender /\ tx.spender = j.at
                                   /\ j.at = "router" => tx.amount \in {0, Half}
                                   /\ j.at = "npmUsdt" => tx.amount \in {0, j.want.usdt}
                                   /\ j.at = "npmWbnb" => tx.amount \in {0, j.want.wbnb}
         /\ tx.kind = "swap" => j.at = "swap" /\ tx.amount = Half
         /\ tx.kind = "mint" => /\ j.at \in {"mint", "remint"}
                                /\ tx.approves <=> j.at = "remint"
         /\ tx.kind = "move" => j.at = "movePosition" /\ tx.id = j.token
         /\ tx.kind = "moveIdentity" => j.at = "moveIdentity"
         /\ tx.kind = "sweep" => j.at = "sweep"
         /\ tx.kind = "withdraw" => j.at = "withdraw" /\ tx.id = j.token
         /\ j.at \in AgentStep => p = "agent"
         /\ j.at \notin AgentStep => p = "script"
<1>1. j.at \in {"wrap", "router", "npmUsdt", "npmWbnb", "swap", "mint", "movePosition",
                "moveIdentity", "sweep", "withdraw", "remint"}
  BY DEF StepsOf, MintStep, MigrateStep, AgentStep, Local
<1>2. /\ j.at \in AgentStep => p = "agent"
      /\ j.at \notin AgentStep => p = "script"
  BY <1>1 DEF StepsOf, MintStep, MigrateStep, AgentStep, Local, Process
<1>3. CASE j.at \in Spender
  BY <1>2, <1>3 DEF StepTx, Spender
<1>4. CASE j.at \in {"wrap", "swap", "mint", "remint"}
  BY <1>2, <1>4 DEF StepTx, Spender
<1>5. CASE j.at \in {"movePosition", "moveIdentity", "sweep", "withdraw"}
  BY <1>2, <1>5 DEF StepTx, Spender
<1> QED BY <1>1, <1>3, <1>4, <1>5 DEF Spender

\* Whoever waits for the oldest transaction.
LEMMA MineSender ==
  ASSUME Shape, Mine, mempool[1].by \in Process
  PROVE  LET p == mempool[1].by
             tx == mempool[1].tx
         IN  /\ job[p].phase = "wait" /\ job[p].tx = tx /\ StepTx(job[p], tx)
             /\ job[p].at \in StepsOf(p) /\ job[p].at \notin Local
             /\ job'[p].at = job[p].at /\ job'[p].todo = job[p].todo /\ job'[p].want = job[p].want
             /\ job'[p].tx = tx /\ (tx.kind # "mint" => job'[p].token = job[p].token)
             /\ job'[p].phase = IF Executes(tx) THEN "landed" ELSE "reverted"
             /\ IF Executes(tx) THEN Outcome(tx) ELSE Revert(tx, p)
<1> DEFINE p == mempool[1].by
           tx == mempool[1].tx
           lands == Executes(tx)
           k == Len(positions')
<1>1. /\ Len(mempool) > 0
      /\ Revert(tx, p) \/ (lands /\ Outcome(tx))
      /\ job'[p] = [job[p] EXCEPT !.phase = IF lands THEN "landed" ELSE "reverted",
                                  !.token = IF tx.kind = "mint" THEN k ELSE @]
  <2>1. p \in Process
    OBVIOUS
  <2> QED BY <2>1, MineFacts
<1>2. /\ JobOK(job[p], Len(positions), Len(mempool)) /\ DOMAIN job[p] = Fields /\ job[p].at \in StepsOf(p)
      /\ Len(mempool) \in Nat /\ DOMAIN mempool = 1..Len(mempool)
  BY JobFacts
<1>3. 1 \in DOMAIN mempool
  BY <1>1, <1>2
<1>4. job[p].phase = "wait" /\ job[p].tx = tx
  BY <1>3 DEF Shape
<1>5. StepTx(job[p], tx) /\ job[p].at \notin Local
  BY <1>2, <1>4 DEF JobOK
<1>6. IF lands THEN Outcome(tx) ELSE Revert(tx, p)
  <2>1. Revert(tx, p) => ~lands \/ p = "nobody"
    BY DEF Revert, MayExpire
  <2>2. p # "nobody"
    BY DEF Process
  <2> HIDE DEF p, tx, lands
  <2> QED BY <1>1, <2>1, <2>2
<1> HIDE DEF lands, tx, p, k
<1>7. /\ job'[p].at = job[p].at /\ job'[p].todo = job[p].todo /\ job'[p].want = job[p].want
      /\ job'[p].tx = job[p].tx /\ (tx.kind # "mint" => job'[p].token = job[p].token)
      /\ job'[p].phase = IF lands THEN "landed" ELSE "reverted"
  BY <1>1, <1>2 DEF Fields
<1> QED BY <1>2, <1>4, <1>5, <1>6, <1>7 DEF lands, tx, p

\* The others.
LEMMA MineOthers ==
  ASSUME Shape, Mine, NEW q \in Process, q # mempool[1].by
  PROVE  /\ job'[q].at = job[q].at /\ job'[q].todo = job[q].todo /\ job'[q].want = job[q].want
         /\ job'[q].tx = job[q].tx /\ job'[q].token = job[q].token /\ job'[q].phase = job[q].phase
         /\ job'[q].slot = IF job[q].phase = "signed" /\ job[q].slot > 0
                           THEN job[q].slot - 1 ELSE job[q].slot
<1>1. job'[q] = IF job[q].phase = "signed" /\ job[q].slot > 0
                THEN [job[q] EXCEPT !.slot = @ - 1] ELSE job[q]
  BY MineFacts, Zenon
<1>2. DOMAIN job[q] = Fields
  BY JobFacts
<1>3. CASE job[q].phase = "signed" /\ job[q].slot > 0
  <2>1. job'[q] = [job[q] EXCEPT !.slot = @ - 1]
    BY <1>1, <1>3
  <2> QED BY <1>2, <1>3, <2>1 DEF Fields
<1>4. CASE ~(job[q].phase = "signed" /\ job[q].slot > 0)
  BY <1>1, <1>4
<1> QED BY <1>3, <1>4

-----------------------------------------------------------------------------
(* What is wrapped. *)

\* The wrap of a script that has not been mined yet.
Wrapping(j) == j.at = "wrap" /\ j.phase \in {"run", "signed", "wait"}

\* What was wrapped and is not spent is in the wallet, and no wrap is under way that is more
\* than is missing, unless a transaction was left behind.
Wrapped ==
  /\ wrapped <= wallet.wbnb + spent
  /\ ~late => wrapped <= Total + spent
  /\ ~late /\ Wrapping(job["script"]) => wrapped + job["script"].want.wbnb <= Total + spent
  /\ ~late => \A i \in DOMAIN mempool : mempool[i].by \in Process

\* A step that neither wraps nor spends, nor makes a script wrap.
LEMMA WrappedFrame ==
  ASSUME Shape, Wrapped, wallet' = wallet, wrapped' = wrapped, spent' = spent, ~late' => ~late,
         ~late' => \A i \in DOMAIN mempool' : mempool'[i].by \in Process,
         Wrapping(job'["script"]) =>
           Wrapping(job["script"]) /\ job'["script"].want = job["script"].want
  PROVE  Wrapped'
BY DEF Wrapped, Wrapping

LEMMA MineWrapped ==
  ASSUME Shape, Wrapped, Mine
  PROVE  Wrapped'
<1> DEFINE tx == mempool[1].tx
           by == mempool[1].by
           s == job["script"]
           t == job'["script"]
<1>1. /\ TxOK(tx, Len(positions)) /\ Len(mempool) > 0 /\ DOMAIN mempool' = 1..(Len(mempool) - 1)
      /\ \A i \in DOMAIN mempool' : i + 1 \in DOMAIN mempool /\ mempool'[i] = mempool[i + 1]
      /\ late' = late /\ (Revert(tx, by) \/ (Executes(tx) /\ Outcome(tx)))
  BY MineFacts, Zenon
<1>2. "script" \in Process /\ Len(mempool) \in Nat /\ DOMAIN mempool = 1..Len(mempool)
      /\ tick \in Live
  BY JobFacts DEF Process, Shape
<1>3. ~late' => \A i \in DOMAIN mempool' : mempool'[i].by \in Process
  BY <1>1 DEF Wrapped
<1>4. ~late => by \in Process
  BY <1>1, <1>2 DEF Wrapped
<1>5. wrapped \in Nat /\ spent \in Nat /\ wallet.wbnb \in Nat /\ Total \in Nat
  BY Constants DEF Shape
<1>6. Wrapping(t) => Wrapping(s) /\ t.want = s.want /\ by # "script"
  <2>1. CASE by = "script"
    <3>1. by \in Process
      BY <1>2, <2>1
    <3>2. job'[by].phase = IF Executes(tx) THEN "landed" ELSE "reverted"
      BY <3>1, MineSender
    <3>3. t.phase \in {"landed", "reverted"}
      BY <2>1, <3>2
    <3> QED BY <3>3 DEF Wrapping
  <2>2. CASE by # "script"
    BY <1>2, <2>2, MineOthers DEF Wrapping
  <2> QED BY <2>1, <2>2
<1>7. s.want.wbnb \in Nat
  BY <1>2, JobFacts DEF JobOK, Amounts
<1>8. \/ wrapped' = wrapped /\ spent' = spent /\ wallet'.wbnb >= wallet.wbnb
      \/ tx.kind = "deposit" /\ wrapped' = wrapped + tx.amount /\ spent' = spent
         /\ wallet'.wbnb = wallet.wbnb + tx.amount
      \/ \E a \in Nat : wrapped' = wrapped /\ spent' = spent + a /\ wallet'.wbnb = wallet.wbnb - a
  <2> HIDE DEF tx, by
  <2>1. CASE Deposit(tx)
    BY <2>1 DEF Deposit, Charge
  <2>2. CASE Swap(tx)
    <3>1. tx.amount \in Nat
      BY <1>1, <2>2 DEF Swap, TxOK
    <3> QED BY <1>5, <2>2, <3>1 DEF Swap, Charge
  <2>3. CASE Mint(tx)
    <3>1. Taken(tx).wbnb \in Nat
      BY <1>1, <1>2, <2>3, MintIsNat DEF Mint, TxOK, Amounts
    <3> QED BY <1>5, <2>3, <3>1 DEF Mint, Charge
  <2>4. CASE Approve(tx) \/ Move(tx) \/ Sweep(tx) \/ Revert(tx, by)
    BY <1>5, <2>4 DEF Approve, Move, Sweep, Revert, Charge
  <2>5. CASE Withdraw(tx)
    <3>1. tx.kind = "withdraw" /\ tx.id \in 1..Len(positions)
      BY <1>1, <2>5 DEF Withdraw, TxOK
    <3>2. positions \in Seq([owner : {"old", "new"}, liquidity : Nat, band : Bands])
      BY DEF Shape
    <3>3. positions[tx.id] \in [owner : {"old", "new"}, liquidity : Nat, band : Bands]
      BY <3>1, <3>2, ElementOfSeq
    <3>4. Value(tx.id).wbnb \in Nat
      BY <1>2, <3>3, ValueIsNat DEF Amounts
    <3> QED BY <1>5, <2>5, <3>4 DEF Withdraw, Charge
  <2> QED BY <1>1, <2>1, <2>2, <2>3, <2>4, <2>5 DEF Outcome
<1>9. ~late /\ tx.kind = "deposit" => Wrapping(s) /\ tx.amount = s.want.wbnb /\ by = "script"
  <2> SUFFICES ASSUME ~late, tx.kind = "deposit"
               PROVE  Wrapping(s) /\ tx.amount = s.want.wbnb /\ by = "script"
    OBVIOUS
  <2>1. /\ by \in Process /\ job[by].phase = "wait" /\ StepTx(job[by], tx)
        /\ job[by].at \in StepsOf(by) /\ job[by].at \notin Local
    BY <1>4, MineSender
  <2> HIDE DEF tx, by
  <2>2. job[by].at = "wrap" /\ tx.amount = job[by].want.wbnb
        /\ (job[by].at \notin AgentStep => by = "script")
    BY <2>1, WhoSends
  <2> QED BY <2>1, <2>2 DEF Wrapping, AgentStep
<1>10. tx.kind = "deposit" => tx.amount \in Nat
  BY <1>1 DEF TxOK
<1>11. /\ wrapped <= wallet.wbnb + spent
       /\ ~late => wrapped <= Total + spent
       /\ ~late /\ Wrapping(s) => wrapped + s.want.wbnb <= Total + spent
  BY DEF Wrapped
<1> DEFINE w == wallet.wbnb
           v == wallet'.wbnb
           x == s.want.wbnb
           y == t.want.wbnb
<1>12. wrapped' <= v + spent' /\ (~late => wrapped' <= Total + spent')
       /\ (~late /\ Wrapping(t) => wrapped' + y <= Total + spent')
  <2>1. v \in Nat
    BY MineChain DEF ChainOK
  <2>2. Wrapping(t) => y = x
    BY <1>6
  <2> HIDE DEF w, v, x, y
  <2>3. CASE wrapped' = wrapped /\ spent' = spent /\ v >= w
    BY <1>5, <1>6, <1>7, <1>11, <2>1, <2>2, <2>3 DEF w, x
  <2>4. CASE tx.kind = "deposit" /\ wrapped' = wrapped + tx.amount /\ spent' = spent
             /\ v = w + tx.amount
    <3>1. tx.amount \in Nat /\ w \in Nat
      BY <1>5, <1>10, <2>4 DEF w
    <3>2. ~late => wrapped + tx.amount <= Total + spent /\ ~Wrapping(t)
      BY <1>6, <1>9, <1>11, <2>4
    <3>3. wrapped <= w + spent
      BY <1>11 DEF w
    <3> HIDE DEF tx
    <3>4. wrapped' <= v + spent'
      BY <1>5, <2>4, <3>1, <3>3
    <3> QED BY <2>4, <3>2, <3>4
  <2>5. CASE \E a \in Nat : wrapped' = wrapped /\ spent' = spent + a /\ v = w - a
    <3>1. PICK a \in Nat : wrapped' = wrapped /\ spent' = spent + a /\ v = w - a
      BY <2>5
    <3>2. w \in Nat /\ wrapped <= w + spent /\ x \in Nat /\ (Wrapping(t) => Wrapping(s))
          /\ (~late /\ Wrapping(s) => wrapped + x <= Total + spent)
      BY <1>5, <1>6, <1>7, <1>11 DEF w, x
    <3>3. wrapped' <= v + spent'
      BY <1>5, <2>1, <3>1, <3>2
    <3>4. ~late => wrapped' <= Total + spent'
      BY <1>5, <1>11, <3>1
    <3>5. ~late /\ Wrapping(t) => wrapped' + y <= Total + spent'
      BY <1>5, <2>2, <3>1, <3>2
    <3> QED BY <3>3, <3>4, <3>5
  <2> QED BY <1>8, <2>3, <2>4, <2>5 DEF w, v
<1> QED BY <1>1, <1>3, <1>12 DEF Wrapped

\* A step that leaves the mempool alone too.
LEMMA WrappedQuiet ==
  ASSUME Shape, Wrapped, UNCHANGED chainVars, UNCHANGED <<late, wrapped, spent>>,
         Wrapping(job'["script"]) =>
           Wrapping(job["script"]) /\ job'["script"].want = job["script"].want
  PROVE  Wrapped'
<1>1. wallet' = wallet /\ mempool' = mempool /\ late' = late /\ wrapped' = wrapped /\ spent' = spent
  BY DEF chainVars
<1>2. ~late' => \A i \in DOMAIN mempool' : mempool'[i].by \in Process
  BY <1>1 DEF Wrapped
<1> QED BY <1>1, <1>2, WrappedFrame

LEMMA SendWrapped ==
  ASSUME Shape, Wrapped, NEW p \in Process, Sign(p) \/ Broadcast(p) \/ Landed(p) \/ Fails(p) \/ Abort(p)
  PROVE  Wrapped'
<1> DEFINE s == job["script"]
           t == job'["script"]
<1>1. "script" \in Process
  BY DEF Process
<1>2. CASE Sign(p)
  <2>1. /\ SameStep(p) /\ job[p].phase = "run" /\ UNCHANGED chainVars
        /\ UNCHANGED <<late, wrapped, spent>>
    BY <1>2, SignStep DEF ghostVars
  <2>2. Wrapping(t) => Wrapping(s) /\ t.want = s.want
    BY <1>1, <2>1 DEF SameStep, Wrapping
  <2> QED BY <2>1, <2>2, WrappedQuiet
<1>3. CASE Broadcast(p)
  <2>1. /\ SameStep(p) /\ job[p].phase = "signed"
        /\ DOMAIN mempool' = 1..Len(mempool') /\ job[p].slot \in DOMAIN mempool'
        /\ mempool'[job[p].slot] = [by |-> p, tx |-> job[p].tx]
        /\ \A i \in DOMAIN mempool' \ {job[p].slot} : i \in DOMAIN mempool /\ mempool'[i] = mempool[i]
        /\ wallet' = wallet /\ late' = late /\ wrapped' = wrapped /\ spent' = spent
    BY <1>3, BroadcastStep DEF ghostVars
  <2>2. Wrapping(t) => Wrapping(s) /\ t.want = s.want
    BY <1>1, <2>1 DEF SameStep, Wrapping
  <2>3. mempool'[job[p].slot].by = p
    BY <2>1
  <2>4. ~late' => \A i \in DOMAIN mempool' : mempool'[i].by \in Process
    BY <2>1, <2>3 DEF Wrapped
  <2> QED BY <2>1, <2>2, <2>4, WrappedFrame
<1>4. CASE Landed(p)
  <2>1. /\ job[p].phase = "landed" /\ job[p].at \notin Local
        /\ (SameStep(p) /\ job[p].tx.kind = "approve") \/ NextOne(p)
        /\ UNCHANGED chainVars /\ UNCHANGED <<late, wrapped, spent>>
    BY <1>4, LandedStep DEF ghostVars
  <2>2. CASE p # "script"
    <3>1. t = s
      BY <1>1, <2>1, <2>2 DEF SameStep, NextOne
    <3> QED BY <2>1, <3>1, WrappedQuiet
  <2>3. CASE p = "script"
    <3>1. JobOK(s, Len(positions), Len(mempool)) /\ s.at \in StepsOf("script")
      BY <1>1, JobFacts
    <3>2. t.at # "wrap"
      <4>1. CASE SameStep(p) /\ job[p].tx.kind = "approve"
        <5>1. s.tx.kind = "approve" /\ StepTx(s, s.tx) /\ t.at = s.at
          BY <2>1, <2>3, <3>1, <4>1 DEF JobOK, SameStep
        <5> QED BY <5>1 DEF StepTx
      <4>2. CASE NextOne(p)
        <5>1. /\ t.at = Head(s.todo) /\ Follows(s.at, s.todo)
              /\ s.at \in (MintStep \cup MigrateStep \cup AgentStep) \ {"minted", "verify", "record"}
          BY <2>3, <3>1, <4>2 DEF NextOne, StepsOf
        <5> QED BY <5>1, NextStep DEF MintStep, MigrateStep, AgentStep
      <4> QED BY <2>1, <4>1, <4>2
    <3> QED BY <2>1, <3>2, WrappedQuiet DEF Wrapping
  <2> QED BY <2>2, <2>3
<1>5. CASE Fails(p)
  <2>1. ToRest(p) /\ UNCHANGED chainVars /\ UNCHANGED <<late, wrapped, spent>>
    BY <1>5, RestStep DEF Fails, ghostVars
  <2>2. Wrapping(t) => t = s
    BY <1>1, <2>1 DEF ToRest, Wrapping
  <2> QED BY <2>1, <2>2, WrappedQuiet
<1>6. CASE Abort(p)
  <2>1. /\ job' = [job EXCEPT ![p] = Idle] /\ wallet' = wallet /\ wrapped' = wrapped /\ spent' = spent
        /\ late' = (late \/ \E i \in DOMAIN mempool : mempool[i].by = p)
        /\ mempool' = [i \in DOMAIN mempool |->
                         IF mempool[i].by = p THEN [mempool[i] EXCEPT !.by = "nobody"]
                         ELSE mempool[i]]
    BY <1>6 DEF Abort
  <2>2. ToRest(p)
    BY <2>1, RestStep
  <2>3. Wrapping(t) => t = s
    BY <1>1, <2>2 DEF ToRest, Wrapping
  <2>4. ~late' => ~late /\ \A i \in DOMAIN mempool' : mempool'[i].by \in Process
    <3> SUFFICES ASSUME ~late'
                 PROVE  ~late /\ \A i \in DOMAIN mempool' : mempool'[i].by \in Process
      OBVIOUS
    <3>1. ~late /\ \A i \in DOMAIN mempool : mempool[i].by # p
      BY <2>1
    <3>2. DOMAIN mempool' = DOMAIN mempool /\ \A i \in DOMAIN mempool : mempool'[i] = mempool[i]
      BY <2>1, <3>1
    <3> QED BY <3>1, <3>2 DEF Wrapped
  <2> QED BY <2>1, <2>3, <2>4, WrappedFrame
<1> QED BY <1>2, <1>3, <1>4, <1>5, <1>6

LEMMA RunWrapped ==
  ASSUME Shape, Wrapped,
         \/ PriceMoves \/ StartMint \/ HaveUsdt \/ QuoteSwap \/ AllowedAlready \/ ReadBalances
         \/ SetToken \/ StartMigrate \/ NothingToSweep \/ Verified \/ StartPass \/ Record
  PROVE  Wrapped'
<1> DEFINE s == job["script"]
           t == job'["script"]
<1>1. "script" \in Process /\ "agent" \in Process /\ "script" # "agent"
  BY DEF Process
<1>2. CASE PriceMoves
  <2>1. wallet' = wallet /\ mempool' = mempool /\ late' = late /\ wrapped' = wrapped
        /\ spent' = spent /\ job' = job
    BY <1>2 DEF PriceMoves, ghostVars
  <2> QED BY <2>1 DEF Wrapped
<1>3. CASE StartMint
  <2>1. /\ t.at = IF Shortfall > 0 THEN "wrap" ELSE "usdt"
        /\ t.want.wbnb = Shortfall
        /\ UNCHANGED chainVars /\ UNCHANGED ghostVars
    BY <1>3, StartMintStep
  <2>2. wallet' = wallet /\ mempool' = mempool /\ late' = late /\ wrapped' = wrapped /\ spent' = spent
    BY <2>1 DEF chainVars, ghostVars
  <2>3. wrapped \in Nat /\ spent \in Nat /\ wallet.wbnb \in Nat /\ Total \in Nat
    BY Constants DEF Shape
  <2>4. CASE Shortfall > 0
    <3>1. Shortfall = Total - wallet.wbnb
      BY <2>4, <2>3 DEF Shortfall
    <3>2. wrapped <= wallet.wbnb + spent
      BY DEF Wrapped
    <3>3. wrapped + Shortfall <= Total + spent
      BY <2>3, <3>1, <3>2
    <3> QED BY <2>1, <2>2, <3>3 DEF Wrapped
  <2>5. CASE ~(Shortfall > 0)
    <3>1. ~Wrapping(t)
      BY <2>1, <2>5 DEF Wrapping
    <3> QED BY <2>2, <3>1 DEF Wrapped
  <2> QED BY <2>4, <2>5
<1>4. CASE HaveUsdt \/ QuoteSwap \/ ReadBalances
  <2>1. t.at # "wrap" /\ UNCHANGED chainVars /\ UNCHANGED ghostVars
    BY <1>4, HaveUsdtStep, QuoteStep, BalancesStep
  <2> QED BY <2>1, WrappedQuiet DEF Wrapping, ghostVars
<1>5. CASE AllowedAlready \/ NothingToSweep
  <2>1. /\ job' = [job EXCEPT !["script"] = Advance(s)] /\ s.phase = "run"
        /\ s.at \in Spender \cup {"sweep"} /\ UNCHANGED chainVars /\ UNCHANGED ghostVars
    BY <1>5 DEF AllowedAlready, NothingToSweep, Allowed, At
  <2>2. NextOne("script")
    BY <1>1, <2>1, GoesOnStep DEF Spender
  <2>3. t.at = Head(s.todo) /\ Follows(s.at, s.todo)
    BY <2>2 DEF NextOne
  <2>4. t.at # "wrap"
    BY <2>1, <2>3, WhatFollows DEF Spender
  <2> QED BY <2>1, <2>4, WrappedQuiet DEF Wrapping, ghostVars
<1>6. CASE SetToken \/ Verified
  <2>1. job' = [job EXCEPT !["script"] = Idle] /\ UNCHANGED chainVars /\ UNCHANGED ghostVars
    BY <1>6 DEF SetToken, Verified
  <2>2. t.at # "wrap"
    BY <1>1, <2>1, RestStep DEF ToRest
  <2> QED BY <2>1, <2>2, WrappedQuiet DEF Wrapping, ghostVars
<1>7. CASE StartMigrate
  <2>1. UNCHANGED chainVars /\ UNCHANGED <<late, wrapped, spent, swept>>
    BY <1>7, StartMigrateStep
  <2>2. t.at # "wrap"
    BY <1>7, StartMigrateAt
  <2> QED BY <2>1, <2>2, WrappedQuiet DEF Wrapping
<1>8. CASE StartPass
  <2>1. t = s /\ UNCHANGED chainVars /\ UNCHANGED <<late, wrapped, spent, swept>>
    BY <1>8, StartPassStep
  <2> QED BY <2>1, WrappedQuiet
<1>9. CASE Record
  <2>1. job' = [job EXCEPT !["agent"] = Idle] /\ UNCHANGED chainVars /\ UNCHANGED ghostVars
    BY <1>9 DEF Record
  <2>2. t = s
    BY <1>1, <2>1, RestStep DEF ToRest
  <2> QED BY <2>1, <2>2, WrappedQuiet DEF ghostVars
<1> QED BY <1>2, <1>3, <1>4, <1>5, <1>6, <1>7, <1>8, <1>9

\* The inductive form of WrapsWhatIsMissing: the WBNB ever wrapped is in the wallet or spent, and
\* a deposit that the script signs, sends or waits for is counted before it is mined.
THEOREM WrapInvariant == Spec => []Wrapped
<1>1. Init => Wrapped
  <2> SUFFICES ASSUME Init PROVE Wrapped
    OBVIOUS
  <2>1. /\ wallet.wbnb = 0 /\ wrapped = 0 /\ spent = 0 /\ DOMAIN mempool = {}
        /\ job["script"].at = "idle" /\ Total \in Nat
    BY Constants DEF Init, Idle, Process
  <2> QED BY <2>1 DEF Wrapped, Wrapping
<1>2. Shape /\ Wrapped /\ [Next]_vars => Wrapped'
  <2> SUFFICES ASSUME Shape, Wrapped, [Next]_vars PROVE Wrapped'
    OBVIOUS
  <2>1. CASE Mine
    BY <2>1, MineWrapped
  <2>2. CASE \E p \in Process : Sign(p) \/ Broadcast(p) \/ Landed(p) \/ Fails(p) \/ Abort(p)
    BY <2>2, SendWrapped
  <2>3. CASE \/ PriceMoves \/ StartMint \/ HaveUsdt \/ QuoteSwap \/ AllowedAlready \/ ReadBalances
             \/ SetToken \/ StartMigrate \/ NothingToSweep \/ Verified \/ StartPass \/ Record
    BY <2>3, RunWrapped
  <2>4. CASE UNCHANGED vars
    <3>1. wallet' = wallet /\ mempool' = mempool /\ late' = late /\ wrapped' = wrapped
          /\ spent' = spent /\ job' = job
      BY <2>4 DEF vars, chainVars, ghostVars
    <3> QED BY <3>1 DEF Wrapped
  <2> QED BY <2>1, <2>2, <2>3, <2>4 DEF Next
<1> QED BY <1>1, <1>2, ShapeHolds, PTL DEF Spec

\* However often the script is run again, and whatever fails in between, it wraps no more than
\* it needs to hold Total, until a sender has given up on a transaction.
THEOREM WrapsOnce == Spec => []WrapsWhatIsMissing
<1>1. Wrapped => WrapsWhatIsMissing
  BY DEF Wrapped, WrapsWhatIsMissing
<1> QED BY <1>1, WrapInvariant, PTL

-----------------------------------------------------------------------------
(* What the spenders may take. *)

\* No pass of the agent has started, and no transaction was left behind.
Alone == left.passes = MaxPasses /\ ~late
LeftOK == left \in [mints : Nat, migrations : Nat, passes : 0..MaxPasses, moves : Nat, faults : Nat]

LEMMA LeftStep ==
  ASSUME LeftOK, [Next]_vars
  PROVE  LeftOK' /\ (Alone' => Alone)
<1>1. MaxPasses \in Nat
  BY Constants
<1>2. /\ left.mints \in Nat /\ left.migrations \in Nat /\ left.passes \in 0..MaxPasses
      /\ left.moves \in Nat /\ left.faults \in Nat
  BY DEF LeftOK
<1>3. \/ left' = left
      \/ left.moves > 0 /\ left' = [left EXCEPT !.moves = @ - 1]
      \/ left.faults > 0 /\ left' = [left EXCEPT !.faults = @ - 1]
      \/ left.mints > 0 /\ left' = [left EXCEPT !.mints = @ - 1]
      \/ left.migrations > 0 /\ left' = [left EXCEPT !.migrations = @ - 1]
      \/ left.passes > 0 /\ left' = [left EXCEPT !.passes = @ - 1]
  <2>1. CASE Mine \/ SetToken \/ Verified \/ Record
    BY <2>1 DEF Mine, SetToken, Verified, Record
  <2>2. CASE HaveUsdt \/ QuoteSwap \/ AllowedAlready \/ ReadBalances \/ NothingToSweep
    BY <2>2 DEF HaveUsdt, QuoteSwap, AllowedAlready, ReadBalances, NothingToSweep
  <2>3. CASE PriceMoves \/ StartMint \/ StartMigrate \/ StartPass
    BY <2>3 DEF PriceMoves, StartMint, StartMigrate, StartPass
  <2>4. CASE \E p \in Process : Sign(p) \/ Broadcast(p) \/ Landed(p) \/ Fails(p) \/ Abort(p)
    BY <2>4 DEF Sign, Broadcast, Landed, Fails, Abort
  <2>5. CASE UNCHANGED vars
    BY <2>5 DEF vars
  <2> QED BY <2>1, <2>2, <2>3, <2>4, <2>5 DEF Next
<1>4. LeftOK'
  BY <1>1, <1>2, <1>3 DEF LeftOK
<1>5. left'.passes = left.passes \/ left'.passes < left.passes
  BY <1>2, <1>3 DEF LeftOK
<1>6. left'.passes = MaxPasses => left.passes = MaxPasses
  BY <1>1, <1>2, <1>5
<1>7. ~late' => ~late
  <2>1. CASE Mine \/ SetToken \/ Verified \/ Record
    BY <2>1 DEF Mine, SetToken, Verified, Record, ghostVars
  <2>2. CASE HaveUsdt \/ QuoteSwap \/ AllowedAlready \/ ReadBalances \/ NothingToSweep
    BY <2>2 DEF HaveUsdt, QuoteSwap, AllowedAlready, ReadBalances, NothingToSweep, ghostVars
  <2>3. CASE PriceMoves \/ StartMint \/ StartMigrate \/ StartPass
    BY <2>3 DEF PriceMoves, StartMint, StartMigrate, StartPass, ghostVars
  <2>4. CASE \E p \in Process : Sign(p) \/ Broadcast(p) \/ Landed(p) \/ Fails(p) \/ Abort(p)
    BY <2>4 DEF Sign, Broadcast, Landed, Fails, Abort, ghostVars
  <2>5. CASE UNCHANGED vars
    BY <2>5 DEF vars, ghostVars
  <2> QED BY <2>1, <2>2, <2>3, <2>4, <2>5 DEF Next
<1> QED BY <1>4, <1>6, <1>7 DEF Alone

\* The wallet and the allowances of a wallet that only the scripts use.
Purse ==
  /\ wallet.wbnb <= Total
  /\ allowance["router"] \in {0, Half}
  /\ allowance["router"] > 0 => wallet.usdt = 0 /\ wallet.wbnb = Total
  /\ allowance["npmUsdt"] <= wallet.usdt
  /\ allowance["npmWbnb"] <= Total

\* What a mint has done of what it has to, by its step.
Before(j) == j.phase \in {"run", "signed", "wait"}
Task(j) ==
  /\ j.at = "wrap" /\ Before(j) => wallet.wbnb + j.want.wbnb = Total
  /\ j.at = "wrap" /\ j.phase = "landed" => wallet.wbnb = Total
  /\ j.at = "usdt" => wallet.wbnb = Total
  /\ j.at = "router" => wallet.usdt = 0 /\ wallet.wbnb = Total
  /\ j.at = "swap" /\ Before(j) => wallet.usdt = 0 /\ wallet.wbnb = Total
  /\ j.at = "swap" /\ j.phase = "landed" => allowance["router"] = 0
  /\ j.at \in {"balances", "npmUsdt", "npmWbnb", "mint", "minted"} => allowance["router"] = 0
  /\ j.at \in {"npmUsdt", "npmWbnb"} => j.want = Balances
  /\ j.at = "mint" /\ Before(j) => j.want = Balances

Covered ==
  LeftOK /\ (Alone => job["agent"].at = "idle" /\ Purse /\ Task(job["script"]))

\* A step that leaves the wallet, but for its gas, and the allowances alone.
LEMMA TaskFrame ==
  ASSUME Purse, Task(job["script"]), wallet'.wbnb = wallet.wbnb, wallet'.usdt = wallet.usdt,
         allowance' = allowance,
         \/ job'["script"] = job["script"]
         \/ job'["script"].at \in {"idle", "movePosition", "moveIdentity", "sweep", "verify"}
         \/ /\ job'["script"].at = job["script"].at /\ job'["script"].want = job["script"].want
            /\ \/ Before(job["script"]) /\ Before(job'["script"])
               \/ job'["script"].at \in Spender
               \/ job'["script"].phase = "reverted"
  PROVE  Purse' /\ Task(job["script"])'
<1>1. Balances' = Balances
  BY DEF Balances
<1>2. Purse'
  BY DEF Purse
<1>3. CASE job'["script"] = job["script"]
  BY <1>1, <1>2, <1>3 DEF Task, Before
<1>4. CASE job'["script"].at \in {"idle", "movePosition", "moveIdentity", "sweep", "verify"}
  BY <1>2, <1>4 DEF Task
<1>5. CASE job'["script"].at = job["script"].at /\ job'["script"].want = job["script"].want
  BY <1>1, <1>2, <1>5 DEF Task, Before, Spender
<1> QED BY <1>2, <1>3, <1>4, <1>5

\* Going on to the next step of a mint.
LEMMA TaskNext ==
  ASSUME Purse, Task(job["script"]), NextOne("script"), wallet' = wallet, allowance' = allowance,
         \/ job["script"].phase = "landed" /\ job["script"].at # "balances" /\ job["script"].at # "usdt"
         \/ job["script"].at \in Spender
         \/ job["script"].at = "sweep",
         job["script"].at \in StepsOf("script")
  PROVE  Purse' /\ Task(job["script"])'
<1> DEFINE s == job["script"]
           t == job'["script"]
<1>1. Balances' = Balances
  BY DEF Balances
<1>2. Purse'
  BY DEF Purse
<1>3. t.at = Head(s.todo) /\ t.phase = "run" /\ t.want = s.want /\ Follows(s.at, s.todo)
      /\ s.at \notin {"idle", "minted", "verify"}
  BY DEF NextOne
<1> HIDE DEF t
<1>4. CASE s.at = "wrap" /\ s.phase = "landed"
  <2>1. t.at = "usdt" /\ wallet.wbnb = Total
    BY <1>3, <1>4, WhatFollows DEF Task
  <2> QED BY <1>2, <2>1 DEF Task, t
<1>5. CASE s.at = "router"
  <2>1. t.at = "swap" /\ wallet.usdt = 0 /\ wallet.wbnb = Total
    BY <1>3, <1>5, WhatFollows DEF Task
  <2> QED BY <1>2, <1>3, <2>1 DEF Task, t
<1>6. CASE s.at = "swap" /\ s.phase = "landed"
  <2>1. t.at = "balances" /\ allowance["router"] = 0
    BY <1>3, <1>6, WhatFollows DEF Task
  <2> QED BY <1>2, <2>1 DEF Task, t
<1>7. CASE s.at = "npmUsdt"
  <2>1. t.at = "npmWbnb" /\ allowance["router"] = 0 /\ s.want = Balances
    BY <1>3, <1>7, WhatFollows DEF Task
  <2> QED BY <1>1, <1>2, <1>3, <2>1 DEF Task, t
<1>8. CASE s.at = "npmWbnb"
  <2>1. t.at = "mint" /\ allowance["router"] = 0 /\ s.want = Balances
    BY <1>3, <1>8, WhatFollows DEF Task
  <2> QED BY <1>1, <1>2, <1>3, <2>1 DEF Task, t
<1>9. CASE s.at = "mint"
  <2>1. t.at = "minted" /\ allowance["router"] = 0
    BY <1>3, <1>9, WhatFollows DEF Task
  <2> QED BY <1>2, <1>3, <2>1 DEF Task, t
<1>10. CASE s.at \in {"movePosition", "moveIdentity", "sweep"}
  <2>1. t.at \in {"moveIdentity", "sweep", "verify"}
    BY <1>3, <1>10, WhatFollows
  <2> QED BY <1>2, <2>1 DEF Task, t
<1>11. s.at \in {"wrap", "router", "swap", "npmUsdt", "npmWbnb", "mint", "movePosition",
                 "moveIdentity", "sweep"}
  BY <1>3 DEF StepsOf, MintStep, MigrateStep, Spender
<1> QED BY <1>4, <1>5, <1>6, <1>7, <1>8, <1>9, <1>10, <1>11 DEF Spender

\* What a script that is alone sent is mined.
LEMMA MineCovered ==
  ASSUME Shape, Wrapped, Alone, job["agent"].at = "idle", Purse, Task(job["script"]), Mine
  PROVE  job'["agent"].at = "idle" /\ Purse' /\ Task(job["script"])'
<1> DEFINE tx == mempool[1].tx
           by == mempool[1].by
           s == job["script"]
           t == job'["script"]
           lands == Executes(tx)
           u == wallet.usdt
           w == wallet.wbnb
           v == wallet'.usdt
           x == wallet'.wbnb
           r == allowance["router"]
           n == allowance["npmUsdt"]
           o == allowance["npmWbnb"]
<1>1. "script" \in Process /\ "agent" \in Process /\ Len(mempool) \in Nat
      /\ DOMAIN mempool = 1..Len(mempool) /\ tick \in Live
  BY JobFacts DEF Process, Shape
<1>2. TxOK(tx, Len(positions)) /\ Len(mempool) > 0
  BY MineFacts, Zenon
<1>3. by \in Process
  BY <1>1, <1>2 DEF Wrapped, Alone
<1>4. /\ job[by].phase = "wait" /\ StepTx(job[by], tx) /\ job[by].at \in StepsOf(by)
      /\ job[by].at \notin Local
      /\ job'[by].at = job[by].at /\ job'[by].want = job[by].want
      /\ job'[by].phase = IF lands THEN "landed" ELSE "reverted"
      /\ IF lands THEN Outcome(tx) ELSE Revert(tx, by)
  BY <1>3, MineSender
<1>5. by = "script"
  BY <1>3, <1>4 DEF Process, Local
<1>6. job'["agent"].at = "idle"
  <2>1. "agent" # by
    BY <1>5
  <2> QED BY <1>1, <2>1, MineOthers
<1>7. /\ u \in Nat /\ w \in Nat /\ Total \in Nat /\ Half \in Nat /\ r \in Nat /\ n \in Nat /\ o \in Nat
      /\ allowance \in [Spender -> Nat]
  BY Constants DEF Shape, Spender
<1>8. /\ t.at = s.at /\ t.want = s.want /\ s.phase = "wait" /\ StepTx(s, tx)
      /\ s.at \in StepsOf("script") /\ s.at \notin Local
      /\ t.phase = IF lands THEN "landed" ELSE "reverted"
      /\ IF lands THEN Outcome(tx) ELSE Revert(tx, "script")
  BY <1>4, <1>5
<1>9. s.want.usdt \in Nat /\ s.want.wbnb \in Nat
  BY <1>1, JobFacts DEF JobOK, Amounts
<1> HIDE DEF tx, by, t, lands
<1>10. CASE ~lands
  <2>1. x = w /\ v = u /\ allowance' = allowance
    BY <1>7, <1>8, <1>10 DEF Revert, Charge
  <2>2. t.at = s.at /\ t.want = s.want /\ t.phase = "reverted"
    BY <1>8, <1>10
  <2> QED BY <1>6, <2>1, <2>2, TaskFrame DEF t
<1>11. CASE lands
  <2>1. t.phase = "landed" /\ Outcome(tx)
    BY <1>8, <1>11
  <2>2. Executes(tx)
    BY <1>11 DEF lands
  <2>3. /\ w <= Total /\ r \in {0, Half} /\ (r > 0 => u = 0 /\ w = Total) /\ n <= u /\ o <= Total
    BY DEF Purse
  <2>4. CASE Deposit(tx)
    <3>1. tx.kind = "deposit" /\ tx.amount \in Nat
      BY <1>2, <2>4 DEF Deposit, TxOK
    <3>2. s.at = "wrap" /\ tx.amount = s.want.wbnb
      BY <1>1, <1>8, <3>1, WhoSends
    <3>3. w + s.want.wbnb = Total
      BY <1>8, <3>2 DEF Task, Before
    <3>4. x = Total /\ v = u /\ allowance' = allowance
      BY <1>7, <2>4, <3>1, <3>2, <3>3 DEF Deposit, Charge
    <3>5. Purse'
      BY <1>7, <2>3, <3>4 DEF Purse
    <3>6. Task(job["script"])'
      BY <1>8, <2>1, <3>2, <3>4 DEF Task, Before, t
    <3> QED BY <1>6, <3>5, <3>6
  <2>5. CASE Approve(tx)
    <3>1. /\ tx.kind = "approve" /\ tx.amount \in Nat /\ x = w /\ v = u
          /\ allowance' = [allowance EXCEPT ![tx.spender] = tx.amount]
      BY <1>2, <1>7, <2>5 DEF Approve, TxOK, Charge
    <3>2. /\ s.at \in Spender /\ tx.spender = s.at
          /\ s.at = "router" => tx.amount \in {0, Half}
          /\ s.at = "npmUsdt" => tx.amount \in {0, s.want.usdt}
          /\ s.at = "npmWbnb" => tx.amount \in {0, s.want.wbnb}
      BY <1>1, <1>8, <3>1, WhoSends
    <3>3. Balances' = Balances
      BY <3>1 DEF Balances
    <3>4. CASE s.at = "router"
      <4>1. /\ allowance'["router"] = tx.amount /\ allowance'["npmUsdt"] = n
            /\ allowance'["npmWbnb"] = o
        BY <1>7, <3>1, <3>2, <3>4 DEF Spender
      <4>2. u = 0 /\ w = Total
        BY <3>4 DEF Task
      <4>3. Purse'
        BY <2>3, <3>1, <3>2, <3>4, <4>1, <4>2 DEF Purse
      <4>4. Task(job["script"])'
        BY <1>8, <3>1, <3>4, <4>2 DEF Task, t
      <4> QED BY <1>6, <4>3, <4>4
    <3>5. CASE s.at \in {"npmUsdt", "npmWbnb"}
      <4>1. r = 0 /\ s.want.usdt = u /\ s.want.wbnb = w /\ s.want = Balances
        BY <3>5 DEF Task, Balances
      <4>2. /\ allowance'["router"] = 0
            /\ allowance'["npmUsdt"] \in {n, 0, u} /\ allowance'["npmWbnb"] \in {o, 0, w}
        <5>1. CASE s.at = "npmUsdt"
          BY <1>7, <3>1, <3>2, <4>1, <5>1 DEF Spender
        <5>2. CASE s.at = "npmWbnb"
          BY <1>7, <3>1, <3>2, <4>1, <5>2 DEF Spender
        <5> QED BY <3>5, <5>1, <5>2
      <4>3. Purse'
        BY <1>7, <2>3, <3>1, <4>2 DEF Purse
      <4>4. Task(job["script"])'
        BY <1>8, <3>3, <3>5, <4>1, <4>2 DEF Task, t
      <4> QED BY <1>6, <4>3, <4>4
    <3> QED BY <3>2, <3>4, <3>5 DEF Spender
  <2>6. CASE Swap(tx)
    <3>1. /\ tx.kind = "swap" /\ tx.amount \in Nat /\ x = w - tx.amount /\ v = u + SwapOut(tx.amount)
          /\ allowance' = [allowance EXCEPT !["router"] = @ - tx.amount]
      BY <1>2, <1>7, <2>6 DEF Swap, TxOK, Charge
    <3>2. s.at = "swap" /\ tx.amount = Half
      BY <1>1, <1>8, <3>1, WhoSends
    <3>3. tx.amount <= r /\ SwapOut(tx.amount) \in Nat
      BY <1>1, <2>2, <3>1, SwapOutNat DEF Executes
    <3>4. r = Half
      BY <1>7, <2>3, <3>2, <3>3
    <3>5. allowance'["router"] = 0 /\ allowance'["npmUsdt"] = n /\ allowance'["npmWbnb"] = o
      BY <1>7, <3>1, <3>2, <3>4 DEF Spender
    <3>6. Purse'
      BY <1>7, <2>3, <3>1, <3>3, <3>5 DEF Purse
    <3>7. Task(job["script"])'
      BY <1>8, <2>1, <3>2, <3>5 DEF Task, Before, t
    <3> QED BY <1>6, <3>6, <3>7
  <2>7. CASE Mint(tx)
    <3> DEFINE a == Taken(tx).usdt
               b == Taken(tx).wbnb
    <3>1. /\ tx.kind = "mint"
          /\ allowance' = IF tx.approves THEN allowance
                          ELSE [allowance EXCEPT !["npmUsdt"] = @ - a, !["npmWbnb"] = @ - b]
      BY <2>7 DEF Mint
    <3>2. s.at = "mint" /\ ~tx.approves
      <4>1. s.at \in {"mint", "remint"} /\ (tx.approves <=> s.at = "remint")
        BY <1>1, <1>8, <3>1, WhoSends
      <4> QED BY <1>8, <4>1 DEF StepsOf, MintStep, MigrateStep
    <3>3. a \in Nat /\ b \in Nat
      <4>1. tx.band \in Bands /\ tx.want \in Amounts
        BY <1>2, <3>1 DEF TxOK
      <4> QED BY <1>1, <4>1, MintIsNat DEF Amounts
    <3> HIDE DEF a, b
    <3>4. x = w - b /\ v = u - a
      BY <1>7, <2>7, <3>3 DEF Mint, Charge, a, b
    <3>5. a <= n /\ b <= o
      BY <2>2, <3>1, <3>2 DEF Executes, a, b
    <3>6. allowance'["router"] = r /\ allowance'["npmUsdt"] = n - a /\ allowance'["npmWbnb"] = o - b
      BY <1>7, <3>1, <3>2 DEF Spender
    <3>7. r = 0
      BY <3>2 DEF Task
    <3>8. Purse'
      BY <1>7, <2>3, <3>3, <3>4, <3>5, <3>6, <3>7 DEF Purse
    <3>9. Task(job["script"])'
      BY <1>8, <2>1, <3>2, <3>6, <3>7 DEF Task, Before, t
    <3> QED BY <1>6, <3>8, <3>9
  <2>8. CASE Withdraw(tx)
    <3>1. tx.kind = "withdraw"
      BY <2>8 DEF Withdraw
    <3>2. s.at = "withdraw"
      BY <1>1, <1>8, <3>1, WhoSends
    <3> QED BY <1>8, <3>2 DEF StepsOf, MintStep, MigrateStep
  <2>9. CASE Move(tx) \/ Sweep(tx)
    <3>1. tx.kind \in {"move", "moveIdentity", "sweep"} /\ x = w /\ v = u /\ allowance' = allowance
      BY <1>7, <2>9 DEF Move, Sweep, Charge
    <3>2. s.at \in {"movePosition", "moveIdentity", "sweep"}
      BY <1>1, <1>8, <3>1, WhoSends
    <3> QED BY <1>6, <1>8, <3>1, <3>2, TaskFrame DEF t
  <2> QED BY <2>1, <2>4, <2>5, <2>6, <2>7, <2>8, <2>9 DEF Outcome
<1> QED BY <1>10, <1>11

\* What a script that is alone sends.
LEMMA SendCovered ==
  ASSUME Shape, Alone, job["agent"].at = "idle", Purse, Task(job["script"]), NEW p \in Process,
         Sign(p) \/ Broadcast(p) \/ Landed(p) \/ Fails(p) \/ Abort(p)
  PROVE  job'["agent"].at = "idle" /\ Purse' /\ Task(job["script"])'
<1> DEFINE s == job["script"]
           t == job'["script"]
<1>1. "script" \in Process /\ "agent" \in Process /\ "script" # "agent" /\ "idle" \in Local
  BY DEF Process, Local
<1>2. job[p].at \notin Local => p = "script"
  BY <1>1 DEF Process
<1>3. CASE Sign(p)
  <2>1. /\ SameStep(p) /\ s.phase = "run" /\ t.phase = "signed" /\ p = "script"
        /\ wallet' = wallet /\ allowance' = allowance
    BY <1>2, <1>3, SignStep DEF chainVars
  <2>2. job'["agent"] = job["agent"] /\ t.at = s.at /\ t.want = s.want /\ Before(s) /\ Before(t)
    BY <1>1, <2>1 DEF SameStep, Before
  <2> QED BY <2>1, <2>2, TaskFrame
<1>4. CASE Broadcast(p)
  <2>1. /\ SameStep(p) /\ s.phase = "signed" /\ t.phase = "wait" /\ p = "script"
        /\ wallet' = wallet /\ allowance' = allowance
    BY <1>2, <1>4, BroadcastStep
  <2>2. job'["agent"] = job["agent"] /\ t.at = s.at /\ t.want = s.want /\ Before(s) /\ Before(t)
    BY <1>1, <2>1 DEF SameStep, Before
  <2> QED BY <2>1, <2>2, TaskFrame
<1>5. CASE Landed(p)
  <2>1. /\ s.phase = "landed" /\ s.at \notin Local /\ p = "script"
        /\ (SameStep(p) /\ s.tx.kind = "approve") \/ NextOne(p)
        /\ wallet' = wallet /\ allowance' = allowance
    BY <1>2, <1>5, LandedStep DEF chainVars
  <2>2. JobOK(s, Len(positions), Len(mempool)) /\ s.at \in StepsOf("script")
    BY <1>1, JobFacts
  <2>3. job'["agent"] = job["agent"]
    BY <1>1, <2>1 DEF SameStep, NextOne
  <2>4. CASE SameStep(p) /\ s.tx.kind = "approve"
    <3>1. StepTx(s, s.tx)
      BY <2>1, <2>2 DEF JobOK
    <3>2. s.at \in Spender
      BY <1>1, <2>1, <2>2, <2>4, <3>1, WhoSends
    <3>3. t.at = s.at /\ t.want = s.want
      BY <2>1, <2>4 DEF SameStep
    <3> QED BY <2>1, <2>3, <3>2, <3>3, TaskFrame
  <2>5. CASE NextOne(p)
    <3>1. NextOne("script") /\ s.at # "balances" /\ s.at # "usdt"
      BY <2>1, <2>5 DEF Local
    <3> QED BY <2>1, <2>2, <2>3, <3>1, TaskNext
  <2> QED BY <2>1, <2>4, <2>5
<1>6. CASE Fails(p) \/ Abort(p)
  <2>1. job' = [job EXCEPT ![p] = Idle] /\ wallet' = wallet /\ allowance' = allowance
    BY <1>6 DEF Fails, Abort, chainVars
  <2>2. ToRest(p)
    BY <2>1, RestStep
  <2>3. job'["agent"].at = "idle" /\ (t = s \/ t.at = "idle")
    BY <1>1, <2>2 DEF ToRest, Process
  <2> QED BY <2>1, <2>3, TaskFrame
<1> QED BY <1>3, <1>4, <1>5, <1>6

LEMMA RunCovered ==
  ASSUME Shape, Alone, Alone', job["agent"].at = "idle", Purse, Task(job["script"]), LeftOK,
         \/ PriceMoves \/ StartMint \/ HaveUsdt \/ QuoteSwap \/ AllowedAlready \/ ReadBalances
         \/ SetToken \/ StartMigrate \/ NothingToSweep \/ Verified \/ StartPass \/ Record
  PROVE  job'["agent"].at = "idle" /\ Purse' /\ Task(job["script"])'
<1> DEFINE s == job["script"]
           t == job'["script"]
<1>1. "script" \in Process /\ "agent" \in Process /\ "script" # "agent"
  BY DEF Process
<1>2. CASE PriceMoves
  <2>1. wallet' = wallet /\ allowance' = allowance /\ job' = job
    BY <1>2 DEF PriceMoves
  <2> QED BY <2>1, TaskFrame
<1>3. CASE StartMint
  <2>1. /\ t.at = IF Shortfall > 0 THEN "wrap" ELSE "usdt"
        /\ t.want.wbnb = Shortfall /\ t.phase = "run"
        /\ job'["agent"] = job["agent"] /\ wallet' = wallet /\ allowance' = allowance
    BY <1>3, StartMintStep DEF chainVars
  <2>2. wallet.wbnb \in Nat /\ Total \in Nat /\ wallet.wbnb <= Total
    BY Constants DEF Shape, Purse
  <2>3. Purse'
    BY <2>1 DEF Purse
  <2>4. CASE Shortfall > 0
    <3>1. wallet.wbnb + Shortfall = Total
      BY <2>2, <2>4 DEF Shortfall
    <3> QED BY <2>1, <2>3, <2>4, <3>1 DEF Task
  <2>5. CASE ~(Shortfall > 0)
    <3>1. wallet.wbnb = Total
      BY <2>2, <2>5 DEF Shortfall
    <3> QED BY <2>1, <2>3, <2>5, <3>1 DEF Task
  <2> QED BY <2>4, <2>5
<1>4. CASE HaveUsdt
  <2>1. /\ s.at = "usdt" /\ t.at = "balances" /\ wallet.usdt > 0
        /\ job'["agent"] = job["agent"] /\ wallet' = wallet /\ allowance' = allowance
    BY <1>4, HaveUsdtStep DEF chainVars
  <2>2. Purse'
    BY <2>1 DEF Purse
  <2>3. allowance["router"] = 0
    <3>1. allowance["router"] \in Nat /\ wallet.usdt \in Nat
      BY DEF Shape, Spender
    <3> QED BY <2>1, <3>1 DEF Purse
  <2> QED BY <2>1, <2>2, <2>3 DEF Task
<1>5. CASE QuoteSwap
  <2>1. /\ s.at = "usdt" /\ t.at = "router" /\ wallet.usdt = 0
        /\ job'["agent"] = job["agent"] /\ wallet' = wallet /\ allowance' = allowance
    BY <1>5, QuoteStep DEF chainVars
  <2>2. Purse' /\ wallet.wbnb = Total
    BY <2>1 DEF Purse, Task
  <2> QED BY <2>1, <2>2 DEF Task
<1>6. CASE ReadBalances
  <2>1. /\ s.at = "balances" /\ t.at = "npmUsdt" /\ t.want = Balances
        /\ job'["agent"] = job["agent"] /\ wallet' = wallet /\ allowance' = allowance
    BY <1>6, BalancesStep DEF chainVars
  <2>2. Purse' /\ allowance["router"] = 0 /\ Balances' = Balances
    BY <2>1 DEF Purse, Task, Balances
  <2> QED BY <2>1, <2>2 DEF Task
<1>7. CASE AllowedAlready \/ NothingToSweep
  <2>1. /\ job' = [job EXCEPT !["script"] = Advance(s)] /\ s.phase = "run"
        /\ s.at \in Spender \cup {"sweep"} /\ wallet' = wallet /\ allowance' = allowance
    BY <1>7 DEF AllowedAlready, NothingToSweep, Allowed, At, chainVars
  <2>2. NextOne("script")
    BY <1>1, <2>1, GoesOnStep DEF Spender
  <2>3. job'["agent"] = job["agent"] /\ s.at \in StepsOf("script")
    BY <1>1, <2>2, JobFacts DEF NextOne
  <2> QED BY <2>1, <2>2, <2>3, TaskNext
<1>8. CASE SetToken \/ Verified
  <2>1. job' = [job EXCEPT !["script"] = Idle] /\ wallet' = wallet /\ allowance' = allowance
    BY <1>8 DEF SetToken, Verified, chainVars
  <2>2. ToRest("script")
    BY <1>1, <2>1, RestStep
  <2>3. t.at = "idle" /\ job'["agent"] = job["agent"]
    BY <1>1, <2>2 DEF ToRest
  <2> QED BY <2>1, <2>3, TaskFrame
<1>9. CASE StartMigrate
  <2>1. job'["agent"] = job["agent"] /\ wallet' = wallet /\ allowance' = allowance
    BY <1>9, StartMigrateStep DEF chainVars
  <2>2. t.at \in {"movePosition", "moveIdentity", "sweep"}
    BY <1>9, StartMigrateAt
  <2> QED BY <2>1, <2>2, TaskFrame
<1>10. CASE StartPass
  <2>1. left.passes = MaxPasses /\ left'.passes = MaxPasses /\ left' = [left EXCEPT !.passes = @ - 1]
    BY <1>10 DEF StartPass, Alone
  <2>2. left'.passes = left.passes - 1 /\ left.passes \in Nat
    BY <2>1, Constants DEF LeftOK
  <2> QED BY <2>1, <2>2
<1>11. CASE Record
  <2>1. job["agent"].at = "record"
    BY <1>11 DEF Record, At
  <2> QED BY <2>1
<1> QED BY <1>2, <1>3, <1>4, <1>5, <1>6, <1>7, <1>8, <1>9, <1>10, <1>11

\* The approvals are exact: while the agent leaves the wallet alone, and until a sender has
\* given up on a transaction, the router and, of the USDT, the position manager may take no
\* more than the wallet holds, and the position manager no more WBNB than a run commits.
THEOREM ApprovalsAreCovered == Spec => []AllowancesCovered
<1>1. Init => Covered
  <2> SUFFICES ASSUME Init PROVE Covered
    OBVIOUS
  <2>1. /\ wallet.wbnb = 0 /\ wallet.usdt = 0 /\ \A x \in Spender : allowance[x] = 0
        /\ job["script"].at = "idle" /\ job["agent"].at = "idle"
        /\ left = [mints |-> MaxMints, migrations |-> MaxMigrations, passes |-> MaxPasses,
                   moves |-> MaxMoves, faults |-> MaxFaults]
    BY DEF Init, Idle, Process
  <2>2. LeftOK
    BY <2>1, Constants DEF LeftOK
  <2>3. Purse
    BY <2>1, Constants DEF Purse, Spender
  <2>4. Task(job["script"])
    BY <2>1 DEF Task
  <2> QED BY <2>1, <2>2, <2>3, <2>4 DEF Covered
<1>2. Shape /\ Wrapped /\ Covered /\ [Next]_vars => Covered'
  <2> SUFFICES ASSUME Shape, Wrapped, Covered, [Next]_vars PROVE Covered'
    OBVIOUS
  <2>1. LeftOK' /\ (Alone' => Alone) /\ LeftOK
    BY LeftStep DEF Covered
  <2>2. CASE ~Alone'
    BY <2>1, <2>2 DEF Covered
  <2>3. CASE Alone'
    <3>1. Alone /\ job["agent"].at = "idle" /\ Purse /\ Task(job["script"])
      BY <2>1, <2>3 DEF Covered
    <3>2. job'["agent"].at = "idle" /\ Purse' /\ Task(job["script"])'
      <4>1. CASE Mine
        BY <3>1, <4>1, MineCovered
      <4>2. CASE \E p \in Process : Sign(p) \/ Broadcast(p) \/ Landed(p) \/ Fails(p) \/ Abort(p)
        BY <3>1, <4>2, SendCovered
      <4>3. CASE \/ PriceMoves \/ StartMint \/ HaveUsdt \/ QuoteSwap \/ AllowedAlready
                 \/ ReadBalances \/ SetToken \/ StartMigrate \/ NothingToSweep \/ Verified
                 \/ StartPass \/ Record
        BY <2>1, <2>3, <3>1, <4>3, RunCovered
      <4>4. CASE UNCHANGED vars
        <5>1. wallet' = wallet /\ allowance' = allowance /\ job' = job
          BY <4>4 DEF vars, chainVars
        <5> QED BY <3>1, <5>1, TaskFrame
      <4> QED BY <4>1, <4>2, <4>3, <4>4 DEF Next
    <3> QED BY <2>1, <3>2 DEF Covered
  <2> QED BY <2>2, <2>3
<1>3. Shape /\ Covered => AllowancesCovered
  <2> SUFFICES ASSUME Shape, Covered, Alone PROVE /\ allowance["router"] <= wallet.wbnb
                                                  /\ allowance["npmUsdt"] <= wallet.usdt
                                                  /\ allowance["npmWbnb"] <= Total
    BY DEF Alone, AllowancesCovered
  <2>1. Purse
    BY DEF Covered
  <2>2. Total \in Nat /\ Half \in 0..Total
    BY Constants DEF Half
  <2>3. wallet.wbnb \in Nat
    BY DEF Shape
  <2>4. allowance["router"] <= wallet.wbnb
    <3>1. CASE allowance["router"] = 0
      BY <2>3, <3>1
    <3>2. CASE allowance["router"] = Half /\ Half > 0
      BY <2>1, <2>2, <3>2 DEF Purse
    <3> QED BY <2>1, <2>2, <3>1, <3>2 DEF Purse
  <2> QED BY <2>1, <2>4 DEF Purse
<1>4. Spec => []Wrapped
  BY WrapInvariant
<1> QED BY <1>1, <1>2, <1>3, <1>4, ShapeHolds, PTL DEF Spec

-----------------------------------------------------------------------------
(* What a migration leaves behind. *)

Sweeps(i) == mempool[i].tx.kind = "sweep"
Swept == swept \/ \E i \in DOMAIN mempool : Sweeps(i)
Sweeping(j) == j.at = "sweep" /\ j.phase # "run"

\* A sweep takes all but the gas of two plain transfers, and the native coin only ever gets less.
Drained ==
  /\ swept => wallet.native <= Plain
  /\ \A i \in DOMAIN mempool : Sweeps(i) => wallet.native <= mempool[i].tx.amount + 2 * Plain
  /\ Sweeping(job["script"]) => wallet.native <= job["script"].tx.amount + 2 * Plain

\* A mint of the script comes after a sweep that waits, and after one that was mined it has no gas.
Ordered ==
  /\ \A i, k \in DOMAIN mempool :
       Sweeps(i) /\ mempool[k].by = "script" /\ mempool[k].tx.kind = "mint" => i < k
  /\ job["script"].at = "mint" /\ job["script"].phase = "signed" =>
       \A i \in DOMAIN mempool : Sweeps(i) => i < job["script"].slot
  /\ Swept => /\ job["script"].at # "minted"
              /\ ~(job["script"].at = "mint" /\ job["script"].phase = "landed")

\* From the sweep on the position is the new wallet's, and so is the identity that no run missed;
\* before it, what the steps so far moved.
IdentityMoved == skipped \/ identity = "new"
Done == Token # 0 /\ positions[Token].owner = "new" /\ IdentityMoved
Coming == Swept \/ job["script"].at \in {"sweep", "verify"}
Course(j) ==
  /\ j.at = "movePosition" => /\ Token # 0 /\ j.token = Token
                              /\ j.phase = "landed" => positions[Token].owner = "new"
                              /\ Head(j.todo) = "sweep" => IdentityMoved
  /\ j.at = "moveIdentity" => /\ Token # 0 /\ positions[Token].owner = "new"
                              /\ j.phase = "landed" => IdentityMoved
Moved ==
  ~overlapped =>
    /\ Coming \/ Migrating => job["agent"].at = "idle"
    /\ Coming => Done
    /\ Course(job["script"])

\* What a block does to the native coin.
LEMMA MineSpends ==
  ASSUME Shape, Mine
  PROVE  LET tx == mempool[1].tx
         IN  /\ wallet.native \in Nat /\ wallet'.native \in Nat /\ wallet'.native <= wallet.native
             /\ \/ swept' = swept
                \/ /\ tx.kind = "sweep" /\ tx.amount \in Nat
                   /\ wallet'.native = wallet.native - tx.amount - Plain
             /\ tx.kind = "mint" => wallet.native > Plain
<1> DEFINE tx == mempool[1].tx
           by == mempool[1].by
<1>1. /\ TxOK(tx, Len(positions)) /\ Affordable(tx)
      /\ Revert(tx, by) \/ (Executes(tx) /\ Outcome(tx))
  BY MineFacts, Zenon
<1> HIDE DEF tx, by
<1>2. /\ wallet.native \in Nat /\ Cost \in Nat /\ Plain \in Nat /\ Plain < Cost /\ Fee(tx) \in Nat
      /\ Fee(tx) = IF tx.kind = "sweep" THEN Plain ELSE Cost
  BY Constants DEF Shape, Fee
<1>3. tx.kind \in {"deposit", "sweep"} => tx.amount \in Nat /\ wallet.native >= Fee(tx) + tx.amount
  BY <1>1 DEF TxOK, Affordable
<1>4. tx.kind \notin {"deposit", "sweep"} => wallet.native >= Fee(tx)
  <2>1. tx.kind \notin {"deposit", "sweep"} => wallet.native >= Fee(tx) + 0
    BY <1>1 DEF Affordable
  <2> QED BY <1>2, <2>1
<1>5. tx.kind = "mint" => wallet.native > Plain
  BY <1>2, <1>4
<1>6. /\ wallet'.native = wallet.native + 0 - Fee(tx)
         \/ (tx.kind \in {"deposit", "sweep"} /\ wallet'.native = wallet.native + (-tx.amount) - Fee(tx))
      /\ swept' = swept
         \/ (tx.kind = "sweep" /\ wallet'.native = wallet.native + (-tx.amount) - Fee(tx))
  <2>1. CASE Revert(tx, by)
    BY <2>1 DEF Revert, Charge
  <2>2. CASE Deposit(tx)
    BY <2>2 DEF Deposit, Charge
  <2>3. CASE Approve(tx)
    BY <2>3 DEF Approve, Charge
  <2>4. CASE Swap(tx)
    BY <2>4 DEF Swap, Charge
  <2>5. CASE Mint(tx)
    <3>1. Charge(tx, 0, -Taken(tx).wbnb, -Taken(tx).usdt) /\ swept' = swept
      BY <2>5 DEF Mint
    <3> QED BY <3>1 DEF Charge
  <2>6. CASE Withdraw(tx)
    <3>1. Charge(tx, 0, Value(tx.id).wbnb, Value(tx.id).usdt) /\ swept' = swept
      BY <2>6 DEF Withdraw
    <3> QED BY <3>1 DEF Charge
  <2>7. CASE Move(tx)
    BY <2>7 DEF Move, Charge
  <2>8. CASE Sweep(tx)
    BY <2>8 DEF Sweep, Charge
  <2> QED BY <1>1, <2>1, <2>2, <2>3, <2>4, <2>5, <2>6, <2>7, <2>8 DEF Outcome
<1>7. \A w, a, f \in Nat : w >= f + a => w + (-a) - f \in Nat /\ w + (-a) - f <= w
                                         /\ w + (-a) - f = w - a - f
  OBVIOUS
<1>8. \A w, f \in Nat : w >= f => w + 0 - f \in Nat /\ w + 0 - f <= w
  OBVIOUS
<1>9. wallet.native >= Fee(tx)
  <2>1. \A w, a, f \in Nat : w >= f + a => w >= f
    OBVIOUS
  <2> QED BY <1>2, <1>3, <1>4, <2>1
<1>10. wallet'.native \in Nat /\ wallet'.native <= wallet.native
  <2>1. CASE wallet'.native = wallet.native + 0 - Fee(tx)
    BY <1>2, <1>8, <1>9, <2>1
  <2>2. CASE tx.kind \in {"deposit", "sweep"} /\ wallet'.native = wallet.native + (-tx.amount) - Fee(tx)
    BY <1>2, <1>3, <1>7, <2>2
  <2> QED BY <1>6, <2>1, <2>2
<1>11. \/ swept' = swept
       \/ /\ tx.kind = "sweep" /\ tx.amount \in Nat
          /\ wallet'.native = wallet.native - tx.amount - Plain
  <2>1. CASE tx.kind = "sweep" /\ wallet'.native = wallet.native + (-tx.amount) - Fee(tx)
    <3>1. tx.amount \in Nat /\ Fee(tx) = Plain /\ wallet.native >= Plain + tx.amount
      BY <1>2, <1>3, <2>1
    <3>2. wallet'.native = wallet.native - tx.amount - Plain
      BY <1>2, <1>7, <2>1, <3>1
    <3> QED BY <2>1, <3>1, <3>2
  <2> QED BY <1>6, <2>1
<1> QED BY <1>2, <1>5, <1>10, <1>11 DEF tx

\* What a block does to the owners of the NFTs: what was moved stays so.
LEMMA MineKeeps ==
  ASSUME Shape, Mine
  PROVE  LET tx == mempool[1].tx
         IN  /\ \A id \in 1..Len(positions) :
                  positions[id].owner = "new" => positions'[id].owner = "new"
             /\ identity = "new" => identity' = "new"
             /\ mempool[1].by \in Process /\ Executes(tx) =>
                  /\ tx.kind = "move" => positions'[tx.id].owner = "new"
                  /\ tx.kind = "moveIdentity" => identity' = "new"
<1> DEFINE tx == mempool[1].tx
           by == mempool[1].by
           n == Len(positions)
<1>1. /\ TxOK(tx, n) /\ (Revert(tx, by) \/ (Executes(tx) /\ Outcome(tx)))
      /\ by \in Process /\ Executes(tx) => Outcome(tx)
  <2>1. TxOK(tx, n) /\ (Revert(tx, by) \/ (Executes(tx) /\ Outcome(tx)))
    BY MineFacts, Zenon
  <2>2. Revert(tx, by) => ~Executes(tx) \/ by = "nobody"
    BY DEF Revert, MayExpire
  <2> QED BY <2>1, <2>2 DEF Process
<1> HIDE DEF tx, by
<1>2. positions \in Seq([owner : {"old", "new"}, liquidity : Nat, band : Bands])
      /\ n \in Nat /\ DOMAIN positions = 1..n
  BY DEF Shape
<1>3. \A id \in 1..n : DOMAIN positions[id] = {"owner", "liquidity", "band"}
  <2> DEFINE R == [owner : {"old", "new"}, liquidity : Nat, band : Bands]
  <2>1. \A r \in R : DOMAIN r = {"owner", "liquidity", "band"}
    OBVIOUS
  <2> HIDE DEF R
  <2>2. positions \in Seq(R)
    BY <1>2 DEF R
  <2>3. \A id \in 1..n : positions[id] \in R
    BY <2>2, ElementOfSeq
  <2> QED BY <2>1, <2>3
<1> HIDE DEF n
<1>4. CASE positions' = positions /\ (identity' = identity \/ identity' = "new")
           /\ tx.kind # "move" /\ (tx.kind = "moveIdentity" => identity' = "new")
  BY <1>4 DEF tx, n
<1>5. CASE Revert(tx, by)
  <2>1. positions' = positions /\ identity' = identity /\ ~(Executes(tx) /\ by \in Process)
    BY <1>5 DEF Revert, MayExpire, Process
  <2> QED BY <2>1 DEF tx, by, n
<1>6. CASE Mint(tx)
  <2> DEFINE r == [owner |-> "old", liquidity |-> Minted(tx), band |-> tx.band]
  <2>1. positions' = Append(positions, r) /\ identity' = identity /\ tx.kind = "mint"
    BY <1>6 DEF Mint
  <2> HIDE DEF r
  <2>2. \A id \in 1..n : positions'[id] = positions[id]
    BY <1>2, <2>1 DEF n
  <2> QED BY <2>1, <2>2 DEF tx, n
<1>7. CASE Withdraw(tx)
  <2>1. positions' = [positions EXCEPT ![tx.id].liquidity = 0] /\ identity' = identity
        /\ tx.kind = "withdraw"
    BY <1>7 DEF Withdraw
  <2>2. \A id \in 1..n : positions'[id].owner = positions[id].owner
    BY <1>2, <1>3, <2>1 DEF n
  <2> QED BY <2>1, <2>2 DEF tx, n
<1>8. CASE Move(tx) /\ tx.kind = "move"
  <2>1. positions' = [positions EXCEPT ![tx.id].owner = "new"] /\ identity' = identity
        /\ tx.id \in 1..n
    <3>1. tx.id \in 1..n
      BY <1>1, <1>8 DEF TxOK
    <3>2. positions' = [positions EXCEPT ![tx.id].owner = "new"] /\ identity' = identity
      BY <1>8, Zenon DEF Move
    <3> QED BY <3>1, <3>2
  <2>2. \A id \in 1..n : positions'[id].owner = IF id = tx.id THEN "new" ELSE positions[id].owner
    BY <1>2, <1>3, <2>1 DEF n
  <2> QED BY <1>8, <2>1, <2>2 DEF tx, n
<1>9. CASE Move(tx) /\ tx.kind # "move"
  <2>1. positions' = positions /\ identity' = "new"
    BY <1>9 DEF Move
  <2> QED BY <1>4, <1>9, <2>1
<1>10. CASE Deposit(tx) \/ Approve(tx) \/ Swap(tx) \/ Sweep(tx)
  <2>1. positions' = positions /\ identity' = identity /\ tx.kind \notin {"move", "moveIdentity"}
    BY <1>10 DEF Deposit, Approve, Swap, Sweep
  <2> QED BY <1>4, <2>1
<1> QED BY <1>1, <1>5, <1>6, <1>7, <1>8, <1>9, <1>10 DEF Outcome

\* What a process broadcasts, and what is in the mempool then.
LEMMA BroadcastAdds ==
  ASSUME Shape, NEW p \in Process, Broadcast(p)
  PROVE  /\ \A i \in DOMAIN mempool' :
              \/ i \in DOMAIN mempool /\ mempool'[i] = mempool[i]
              \/ i = job[p].slot /\ mempool'[i].tx = job[p].tx /\ mempool'[i].by = p
         /\ job[p].tx.kind = "sweep" => p = "script" /\ job[p].at = "sweep"
         /\ job[p].tx.kind = "mint" /\ p = "script" => job[p].at = "mint"
         /\ \A i \in DOMAIN mempool : mempool[i].by # p
<1>1. /\ job[p].phase = "signed" /\ job[p].at \notin Local /\ job[p].slot \in DOMAIN mempool'
      /\ mempool'[job[p].slot] = [by |-> p, tx |-> job[p].tx]
      /\ \A i \in DOMAIN mempool' \ {job[p].slot} : i \in DOMAIN mempool /\ mempool'[i] = mempool[i]
  BY BroadcastStep
<1>2. mempool'[job[p].slot].tx = job[p].tx /\ mempool'[job[p].slot].by = p
  BY <1>1
<1>3. job[p].at \in StepsOf(p) /\ StepTx(job[p], job[p].tx)
  BY <1>1, JobFacts DEF JobOK
<1>4. /\ job[p].tx.kind = "sweep" => job[p].at = "sweep"
      /\ job[p].tx.kind = "mint" => job[p].at \in {"mint", "remint"}
      /\ job[p].at \in AgentStep => p = "agent"
      /\ job[p].at \notin AgentStep => p = "script"
  BY <1>1, <1>3, WhoSends
<1>5. \A i \in DOMAIN mempool : mempool[i].by # p
  BY <1>1, NoneSent
<1> QED BY <1>1, <1>2, <1>4, <1>5 DEF AgentStep

\* What the steps that send nothing leave alone.
LEMMA RunQuiet ==
  ASSUME Shape,
         \/ PriceMoves \/ StartMint \/ HaveUsdt \/ QuoteSwap \/ AllowedAlready \/ ReadBalances
         \/ SetToken \/ StartMigrate \/ NothingToSweep \/ Verified \/ StartPass \/ Record
  PROVE  /\ wallet' = wallet /\ positions' = positions /\ identity' = identity /\ mempool' = mempool
         /\ swept' = swept
         /\ \/ job'["script"] = job["script"]
            \/ job'["script"].phase = "run" /\ job'["script"].at # "minted"
<1> DEFINE s == job["script"]
           t == job'["script"]
           still == wallet' = wallet /\ positions' = positions /\ identity' = identity
                    /\ mempool' = mempool /\ swept' = swept
<1>1. "script" \in Process /\ "agent" \in Process /\ "script" # "agent"
  BY DEF Process
<1>2. CASE PriceMoves
  BY <1>2 DEF PriceMoves, ghostVars
<1>3. CASE StartMint
  BY <1>3, StartMintStep DEF chainVars, ghostVars
<1>4. CASE HaveUsdt
  BY <1>4, HaveUsdtStep DEF chainVars, ghostVars
<1>5. CASE QuoteSwap
  BY <1>5, QuoteStep DEF chainVars, ghostVars
<1>6. CASE ReadBalances
  BY <1>6, BalancesStep DEF chainVars, ghostVars
<1>7. CASE AllowedAlready \/ NothingToSweep
  <2>1. /\ job' = [job EXCEPT !["script"] = Advance(s)] /\ s.phase = "run"
        /\ s.at \in Spender \cup {"sweep"} /\ still
    BY <1>7 DEF AllowedAlready, NothingToSweep, Allowed, At, chainVars, ghostVars
  <2>2. NextOne("script")
    BY <1>1, <2>1, GoesOnStep DEF Spender
  <2>3. t.at = Head(s.todo) /\ t.phase = "run" /\ Follows(s.at, s.todo)
    BY <2>2 DEF NextOne
  <2>4. t.at # "minted"
    BY <2>1, <2>3, WhatFollows DEF Spender
  <2> QED BY <2>1, <2>3, <2>4
<1>8. CASE SetToken \/ Verified
  <2>1. job' = [job EXCEPT !["script"] = Idle] /\ still
    BY <1>8 DEF SetToken, Verified, chainVars, ghostVars
  <2>2. ToRest("script")
    BY <1>1, <2>1, RestStep
  <2> QED BY <2>1, <2>2 DEF ToRest
<1>9. CASE StartMigrate
  <2>1. t.phase = "run" /\ still
    BY <1>9, StartMigrateStep DEF chainVars
  <2>2. t.at \in {"movePosition", "moveIdentity", "sweep"}
    BY <1>9, StartMigrateAt
  <2> QED BY <2>1, <2>2
<1>10. CASE StartPass
  BY <1>10, StartPassStep DEF chainVars
<1>11. CASE Record
  <2>1. job' = [job EXCEPT !["agent"] = Idle] /\ still
    BY <1>11 DEF Record, chainVars, ghostVars
  <2>2. ToRest("agent")
    BY <1>1, <2>1, RestStep
  <2> QED BY <1>1, <2>1, <2>2 DEF ToRest
<1> QED BY <1>2, <1>3, <1>4, <1>5, <1>6, <1>7, <1>8, <1>9, <1>10, <1>11

\* A process that gives up leaves its transaction as it is, but nobody waits for it.
LEMMA AbortLeaves ==
  ASSUME Shape, NEW p \in Process, Abort(p)
  PROVE  /\ ToRest(p) /\ DOMAIN mempool' = DOMAIN mempool
         /\ \A i \in DOMAIN mempool : mempool'[i].tx = mempool[i].tx
                                      /\ mempool'[i].by \in {mempool[i].by, "nobody"}
         /\ UNCHANGED <<wallet, positions, identity, swept, toml, store, overlapped, skipped>>
<1>1. /\ job' = [job EXCEPT ![p] = Idle]
      /\ mempool' = [i \in DOMAIN mempool |->
                       IF mempool[i].by = p THEN [mempool[i] EXCEPT !.by = "nobody"] ELSE mempool[i]]
      /\ UNCHANGED <<wallet, positions, identity, swept, toml, store, overlapped, skipped>>
  BY DEF Abort
<1>2. ToRest(p)
  BY <1>1, RestStep
<1>3. \A i \in DOMAIN mempool : DOMAIN mempool[i] = {"by", "tx"}
  BY DEF Shape
<1>4. \A i \in DOMAIN mempool : mempool'[i].tx = mempool[i].tx
                                /\ mempool'[i].by \in {mempool[i].by, "nobody"}
  BY <1>1, <1>3
<1> QED BY <1>1, <1>2, <1>4

-----------------------------------------------------------------------------

\* The native coin when the sweeps that wait are the same or fewer.
LEMMA DrainedFrame ==
  ASSUME Shape, Shape', Drained, wallet'.native <= wallet.native,
         swept' => swept \/ wallet'.native <= Plain,
         \A i \in DOMAIN mempool' :
           \/ \E k \in DOMAIN mempool : mempool'[i].tx = mempool[k].tx
           \/ Sweeping(job["script"]) /\ mempool'[i].tx = job["script"].tx
           \/ mempool'[i].tx.kind # "sweep",
         Sweeping(job'["script"]) =>
           \/ Sweeping(job["script"]) /\ job'["script"].tx = job["script"].tx
           \/ wallet.native <= job'["script"].tx.amount + 2 * Plain
  PROVE  Drained'
<1>1. wallet.native \in Nat /\ wallet'.native \in Nat /\ Plain \in Nat
  BY Constants DEF Shape
<1>2. \A w, v, b \in Int : v <= w /\ w <= b => v <= b
  OBVIOUS
<1>3. \A a \in Nat : a + 2 * Plain \in Int
  BY <1>1
<1>4. swept' => wallet'.native <= Plain
  BY <1>1, <1>2 DEF Drained
<1>5. \A i \in DOMAIN mempool' : Sweeps(i)' => mempool'[i].tx.amount \in Nat
  BY DEF Shape, TxOK, Sweeps
<1>6. ASSUME NEW i \in DOMAIN mempool', Sweeps(i)'
      PROVE  wallet'.native <= mempool'[i].tx.amount + 2 * Plain
  <2>1. mempool'[i].tx.kind = "sweep" /\ mempool'[i].tx.amount \in Nat
    BY <1>5, <1>6 DEF Sweeps
  <2>2. wallet.native <= mempool'[i].tx.amount + 2 * Plain
    BY <2>1 DEF Drained, Sweeps
  <2> QED BY <1>1, <1>2, <1>3, <2>1, <2>2
<1>7. ASSUME Sweeping(job'["script"])
      PROVE  wallet'.native <= job'["script"].tx.amount + 2 * Plain
  <2>1. job'["script"].tx.amount \in Nat
    <3>1. JobOK(job'["script"], Len(positions'), Len(mempool'))
      BY DEF Shape, Process
    <3>2. TxOK(job'["script"].tx, Len(positions')) /\ StepTx(job'["script"], job'["script"].tx)
      BY <1>7, <3>1 DEF JobOK, Sweeping
    <3> QED BY <1>7, <3>2 DEF TxOK, StepTx, Sweeping
  <2>2. wallet.native <= job'["script"].tx.amount + 2 * Plain
    BY <1>7 DEF Drained
  <2> QED BY <1>1, <1>2, <1>3, <2>1, <2>2
<1> QED BY <1>4, <1>6, <1>7 DEF Drained

LEMMA NextDrained ==
  ASSUME Shape, Drained, [Next]_vars
  PROVE  Drained'
<1> DEFINE s == job["script"]
           t == job'["script"]
<1>1. Shape' /\ "script" \in Process /\ "agent" \in Process
  BY NextShape DEF Process
<1>2. wallet.native \in Nat /\ wallet.native <= wallet.native
  BY DEF Shape
<1>3. CASE Mine
  <2> DEFINE tx == mempool[1].tx
             by == mempool[1].by
  <2>1. /\ wallet.native \in Nat /\ wallet'.native <= wallet.native
        /\ \/ swept' = swept
           \/ /\ tx.kind = "sweep" /\ tx.amount \in Nat
              /\ wallet'.native = wallet.native - tx.amount - Plain
    BY <1>3, MineSpends
  <2>2. Len(mempool) > 0
        /\ \A i \in DOMAIN mempool' : i + 1 \in DOMAIN mempool /\ mempool'[i] = mempool[i + 1]
    BY <1>3, MineFacts
  <2>3. 1 \in DOMAIN mempool
    BY <1>1, <2>2, JobFacts
  <2>4. swept' => swept \/ wallet'.native <= Plain
    <3>1. CASE tx.kind = "sweep" /\ tx.amount \in Nat /\ wallet'.native = wallet.native - tx.amount - Plain
      <4>1. wallet.native <= tx.amount + 2 * Plain
        BY <2>3, <3>1 DEF Drained, Sweeps
      <4>2. \A w, a, q \in Nat : w <= a + 2 * q => w - a - q <= q
        OBVIOUS
      <4> QED BY <2>1, <3>1, <4>1, <4>2, Constants
    <3> QED BY <2>1, <3>1
  <2>5. Sweeping(t) => Sweeping(s) /\ t.tx = s.tx
    <3>1. CASE by = "script"
      <4>1. by \in Process
        BY <1>1, <3>1
      <4>2. s.phase = "wait" /\ s.tx = tx /\ t.at = s.at /\ t.tx = tx
        BY <1>3, <3>1, <4>1, MineSender
      <4> QED BY <4>2 DEF Sweeping
    <3>2. CASE by # "script"
      <4>1. t.at = s.at /\ t.tx = s.tx /\ t.phase = s.phase
        BY <1>1, <1>3, <3>2, MineOthers
      <4> QED BY <4>1 DEF Sweeping
    <3> QED BY <3>1, <3>2
  <2>6. \A i \in DOMAIN mempool' : \E k \in DOMAIN mempool : mempool'[i].tx = mempool[k].tx
    BY <2>2
  <2> QED BY <1>1, <2>1, <2>4, <2>5, <2>6, DrainedFrame
<1>4. ASSUME NEW p \in Process, Sign(p)
      PROVE  Drained'
  <2>1. /\ SameStep(p) /\ job'[p].tx \in Wanted(p) /\ job[p].phase = "run"
        /\ wallet' = wallet /\ mempool' = mempool /\ swept' = swept
    BY <1>4, SignStep DEF chainVars, ghostVars
  <2>2. Sweeping(t) => \/ Sweeping(s) /\ t.tx = s.tx
                       \/ wallet.native <= t.tx.amount + 2 * Plain
    <3>1. CASE p = "script"
      <4>1. SUFFICES ASSUME Sweeping(t) PROVE wallet.native <= t.tx.amount + 2 * Plain
        OBVIOUS
      <4>2. s.at = "sweep"
        BY <2>1, <3>1, <4>1 DEF SameStep, Sweeping
      <4>3. t.tx.amount = SweepAmount
        BY <2>1, <3>1, <4>2 DEF Wanted, Spender
      <4>4. \A w, q \in Nat : w <= (w - 2 * q) + 2 * q
        OBVIOUS
      <4> QED BY <1>2, <4>3, <4>4, Constants DEF SweepAmount
    <3>2. CASE p # "script"
      BY <1>1, <2>1, <3>2 DEF SameStep
    <3> QED BY <3>1, <3>2
  <2> QED BY <1>1, <1>2, <2>1, <2>2, DrainedFrame
<1>5. ASSUME NEW p \in Process, Broadcast(p)
      PROVE  Drained'
  <2>1. /\ SameStep(p) /\ job[p].phase = "signed" /\ job'[p].tx = job[p].tx
        /\ wallet' = wallet /\ swept' = swept
    BY <1>5, BroadcastStep DEF ghostVars
  <2>2. Sweeping(t) => Sweeping(s) /\ t.tx = s.tx
    BY <1>1, <2>1 DEF SameStep, Sweeping
  <2>3. \A i \in DOMAIN mempool' :
          \/ \E k \in DOMAIN mempool : mempool'[i].tx = mempool[k].tx
          \/ Sweeping(s) /\ mempool'[i].tx = s.tx
          \/ mempool'[i].tx.kind # "sweep"
    BY <1>5, <2>1, BroadcastAdds DEF Sweeping
  <2> QED BY <1>1, <1>2, <2>1, <2>2, <2>3, DrainedFrame
<1>6. ASSUME NEW p \in Process, Landed(p)
      PROVE  Drained'
  <2>1. /\ SameStep(p) \/ NextOne(p)
        /\ job'[p].phase = "run" /\ wallet' = wallet /\ mempool' = mempool /\ swept' = swept
    BY <1>6, LandedStep DEF chainVars, ghostVars
  <2>2. Sweeping(t) => Sweeping(s) /\ t.tx = s.tx
    BY <1>1, <2>1 DEF SameStep, NextOne, Sweeping
  <2> QED BY <1>1, <1>2, <2>1, <2>2, DrainedFrame
<1>7. ASSUME NEW p \in Process, Fails(p) \/ Abort(p)
      PROVE  Drained'
  <2>1. CASE Fails(p)
    <3>1. ToRest(p) /\ wallet' = wallet /\ mempool' = mempool /\ swept' = swept
      BY <2>1, RestStep DEF Fails, chainVars, ghostVars
    <3>2. Sweeping(t) => Sweeping(s) /\ t.tx = s.tx
      BY <1>1, <3>1 DEF ToRest, Sweeping
    <3> QED BY <1>1, <1>2, <3>1, <3>2, DrainedFrame
  <2>2. CASE Abort(p)
    <3>1. /\ ToRest(p) /\ wallet' = wallet /\ swept' = swept /\ DOMAIN mempool' = DOMAIN mempool
          /\ \A i \in DOMAIN mempool : mempool'[i].tx = mempool[i].tx
      BY <2>2, AbortLeaves
    <3>2. Sweeping(t) => Sweeping(s) /\ t.tx = s.tx
      BY <1>1, <3>1 DEF ToRest, Sweeping
    <3>3. \A i \in DOMAIN mempool' : \E k \in DOMAIN mempool : mempool'[i].tx = mempool[k].tx
      BY <3>1
    <3> QED BY <1>1, <1>2, <3>1, <3>2, <3>3, DrainedFrame
  <2> QED BY <1>7, <2>1, <2>2
<1>8. CASE \/ PriceMoves \/ StartMint \/ HaveUsdt \/ QuoteSwap \/ AllowedAlready \/ ReadBalances
           \/ SetToken \/ StartMigrate \/ NothingToSweep \/ Verified \/ StartPass \/ Record
  <2>1. wallet' = wallet /\ mempool' = mempool /\ swept' = swept /\ (t = s \/ t.phase = "run")
    BY <1>8, RunQuiet
  <2>2. Sweeping(t) => Sweeping(s) /\ t.tx = s.tx
    BY <2>1 DEF Sweeping
  <2> QED BY <1>1, <1>2, <2>1, <2>2, DrainedFrame
<1>9. CASE UNCHANGED vars
  <2>1. wallet' = wallet /\ mempool' = mempool /\ swept' = swept /\ job' = job
    BY <1>9 DEF vars, chainVars, ghostVars
  <2> QED BY <1>1, <1>2, <2>1, DrainedFrame
<1> QED BY <1>3, <1>4, <1>5, <1>6, <1>7, <1>8, <1>9 DEF Next

-----------------------------------------------------------------------------

\* The order of the mempool when no sweep is added and no mint of the script.
LEMMA OrderedFrame ==
  ASSUME Ordered, swept' = swept,
         \A i \in DOMAIN mempool' :
           /\ Sweeps(i)' => i \in DOMAIN mempool /\ Sweeps(i)
           /\ mempool'[i].by = "script" =>
                i \in DOMAIN mempool /\ mempool[i].by = "script" /\ mempool'[i].tx = mempool[i].tx,
         \/ job'["script"] = job["script"]
         \/ job'["script"].phase = "run" /\ job'["script"].at # "minted"
  PROVE  Ordered'
<1>1. Swept' => Swept
  BY DEF Swept
<1> QED BY <1>1 DEF Ordered, Sweeps

LEMMA MineOrdered ==
  ASSUME Shape, Drained, Ordered, Mine
  PROVE  Ordered' /\ (Swept' => Swept)
<1> DEFINE s == job["script"]
           t == job'["script"]
           tx == mempool[1].tx
           by == mempool[1].by
<1>1. /\ Len(mempool) > 0 /\ DOMAIN mempool' = 1..(Len(mempool) - 1)
      /\ \A i \in DOMAIN mempool' : i + 1 \in DOMAIN mempool /\ mempool'[i] = mempool[i + 1]
  BY MineFacts
<1>2. /\ "script" \in Process /\ Len(mempool) \in Nat /\ DOMAIN mempool = 1..Len(mempool)
      /\ 1 \in DOMAIN mempool /\ JobOK(s, Len(positions), Len(mempool))
  BY <1>1, JobFacts DEF Process
<1>3. /\ wallet.native \in Nat
      /\ swept' = swept \/ tx.kind = "sweep"
      /\ tx.kind = "mint" => wallet.native > Plain
  BY MineSpends
<1>4. Swept' => Swept
  BY <1>1, <1>2, <1>3 DEF Swept, Sweeps
<1>5. ASSUME NEW i \in DOMAIN mempool', NEW k \in DOMAIN mempool', Sweeps(i)',
             mempool'[k].by = "script", mempool'[k].tx.kind = "mint"
      PROVE  i < k
  <2>1. /\ i + 1 \in DOMAIN mempool /\ k + 1 \in DOMAIN mempool /\ Sweeps(i + 1)
        /\ mempool[k + 1].by = "script" /\ mempool[k + 1].tx.kind = "mint"
    BY <1>1, <1>5 DEF Sweeps
  <2>2. i + 1 < k + 1
    BY <2>1 DEF Ordered
  <2>3. i \in Nat /\ k \in Nat
    BY <1>1, <1>2
  <2> QED BY <2>2, <2>3
<1>6. CASE by # "script"
  <2>1. /\ t.at = s.at /\ t.phase = s.phase
        /\ t.slot = IF s.phase = "signed" /\ s.slot > 0 THEN s.slot - 1 ELSE s.slot
    BY <1>2, <1>6, MineOthers
  <2>2. s.slot \in Nat
    BY <1>2 DEF JobOK
  <2>3. ASSUME t.at = "mint", t.phase = "signed", NEW i \in DOMAIN mempool', Sweeps(i)'
        PROVE  i < t.slot
    <3>1. i + 1 \in DOMAIN mempool /\ Sweeps(i + 1) /\ i \in Nat
      BY <1>1, <1>2, <2>3 DEF Sweeps
    <3>2. i + 1 < s.slot
      BY <2>1, <2>3, <3>1 DEF Ordered
    <3> QED BY <2>1, <2>2, <2>3, <3>1, <3>2
  <2> QED BY <1>4, <1>5, <2>1, <2>3 DEF Ordered
<1>7. CASE by = "script"
  <2>1. by \in Process
    BY <1>2, <1>7
  <2>2. /\ s.phase = "wait" /\ StepTx(s, tx) /\ s.at \notin Local /\ t.at = s.at
        /\ t.phase = IF Executes(tx) THEN "landed" ELSE "reverted"
    BY <1>7, <2>1, MineSender
  <2>3. t.at # "minted" /\ t.phase # "signed"
    BY <2>2 DEF Local
  <2>4. ASSUME t.at = "mint" PROVE ~Swept'
    <3>1. tx.kind = "mint"
      BY <2>2, <2>4 DEF StepTx
    <3>2. swept' = swept /\ ~swept
      <4>1. swept' = swept /\ wallet.native > Plain
        BY <1>3, <3>1
      <4>2. swept => wallet.native <= Plain
        BY DEF Drained
      <4> QED BY <1>3, <4>1, <4>2, Constants
    <3>3. \A i \in DOMAIN mempool : ~Sweeps(i)
      <4>1. \A i \in DOMAIN mempool : Sweeps(i) => i < 1
        BY <1>2, <1>7, <3>1 DEF Ordered
      <4> QED BY <1>2, <4>1
    <3> QED BY <1>1, <3>2, <3>3 DEF Swept, Sweeps
  <2> QED BY <1>4, <1>5, <2>3, <2>4 DEF Ordered
<1> QED BY <1>4, <1>6, <1>7

LEMMA NextOrdered ==
  ASSUME Shape, Drained, Ordered, [Next]_vars
  PROVE  Ordered'
<1> DEFINE s == job["script"]
           t == job'["script"]
<1>1. "script" \in Process /\ "agent" \in Process /\ "script" # "agent"
      /\ DOMAIN mempool = 1..Len(mempool) /\ Len(mempool) \in Nat
  BY JobFacts DEF Process
<1>2. CASE Mine
  BY <1>2, MineOrdered
<1>3. ASSUME NEW p \in Process, Sign(p)
      PROVE  Ordered'
  <2>1. /\ SameStep(p) /\ job[p].at \notin Local
        /\ job'[p].phase = "signed" /\ job'[p].slot = Len(mempool) + 1
        /\ mempool' = mempool /\ swept' = swept
    BY <1>3, SignStep DEF chainVars, ghostVars
  <2>2. CASE p = "script"
    <3>1. t.at # "minted" /\ t.phase = "signed" /\ t.slot = Len(mempool) + 1
      BY <2>1, <2>2 DEF SameStep, Local
    <3>2. \A i \in DOMAIN mempool : i < Len(mempool) + 1
      BY <1>1
    <3> QED BY <2>1, <3>1, <3>2 DEF Ordered, Sweeps, Swept
  <2>3. CASE p # "script"
    <3>1. t = s
      BY <1>1, <2>1, <2>3 DEF SameStep
    <3> QED BY <2>1, <3>1, OrderedFrame DEF Sweeps
  <2> QED BY <2>2, <2>3
<1>4. ASSUME NEW p \in Process, Broadcast(p)
      PROVE  Ordered'
  <2>1. /\ SameStep(p) /\ job[p].phase = "signed" /\ job'[p].phase = "wait" /\ job[p].at \notin Local
        /\ swept' = swept
    BY <1>4, BroadcastStep DEF ghostVars
  <2>2. /\ \A i \in DOMAIN mempool' :
              \/ i \in DOMAIN mempool /\ mempool'[i] = mempool[i]
              \/ i = job[p].slot /\ mempool'[i].tx = job[p].tx /\ mempool'[i].by = p
        /\ job[p].tx.kind = "sweep" => p = "script" /\ job[p].at = "sweep"
        /\ job[p].tx.kind = "mint" /\ p = "script" => job[p].at = "mint"
        /\ \A i \in DOMAIN mempool : mempool[i].by # p
    BY <1>4, BroadcastAdds
  <2>3. CASE p = "script"
    <3>1. t.at = s.at /\ t.phase = "wait" /\ t.at # "minted" /\ s.phase = "signed"
      BY <2>1, <2>3 DEF SameStep, Local
    <3>2. ASSUME NEW i \in DOMAIN mempool', NEW k \in DOMAIN mempool', Sweeps(i)',
                 mempool'[k].by = "script", mempool'[k].tx.kind = "mint"
          PROVE  i < k
      <4>1. k = s.slot /\ s.tx.kind = "mint" /\ s.at = "mint"
        BY <2>2, <2>3, <3>2
      <4>2. i \in DOMAIN mempool /\ Sweeps(i)
        BY <2>2, <2>3, <3>2, <4>1 DEF Sweeps
      <4> QED BY <3>1, <4>1, <4>2 DEF Ordered
    <3> QED BY <3>1, <3>2 DEF Ordered
  <2>4. CASE p # "script"
    <3>1. t = s
      BY <1>1, <2>1, <2>4 DEF SameStep
    <3>2. \A i \in DOMAIN mempool' :
            /\ Sweeps(i)' => i \in DOMAIN mempool /\ Sweeps(i)
            /\ mempool'[i].by = "script" =>
                 i \in DOMAIN mempool /\ mempool[i].by = "script" /\ mempool'[i].tx = mempool[i].tx
      BY <2>2, <2>4 DEF Sweeps
    <3> QED BY <2>1, <3>1, <3>2, OrderedFrame
  <2> QED BY <2>3, <2>4
<1>5. ASSUME NEW p \in Process, Landed(p)
      PROVE  Ordered'
  <2>1. /\ job[p].phase = "landed" /\ job[p].at \notin Local /\ job'[p].phase = "run"
        /\ SameStep(p) \/ NextOne(p)
        /\ mempool' = mempool /\ swept' = swept
    BY <1>5, LandedStep DEF chainVars, ghostVars
  <2>2. CASE p = "script"
    <3>1. t.at = "minted" => s.at = "mint"
      <4>1. CASE SameStep(p)
        BY <2>1, <2>2, <4>1 DEF SameStep, Local
      <4>2. CASE NextOne(p)
        <5>1. t.at = Head(s.todo) /\ Follows(s.at, s.todo) /\ s.at \in StepsOf("script")
          BY <1>1, <2>2, <4>2, JobFacts DEF NextOne
        <5> QED BY <2>1, <2>2, <5>1, WhatFollows DEF StepsOf, MintStep, MigrateStep, Local
      <4> QED BY <2>1, <4>1, <4>2
    <3>2. Swept' = Swept /\ t.phase = "run" /\ s.phase = "landed"
      BY <2>1, <2>2 DEF Swept, Sweeps
    <3> QED BY <2>1, <3>1, <3>2 DEF Ordered, Sweeps
  <2>3. CASE p # "script"
    <3>1. t = s
      BY <1>1, <2>1, <2>3 DEF SameStep, NextOne
    <3> QED BY <2>1, <3>1, OrderedFrame DEF Sweeps
  <2> QED BY <2>2, <2>3
<1>6. ASSUME NEW p \in Process, Fails(p)
      PROVE  Ordered'
  <2>1. ToRest(p) /\ mempool' = mempool /\ swept' = swept
    BY <1>6, RestStep DEF Fails, chainVars, ghostVars
  <2>2. t = s \/ (t.phase = "run" /\ t.at # "minted")
    BY <1>1, <2>1 DEF ToRest
  <2> QED BY <2>1, <2>2, OrderedFrame DEF Sweeps
<1>7. ASSUME NEW p \in Process, Abort(p)
      PROVE  Ordered'
  <2>1. /\ ToRest(p) /\ DOMAIN mempool' = DOMAIN mempool /\ swept' = swept
        /\ \A i \in DOMAIN mempool : mempool'[i].tx = mempool[i].tx
                                     /\ mempool'[i].by \in {mempool[i].by, "nobody"}
    BY <1>7, AbortLeaves
  <2>2. t = s \/ (t.phase = "run" /\ t.at # "minted")
    BY <1>1, <2>1 DEF ToRest
  <2>3. \A i \in DOMAIN mempool' :
          /\ Sweeps(i)' => i \in DOMAIN mempool /\ Sweeps(i)
          /\ mempool'[i].by = "script" =>
               i \in DOMAIN mempool /\ mempool[i].by = "script" /\ mempool'[i].tx = mempool[i].tx
    BY <2>1 DEF Sweeps
  <2> QED BY <2>1, <2>2, <2>3, OrderedFrame
<1>8. CASE \/ PriceMoves \/ StartMint \/ HaveUsdt \/ QuoteSwap \/ AllowedAlready \/ ReadBalances
           \/ SetToken \/ StartMigrate \/ NothingToSweep \/ Verified \/ StartPass \/ Record
  <2>1. mempool' = mempool /\ swept' = swept /\ (t = s \/ (t.phase = "run" /\ t.at # "minted"))
    BY <1>8, RunQuiet
  <2> QED BY <2>1, OrderedFrame DEF Sweeps
<1>9. CASE UNCHANGED vars
  <2>1. mempool' = mempool /\ swept' = swept /\ job' = job
    BY <1>9 DEF vars, chainVars, ghostVars
  <2> QED BY <2>1, OrderedFrame DEF Sweeps
<1> QED BY <1>2, <1>3, <1>4, <1>5, <1>6, <1>7, <1>8, <1>9 DEF Next

-----------------------------------------------------------------------------

\* A step that adds no sweep and takes the migration no further.
LEMMA MovedFrame ==
  ASSUME Moved, UNCHANGED <<toml, store, overlapped>>,
         Token # 0 /\ positions[Token].owner = "new" => positions'[Token].owner = "new",
         skipped' = skipped, identity = "new" => identity' = "new",
         Swept' => Coming,
         job'["agent"].at \in {job["agent"].at, "idle"},
         \/ job'["script"].at \notin MigrateStep
         \/ /\ job'["script"].at = job["script"].at /\ job'["script"].todo = job["script"].todo
            /\ job'["script"].token = job["script"].token
            /\ job'["script"].phase = "landed" /\ job["script"].phase # "landed" =>
                 /\ job["script"].at = "movePosition" => positions'[job["script"].token].owner = "new"
                 /\ job["script"].at = "moveIdentity" => identity' = "new"
  PROVE  Moved'
<1> DEFINE s == job["script"]
           t == job'["script"]
<1>1. SUFFICES ASSUME ~overlapped PROVE Moved'
  BY DEF Moved
<1>2. /\ Coming \/ Migrating => job["agent"].at = "idle"
      /\ Coming => Done
      /\ Course(s)
  BY <1>1 DEF Moved
<1>3. Done => Done'
  BY DEF Done, IdentityMoved, Token
<1>4. CASE t.at \notin MigrateStep
  <2>1. Coming' => Coming
    BY <1>4 DEF Coming, MigrateStep
  <2>2. ~Migrating' /\ Course(s)'
    BY <1>4 DEF Migrating, Course, MigrateStep, IdentityMoved, Token
  <2> QED BY <1>2, <1>3, <2>1, <2>2 DEF Moved
<1>5. CASE /\ t.at = s.at /\ t.todo = s.todo /\ t.token = s.token
           /\ t.phase = "landed" /\ s.phase # "landed" =>
                 /\ s.at = "movePosition" => positions'[s.token].owner = "new"
                 /\ s.at = "moveIdentity" => identity' = "new"
  <2>1. (Coming' => Coming) /\ (Migrating' => Migrating)
    BY <1>5 DEF Coming, Migrating
  <2>2. Course(s)'
    BY <1>2, <1>5 DEF Course, IdentityMoved, Token
  <2> QED BY <1>2, <1>3, <2>1, <2>2 DEF Moved
<1> QED BY <1>4, <1>5

LEMMA MineMoved ==
  ASSUME Shape, Drained, Ordered, Moved, Mine
  PROVE  Moved'
<1> DEFINE s == job["script"]
           t == job'["script"]
           a == job["agent"]
           b == job'["agent"]
           tx == mempool[1].tx
           by == mempool[1].by
<1>1. "script" \in Process /\ "agent" \in Process /\ {toml, store} \subseteq 0..Len(positions)
      /\ Len(positions) \in Nat
  BY DEF Process, Shape
<1>2. Swept' => Coming
  BY MineOrdered DEF Coming
<1>3. UNCHANGED <<toml, store, overlapped, skipped>>
  BY MineFacts
<1>4. /\ \A id \in 1..Len(positions) : positions[id].owner = "new" => positions'[id].owner = "new"
      /\ identity = "new" => identity' = "new"
      /\ by \in Process /\ Executes(tx) =>
           /\ tx.kind = "move" => positions'[tx.id].owner = "new"
           /\ tx.kind = "moveIdentity" => identity' = "new"
  BY MineKeeps
<1>5. Token # 0 /\ positions[Token].owner = "new" => positions'[Token].owner = "new"
  <2>1. Token \in 0..Len(positions)
    BY <1>1 DEF Token
  <2> QED BY <1>1, <1>4, <2>1
<1>6. b.at = a.at
  <2>1. CASE by = "agent"
    <3>1. by \in Process
      BY <1>1, <2>1
    <3> QED BY <2>1, <3>1, MineSender
  <2>2. CASE by # "agent"
    BY <1>1, <2>2, MineOthers
  <2> QED BY <2>1, <2>2
<1>7. \/ t.at \notin MigrateStep
      \/ /\ t.at = s.at /\ t.todo = s.todo /\ t.token = s.token
         /\ t.phase = "landed" /\ s.phase # "landed" =>
              /\ s.at = "movePosition" => positions'[s.token].owner = "new"
              /\ s.at = "moveIdentity" => identity' = "new"
  <2>1. CASE by = "script"
    <3>1. by \in Process
      BY <1>1, <2>1
    <3>2. /\ StepTx(s, tx) /\ t.at = s.at /\ t.todo = s.todo
          /\ tx.kind # "mint" => t.token = s.token
          /\ t.phase = IF Executes(tx) THEN "landed" ELSE "reverted"
      BY <2>1, <3>1, MineSender
    <3>3. CASE t.at \in {"movePosition", "moveIdentity", "sweep"}
      <4>1. /\ tx.kind # "mint"
            /\ s.at = "movePosition" => tx.kind = "move" /\ tx.id = s.token
            /\ s.at = "moveIdentity" => tx.kind = "moveIdentity"
        BY <3>2, <3>3 DEF StepTx
      <4>2. t.phase = "landed" => Executes(tx)
        BY <3>2
      <4> QED BY <1>4, <3>1, <3>2, <4>1, <4>2
    <3>4. s.at \notin Local
      BY <2>1, <3>1, MineSender
    <3> QED BY <3>2, <3>3, <3>4 DEF MigrateStep, Local
  <2>2. CASE by # "script"
    BY <1>1, <2>2, MineOthers
  <2> QED BY <2>1, <2>2
<1> HIDE DEF s, t, a, b
<1> QED BY <1>2, <1>3, <1>4, <1>5, <1>6, <1>7, MovedFrame DEF s, t, a, b

LEMMA SendMoved ==
  ASSUME Shape, Moved, NEW p \in Process, Sign(p) \/ Broadcast(p) \/ Landed(p) \/ Fails(p) \/ Abort(p)
  PROVE  Moved'
<1> DEFINE s == job["script"]
           t == job'["script"]
<1>1. /\ "script" \in Process /\ "agent" \in Process /\ "script" # "agent"
      /\ Process = {"script", "agent"}
  BY DEF Process
<1>2. CASE Sign(p)
  <2>1. /\ SameStep(p) /\ job'[p].phase = "signed"
        /\ UNCHANGED <<toml, store, overlapped, skipped>> /\ positions' = positions
        /\ identity' = identity /\ mempool' = mempool /\ swept' = swept
    BY <1>2, SignStep DEF chainVars, ghostVars
  <2>2. /\ job'["agent"].at = job["agent"].at
        /\ t.at = s.at /\ t.todo = s.todo /\ t.token = s.token /\ (t.phase # "landed" \/ t = s)
    BY <1>1, <2>1 DEF SameStep
  <2>3. Swept' => Coming
    BY <2>1 DEF Swept, Sweeps, Coming
  <2> QED BY <2>1, <2>2, <2>3, MovedFrame
<1>3. CASE Broadcast(p)
  <2>1. /\ SameStep(p) /\ job'[p].phase = "wait"
        /\ UNCHANGED <<toml, store, overlapped, skipped>> /\ positions' = positions
        /\ identity' = identity /\ swept' = swept
    BY <1>3, BroadcastStep DEF ghostVars
  <2>2. /\ job'["agent"].at = job["agent"].at
        /\ t.at = s.at /\ t.todo = s.todo /\ t.token = s.token /\ (t.phase # "landed" \/ t = s)
    BY <1>1, <2>1 DEF SameStep
  <2>3. Swept' => Coming
    BY <1>3, <2>1, BroadcastAdds DEF Swept, Sweeps, Coming
  <2> QED BY <2>1, <2>2, <2>3, MovedFrame
<1>4. CASE Landed(p) /\ p = "agent"
  <2>1. /\ job["agent"].at \notin Local /\ (SameStep("agent") \/ NextOne("agent"))
    BY <1>4, LandedStep
  <2>2. t = s /\ job["agent"].at # "idle"
    BY <1>1, <1>4, <2>1, LandedStep DEF SameStep, NextOne, Local
  <2>3. UNCHANGED <<toml, store, overlapped, skipped>> /\ positions' = positions
        /\ identity' = identity /\ mempool' = mempool /\ swept' = swept
    BY <1>4, LandedStep DEF chainVars, ghostVars
  <2>4. Coming' = Coming /\ Migrating' = Migrating /\ Course(s)' = Course(s)
    BY <2>2, <2>3 DEF Coming, Migrating, Swept, Sweeps, Course, IdentityMoved, Token
  <2> QED BY <2>2, <2>3, <2>4 DEF Moved
<1>5. CASE Landed(p) /\ p = "script"
  <2>1. /\ s.phase = "landed" /\ s.at \notin Local /\ t.phase = "run"
        /\ (SameStep("script") /\ s.tx.kind = "approve") \/ NextOne("script")
        /\ UNCHANGED <<toml, store, overlapped, skipped>> /\ positions' = positions
        /\ identity' = identity /\ mempool' = mempool /\ swept' = swept
    BY <1>5, LandedStep DEF chainVars, ghostVars
  <2>2. job'["agent"] = job["agent"]
    BY <1>1, <2>1 DEF SameStep, NextOne
  <2>3. Swept' = Swept
    BY <2>1 DEF Swept, Sweeps
  <2>4. Swept' => Coming
    BY <2>3 DEF Coming
  <2>5. CASE SameStep("script")
    <3>1. t.at = s.at /\ t.todo = s.todo /\ t.token = s.token
      BY <2>5 DEF SameStep
    <3> QED BY <2>1, <2>2, <2>4, <3>1, MovedFrame
  <2>6. CASE NextOne("script")
    <3>1. t.at = Head(s.todo) /\ t.todo = Tail(s.todo) /\ t.token = s.token
          /\ Follows(s.at, s.todo) /\ s.at \in StepsOf("script")
      BY <1>1, <2>6, JobFacts DEF NextOne
    <3>2. CASE s.at \in MintStep
      <4>1. t.at \notin MigrateStep
        BY <2>1, <3>1, <3>2, WhatFollows DEF MintStep, MigrateStep, Local
      <4> QED BY <2>1, <2>2, <2>4, <4>1, MovedFrame
    <3>3. CASE s.at = "movePosition"
      <4>1. t.at \in {"moveIdentity", "sweep"} /\ t.at = Head(s.todo)
        BY <3>1, <3>3, WhatFollows
      <4>2. SUFFICES ASSUME ~overlapped PROVE Moved'
        BY <2>1 DEF Moved
      <4>3. Course(s) /\ job["agent"].at = "idle"
        BY <3>3, <4>2 DEF Moved, Migrating
      <4>4. Token # 0 /\ positions[Token].owner = "new" /\ (t.at = "sweep" => IdentityMoved)
        BY <2>1, <3>3, <4>1, <4>3 DEF Course, IdentityMoved, Token
      <4>5. Course(s)'
        BY <2>1, <4>1, <4>4 DEF Course, IdentityMoved, Token
      <4>6. Coming' => Done'
        <5>1. CASE t.at = "sweep"
          BY <2>1, <4>4, <5>1 DEF Done, IdentityMoved, Token
        <5>2. CASE t.at = "moveIdentity"
          <6>1. Coming' => Swept
            BY <2>3, <5>2 DEF Coming
          <6>2. Swept => Done
            BY <4>2 DEF Moved, Coming
          <6> QED BY <2>1, <6>1, <6>2 DEF Done, IdentityMoved, Token
        <5> QED BY <4>1, <5>1, <5>2
      <4> QED BY <2>2, <4>3, <4>5, <4>6 DEF Moved
    <3>4. CASE s.at = "moveIdentity"
      <4>1. t.at = "sweep"
        BY <3>1, <3>4, WhatFollows
      <4>2. SUFFICES ASSUME ~overlapped PROVE Moved'
        BY <2>1 DEF Moved
      <4>3. Course(s) /\ job["agent"].at = "idle"
        BY <3>4, <4>2 DEF Moved, Migrating
      <4>4. Done'
        BY <2>1, <3>4, <4>3 DEF Course, Done, IdentityMoved, Token
      <4>5. Course(s)'
        BY <4>1 DEF Course, IdentityMoved, Token
      <4> QED BY <2>2, <4>3, <4>4, <4>5 DEF Moved
    <3>5. CASE s.at = "sweep"
      <4>1. t.at = "verify"
        BY <3>1, <3>5, WhatFollows
      <4>2. SUFFICES ASSUME ~overlapped PROVE Moved'
        BY <2>1 DEF Moved
      <4>3. Done /\ job["agent"].at = "idle"
        BY <3>5, <4>2 DEF Moved, Coming
      <4>4. Done' /\ Course(s)'
        BY <2>1, <4>1, <4>3 DEF Done, Course, IdentityMoved, Token
      <4> QED BY <2>2, <4>3, <4>4 DEF Moved
    <3> QED BY <2>1, <3>1, <3>2, <3>3, <3>4, <3>5 DEF StepsOf, MigrateStep, Local
  <2> QED BY <2>1, <2>5, <2>6
<1>6. CASE Fails(p)
  <2>1. ToRest(p) /\ positions' = positions /\ identity' = identity /\ mempool' = mempool
        /\ UNCHANGED <<toml, store, overlapped, skipped>> /\ swept' = swept
    BY <1>6, RestStep DEF Fails, chainVars, ghostVars
  <2>2. (t = s \/ t.at = "idle") /\ job'["agent"].at \in {job["agent"].at, "idle"}
    BY <1>1, <2>1 DEF ToRest
  <2>3. Swept' => Coming
    BY <2>1 DEF Swept, Sweeps, Coming
  <2> QED BY <2>1, <2>2, <2>3, MovedFrame DEF MigrateStep
<1>7. CASE Abort(p)
  <2>1. /\ ToRest(p) /\ positions' = positions /\ identity' = identity
        /\ UNCHANGED <<toml, store, overlapped, skipped>> /\ swept' = swept
        /\ DOMAIN mempool' = DOMAIN mempool
        /\ \A i \in DOMAIN mempool : mempool'[i].tx = mempool[i].tx
    BY <1>7, AbortLeaves
  <2>2. (t = s \/ t.at = "idle") /\ job'["agent"].at \in {job["agent"].at, "idle"}
    BY <1>1, <2>1 DEF ToRest
  <2>3. Swept' => Coming
    BY <2>1 DEF Swept, Sweeps, Coming
  <2> QED BY <2>1, <2>2, <2>3, MovedFrame DEF MigrateStep
<1> QED BY <1>1, <1>2, <1>3, <1>4, <1>5, <1>6, <1>7

LEMMA StartMoved ==
  ASSUME Shape, Moved, StartMigrate
  PROVE  Moved'
<1> DEFINE s == job["script"]
           t == job'["script"]
<1>1. PICK resolved \in BOOLEAN :
        /\ t.at = Head(MigrateSteps(resolved)) /\ t.todo = Tail(MigrateSteps(resolved))
        /\ skipped' = (skipped \/ ~resolved)
  BY StartMigrateStep
<1>2. /\ t.token = Token /\ Token # 0 /\ Token' = Token
      /\ t.phase = "run" /\ job'["agent"] = job["agent"]
      /\ positions' = positions /\ identity' = identity /\ mempool' = mempool /\ swept' = swept
      /\ overlapped' = (overlapped \/ job["agent"].at # "idle")
  BY StartMigrateStep DEF chainVars, Token
<1>3. SUFFICES ASSUME ~overlapped, job["agent"].at = "idle" PROVE Moved'
  BY <1>2 DEF Moved
<1>4. positions[Token].owner \in {"old", "new"} /\ identity \in {"old", "new"}
  <2> DEFINE R == [owner : {"old", "new"}, liquidity : Nat, band : Bands]
  <2>1. \A r \in R : r.owner \in {"old", "new"}
    OBVIOUS
  <2> HIDE DEF R
  <2>2. positions \in Seq(R) /\ Token \in 0..Len(positions) /\ Len(positions) \in Nat
    BY DEF Shape, R, Token
  <2>3. positions[Token] \in R
    BY <1>2, <2>2, ElementOfSeq
  <2> QED BY <2>1, <2>3 DEF Shape
<1>5. ~(resolved /\ identity = "old") => IdentityMoved'
  BY <1>1, <1>2, <1>4 DEF IdentityMoved
<1>6. \/ t.at = "movePosition" /\ (Head(t.todo) = "sweep" => IdentityMoved')
      \/ t.at = "moveIdentity" /\ positions[Token].owner = "new"
      \/ t.at = "sweep" /\ positions[Token].owner = "new" /\ IdentityMoved'
  <2>1. CASE positions[Token].owner = "old" /\ (resolved /\ identity = "old")
    <3>1. MigrateSteps(resolved) = <<"movePosition", "moveIdentity", "sweep", "verify">>
      BY <2>1, MigrateStepsAre
    <3>2. t.at = "movePosition" /\ Head(t.todo) = "moveIdentity"
      BY <1>1, <3>1
    <3> QED BY <3>2
  <2>2. CASE positions[Token].owner = "old" /\ ~(resolved /\ identity = "old")
    <3>1. MigrateSteps(resolved) = <<"movePosition", "sweep", "verify">>
      BY <2>2, MigrateStepsAre
    <3>2. t.at = "movePosition"
      BY <1>1, <3>1
    <3> QED BY <1>5, <2>2, <3>2
  <2>3. CASE positions[Token].owner = "new" /\ (resolved /\ identity = "old")
    <3>1. MigrateSteps(resolved) = <<"moveIdentity", "sweep", "verify">>
      BY <2>3, MigrateStepsAre
    <3>2. t.at = "moveIdentity"
      BY <1>1, <3>1
    <3> QED BY <2>3, <3>2
  <2>4. CASE positions[Token].owner = "new" /\ ~(resolved /\ identity = "old")
    <3>1. MigrateSteps(resolved) = <<"sweep", "verify">>
      BY <2>4, MigrateStepsAre
    <3>2. t.at = "sweep"
      BY <1>1, <3>1
    <3> QED BY <1>5, <2>4, <3>2
  <2> QED BY <1>4, <2>1, <2>2, <2>3, <2>4
<1>7. Swept' = Swept
  BY <1>2 DEF Swept, Sweeps
<1>8. Course(s)'
  BY <1>2, <1>6 DEF Course
<1>9. Coming' => Done'
  <2>1. CASE t.at = "sweep"
    BY <1>2, <1>6, <2>1 DEF Done
  <2>2. CASE t.at # "sweep"
    <3>1. Coming' => Swept
      BY <1>6, <1>7, <2>2 DEF Coming
    <3>2. Swept => Done
      BY <1>3 DEF Moved, Coming
    <3>3. IdentityMoved => IdentityMoved'
      BY <1>1, <1>2 DEF IdentityMoved
    <3> QED BY <1>2, <3>1, <3>2, <3>3 DEF Done
  <2> QED BY <2>1, <2>2
<1> QED BY <1>2, <1>3, <1>8, <1>9 DEF Moved

LEMMA RunMoved ==
  ASSUME Shape, Ordered, Moved,
         \/ PriceMoves \/ StartMint \/ HaveUsdt \/ QuoteSwap \/ AllowedAlready \/ ReadBalances
         \/ SetToken \/ StartMigrate \/ NothingToSweep \/ Verified \/ StartPass \/ Record
  PROVE  Moved'
<1> DEFINE s == job["script"]
           t == job'["script"]
<1>1. "script" \in Process /\ "agent" \in Process /\ "script" # "agent"
  BY DEF Process
<1>2. positions' = positions /\ identity' = identity /\ mempool' = mempool /\ swept' = swept
  BY RunQuiet
<1>3. Swept' = Swept /\ (Swept' => Coming)
  BY <1>2 DEF Swept, Sweeps, Coming
<1>4. CASE PriceMoves
  <2>1. job' = job /\ UNCHANGED <<toml, store, overlapped, skipped>>
    BY <1>4 DEF PriceMoves, ghostVars
  <2> QED BY <1>2, <1>3, <2>1, MovedFrame
<1>5. CASE StartMint \/ HaveUsdt \/ QuoteSwap \/ ReadBalances
  <2>1. /\ t.at \in {"wrap", "usdt", "balances", "router", "npmUsdt"}
        /\ job'["agent"] = job["agent"] /\ UNCHANGED <<toml, store, overlapped, skipped>>
    <3>1. CASE StartMint
      BY <3>1, StartMintStep DEF ghostVars
    <3>2. CASE HaveUsdt
      BY <3>2, HaveUsdtStep DEF ghostVars
    <3>3. CASE QuoteSwap
      BY <3>3, QuoteStep DEF ghostVars
    <3>4. CASE ReadBalances
      BY <3>4, BalancesStep DEF ghostVars
    <3> QED BY <1>5, <3>1, <3>2, <3>3, <3>4
  <2>2. t.at \notin MigrateStep
    BY <2>1 DEF MigrateStep
  <2> QED BY <1>2, <1>3, <2>1, <2>2, MovedFrame
<1>6. CASE AllowedAlready
  <2>1. /\ job' = [job EXCEPT !["script"] = Advance(s)] /\ s.phase = "run" /\ s.at \in Spender
        /\ UNCHANGED <<toml, store, overlapped, skipped>>
    BY <1>6 DEF AllowedAlready, Allowed, ghostVars
  <2>2. NextOne("script")
    BY <1>1, <2>1, GoesOnStep DEF Spender
  <2>3. t.at = Head(s.todo) /\ Follows(s.at, s.todo) /\ job'["agent"] = job["agent"]
    BY <1>1, <2>2 DEF NextOne
  <2>4. t.at \notin MigrateStep
    BY <2>1, <2>3, WhatFollows DEF Spender, MigrateStep
  <2> QED BY <1>2, <1>3, <2>1, <2>3, <2>4, MovedFrame
<1>7. CASE NothingToSweep
  <2>1. /\ job' = [job EXCEPT !["script"] = Advance(s)] /\ s.phase = "run" /\ s.at = "sweep"
        /\ UNCHANGED <<toml, store, overlapped, skipped>>
    BY <1>7 DEF NothingToSweep, At, ghostVars
  <2>2. NextOne("script")
    BY <1>1, <2>1, GoesOnStep
  <2>3. t.at = Head(s.todo) /\ Follows(s.at, s.todo) /\ job'["agent"] = job["agent"]
    BY <1>1, <2>2 DEF NextOne
  <2>4. t.at = "verify"
    BY <2>1, <2>3, WhatFollows
  <2>5. SUFFICES ASSUME ~overlapped PROVE Moved'
    BY <2>1 DEF Moved
  <2>6. Done /\ job["agent"].at = "idle"
    BY <2>1, <2>5 DEF Moved, Coming
  <2>7. Done' /\ Course(s)'
    BY <1>2, <2>1, <2>4, <2>6 DEF Done, Course, IdentityMoved, Token
  <2> QED BY <2>3, <2>6, <2>7 DEF Moved
<1>8. CASE SetToken
  <2>1. s.at = "minted" /\ job' = [job EXCEPT !["script"] = Idle]
    BY <1>8 DEF SetToken, At
  <2>2. ToRest("script")
    BY <1>1, <2>1, RestStep
  <2>3. ~Swept'
    BY <1>3, <2>1 DEF Ordered
  <2>4. ~Coming' /\ ~Migrating' /\ Course(s)'
    BY <2>2, <2>3 DEF ToRest, Coming, Migrating, Course, IdentityMoved, Token
  <2> QED BY <2>4 DEF Moved
<1>9. CASE Verified
  <2>1. job' = [job EXCEPT !["script"] = Idle] /\ UNCHANGED <<toml, store, overlapped, skipped>>
    BY <1>9 DEF Verified, ghostVars
  <2>2. t.at = "idle" /\ job'["agent"] = job["agent"]
    BY <1>1, <2>1, RestStep DEF ToRest
  <2> QED BY <1>2, <1>3, <2>1, <2>2, MovedFrame DEF MigrateStep
<1>10. CASE StartMigrate
  BY <1>10, StartMoved
<1>11. CASE StartPass
  <2>1. /\ t = s /\ UNCHANGED <<toml, store>> /\ positions[Token].owner = "old"
        /\ overlapped' = (overlapped \/ Migrating)
    BY <1>11, StartPassStep
  <2>2. SUFFICES ASSUME ~overlapped, ~Migrating PROVE Moved'
    BY <2>1 DEF Moved
  <2>3. ~Coming
    BY <2>1, <2>2 DEF Moved, Done, IdentityMoved, Token
  <2>4. ~Coming' /\ ~Migrating'
    BY <1>3, <2>1, <2>2, <2>3 DEF Coming, Migrating
  <2>5. Course(s)'
    BY <2>4 DEF Course, Migrating, IdentityMoved, Token
  <2> QED BY <2>4, <2>5 DEF Moved
<1>12. CASE Record
  <2>1. job' = [job EXCEPT !["agent"] = Idle] /\ job["agent"].at = "record"
        /\ UNCHANGED <<overlapped, skipped>>
    BY <1>12 DEF Record, At, ghostVars
  <2>2. t = s
    BY <1>1, <2>1, RestStep DEF ToRest
  <2>3. SUFFICES ASSUME ~overlapped PROVE Moved'
    BY <2>1 DEF Moved
  <2>4. ~Coming /\ ~Migrating
    BY <2>1, <2>3 DEF Moved
  <2>5. ~Coming' /\ ~Migrating'
    BY <1>3, <2>2, <2>4 DEF Coming, Migrating
  <2>6. Course(s)'
    BY <2>5 DEF Course, Migrating, IdentityMoved, Token
  <2> QED BY <2>5, <2>6 DEF Moved
<1> QED BY <1>4, <1>5, <1>6, <1>7, <1>8, <1>9, <1>10, <1>11, <1>12

\* Once the native coin is swept, the position that the agent manages is the new wallet's, and so
\* is the identity unless a run of the script did not find it: however often the scripts failed and
\* were run again before, and whatever they left in the mempool; but for a pass of the agent during
\* the migration.
THEOREM SweepComesLast == Spec => []SweptLast
<1>1. Init => Drained /\ Ordered /\ Moved
  <2> SUFFICES ASSUME Init PROVE Drained /\ Ordered /\ Moved
    OBVIOUS
  <2>1. DOMAIN mempool = {} /\ swept = FALSE /\ job["script"].at = "idle"
        /\ job["agent"].at = "idle"
    BY DEF Init, Idle, Process
  <2>2. ~Swept
    BY <2>1 DEF Swept
  <2> QED BY <2>1, <2>2 DEF Drained, Ordered, Moved, Coming, Migrating, Course, Sweeping, IdentityMoved, Token
<1>2. Shape /\ Drained /\ Ordered /\ Moved /\ [Next]_vars => Drained' /\ Ordered' /\ Moved'
  <2> SUFFICES ASSUME Shape, Drained, Ordered, Moved, [Next]_vars
               PROVE  Drained' /\ Ordered' /\ Moved'
    OBVIOUS
  <2>1. Drained' /\ Ordered'
    BY NextDrained, NextOrdered
  <2>2. CASE Mine
    BY <2>1, <2>2, MineMoved
  <2>3. CASE \E p \in Process : Sign(p) \/ Broadcast(p) \/ Landed(p) \/ Fails(p) \/ Abort(p)
    BY <2>1, <2>3, SendMoved
  <2>4. CASE \/ PriceMoves \/ StartMint \/ HaveUsdt \/ QuoteSwap \/ AllowedAlready \/ ReadBalances
             \/ SetToken \/ StartMigrate \/ NothingToSweep \/ Verified \/ StartPass \/ Record
    BY <2>1, <2>4, RunMoved
  <2>5. CASE UNCHANGED vars
    <3>1. positions' = positions /\ identity' = identity /\ mempool' = mempool /\ UNCHANGED <<toml, store>>
          /\ job' = job /\ swept' = swept /\ UNCHANGED <<overlapped, skipped>>
      BY <2>5 DEF vars, chainVars, ghostVars
    <3>2. Swept' => Coming
      BY <3>1 DEF Swept, Sweeps, Coming
    <3> QED BY <2>1, <3>1, <3>2, MovedFrame
  <2> QED BY <2>2, <2>3, <2>4, <2>5 DEF Next
<1>3. Moved => SweptLast
  BY DEF Moved, Coming, Swept, Done, SweptLast, IdentityMoved, Token
<1> QED BY <1>1, <1>2, <1>3, ShapeHolds, PTL DEF Spec

=============================================================================
