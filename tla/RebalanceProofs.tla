-------------------------- MODULE RebalanceProofs --------------------------
(***************************************************************************)
(* Theorems about Rebalance, for any callers, price levels and bounds.     *)
(***************************************************************************)
EXTENDS Rebalance, TLAPS

Assumptions == CallerAssumption /\ PriceAssumption /\ ValueAssumption /\ BoundAssumption

Where == Critical \cup {"idle", "summary", "lock"}

-----------------------------------------------------------------------------
(* The flock. *)

\* OneMover with the types it needs, an inductive invariant.
LockInv ==
  /\ lock \in Caller \cup {NoCaller}
  /\ pc \in [Caller -> Where]
  /\ OneMover

\* A step of a caller that already is in the sequence, or that stays out of it,
\* leaves the flock with its holder.
LEMMA StepKeepsLock ==
  ASSUME LockInv, NEW c \in Caller, NEW from \in Where, NEW to \in Where, NEW locals,
         Step(c, from, to, locals), UNCHANGED lock,
         to \in Critical => from \in Critical
  PROVE  LockInv'
BY DEF LockInv, OneMover, Step, Where

LEMMA LeaveKeepsLock ==
  ASSUME LockInv, NEW c \in Caller, Leave(c)
  PROVE  LockInv'
BY CallerAssumption DEF LockInv, OneMover, Leave, Where, Critical, Awaiting

LEMMA LockStep == LockInv /\ [Next]_vars => LockInv'
<1> SUFFICES ASSUME LockInv, [Next]_vars PROVE LockInv'
  OBVIOUS
<1>1. ASSUME NEW c \in Caller, ReadToken(c) \/ ReadSummary(c) \/ LockBusy(c) PROVE LockInv'
  BY <1>1, StepKeepsLock DEF ReadToken, ReadSummary, LockBusy, Local, Where, Critical, Awaiting
<1>2. ASSUME NEW c \in Caller, AcquireLock(c) PROVE LockInv'
  BY <1>2, CallerAssumption DEF AcquireLock, Step, LockInv, OneMover, Where, Critical, Awaiting
<1>3. ASSUME NEW c \in Caller,
             Inspect(c) \/ ReadFees(c) \/ Quote(c) \/ Requote(c) \/ Verify(c) \/ Load(c) PROVE LockInv'
  BY <1>3, StepKeepsLock
     DEF Inspect, ReadFees, Quote, Requote, Verify, Load, Local, Where, Critical, Awaiting
<1>4. ASSUME NEW c \in Caller,
             SendDecrease(c) \/ SendCollect(c) \/ SendSwap(c) \/ SendMint(c) PROVE LockInv'
  BY <1>4, StepKeepsLock
     DEF SendDecrease, SendCollect, SendSwap, SendMint, Send, Where, Critical, Awaiting
<1>5. ASSUME NEW c \in Caller, Confirmed(c) PROVE LockInv'
  <2>1. pc[c] \in Critical /\ pc[c] \in Where /\ After(pc[c]) \in Critical /\ After(pc[c]) \in Where
    BY <1>5 DEF Confirmed, After, Where, Critical, Awaiting
  <2>2. QED
    BY <1>5, <2>1, StepKeepsLock DEF Confirmed, Local
<1>6. ASSUME NEW c \in Caller,
             WriteToken(c) \/ WriteCount(c) \/ WriteGas(c) \/ WriteUsdt(c) \/ WriteBnb(c) PROVE LockInv'
  BY <1>6, StepKeepsLock
     DEF WriteToken, WriteCount, WriteGas, WriteUsdt, WriteBnb, WriteRow, Where, Critical, Awaiting
<1>7. ASSUME NEW c \in Caller,
             AppendHistory(c) \/ Refused(c) \/ Reverted(c) \/ TimedOut(c) \/ Unreadable(c)
             \/ Abort(c) PROVE LockInv'
  BY <1>7, LeaveKeepsLock
     DEF AppendHistory, Refused, Reverted, TimedOut, Unreadable, Abort, Raise
<1>8. CASE Mine \/ EarnFees \/ PriceMoves \/ UNCHANGED vars
  <2>1. UNCHANGED <<lock, pc>>
    BY <1>8 DEF Mine, MineDecrease, MineCollect, MineSwap, MineMint, MineRevert, Mined,
                EarnFees, PriceMoves, vars
  <2>2. QED
    BY <2>1 DEF LockInv, OneMover
<1>9. QED
  BY <1>1, <1>2, <1>3, <1>4, <1>5, <1>6, <1>7, <1>8 DEF Next, Progress

\* At most one caller is inside the fund-moving sequence, and it holds the flock.
THEOREM MutualExclusion == Spec => []OneMover
<1>1. Init => LockInv
  BY CallerAssumption DEF Init, LockInv, OneMover, Where, Critical, Awaiting
<1>2. LockInv => OneMover
  BY DEF LockInv
<1>3. QED
  BY <1>1, <1>2, LockStep, PTL DEF Spec

-----------------------------------------------------------------------------
(* Types. *)

\* TypeOK is split into what is shared and what belongs to the callers, because
\* most steps touch only one of them.
DataOK ==
  /\ position \in Seq(Nft)
  /\ wallet \in Nat /\ price \in Price
  /\ mempool \in Seq(Tx)
  /\ Exists(token) /\ books \in Books /\ history \in Seq([from : Nat, to : Nat])
  /\ lock \in Caller \cup {NoCaller}
  /\ {calls, moves, earned, aborts, swept} \subseteq Nat
  /\ ledger \in Books /\ lost \in Books /\ recorded \subseteq Nat /\ clean \in BOOLEAN
  /\ \A i \in DOMAIN mempool : Exists(mempool[i].id)

\* The places of the totals that are still to be written, and all those after the mint.
Rows == {"gas", "usdt", "bnb"}
Late == Rows \cup {"load", "token", "count", "history"}

\* What c's place and variables must satisfy.
JobOK(c, at, j) ==
  /\ at # "idle" => Exists(j.tok)
  /\ j.new # 0 => Exists(j.new)
  /\ at \in Late => j.new # 0
  /\ at \notin Awaiting => j.receipt = "none"

\* A transaction in flight with an owner is the only one of that owner, who waits
\* for its receipt.  Without this a receipt could reset the new id of a caller
\* that has moved on.
OneWaiter ==
  /\ \A i \in DOMAIN mempool : mempool[i].by \in Caller =>
       pc[mempool[i].by] \in Awaiting /\ job[mempool[i].by].receipt = "none"
  /\ \A i, k \in DOMAIN mempool :
       mempool[i].by = mempool[k].by /\ mempool[i].by \in Caller => i = k

CallerOK ==
  /\ pc \in [Caller -> Where]
  /\ job \in [Caller -> Job]
  /\ \A c \in Caller : JobOK(c, pc[c], job[c])
  /\ OneWaiter

LEMMA TypeParts == DataOK /\ CallerOK => TypeOK
BY DEF DataOK, CallerOK, TypeOK, JobOK, Where, Late, Rows

LEMMA PlusBooks ==
  ASSUME NEW a \in Books, NEW b \in Books PROVE Plus(a, b) \in Books
BY DEF Plus, Books

LEMMA NoJobOK == NoJob \in Job /\ NoJob.new = 0 /\ NoJob.receipt = "none"
BY PriceAssumption DEF NoJob, Job, Books, ZeroBooks

\* A step of one caller that is not waiting, or whose receipt has arrived.
LEMMA StepCallerOK ==
  ASSUME CallerOK, NEW c \in Caller, NEW from \in Where, NEW to \in Where, NEW l \in Job,
         Step(c, from, to, l), UNCHANGED <<position, mempool>>,
         JobOK(c, to, l), from \in Awaiting => job[c].receipt # "none"
  PROVE  CallerOK'
<1>1. pc' \in [Caller -> Where] /\ job' \in [Caller -> Job]
  BY DEF CallerOK, Step
<1>2. \A d \in Caller : JobOK(d, pc[d], job[d])'
  BY DEF CallerOK, Step, JobOK, Exists
<1>3. \A i \in DOMAIN mempool : mempool[i].by # c
  BY DEF CallerOK, OneWaiter, Step
<1>4. OneWaiter'
  BY <1>3 DEF CallerOK, OneWaiter, Step
<1>5. QED
  BY <1>1, <1>2, <1>4 DEF CallerOK

\* A caller returns: nothing of it is in flight any more, or it is disowned.
LEMMA LeaveCallerOK ==
  ASSUME CallerOK, mempool \in Seq(Tx), NEW c \in Caller, Leave(c), UNCHANGED position,
         \/ UNCHANGED mempool /\ pc[c] \notin Awaiting
         \/ mempool' = [i \in DOMAIN mempool |->
                          [mempool[i] EXCEPT !.by = IF @ = c THEN NoCaller ELSE @]]
  PROVE  CallerOK'
<1>1. pc' \in [Caller -> Where] /\ job' \in [Caller -> Job]
  BY NoJobOK DEF CallerOK, Leave, Where
<1>2. \A d \in Caller : JobOK(d, pc[d], job[d])'
  BY NoJobOK DEF CallerOK, Leave, JobOK, Exists, Late, Rows
<1>3. \A d \in Caller : d # c => pc'[d] = pc[d] /\ job'[d] = job[d]
  BY DEF CallerOK, Leave
<1>4. CASE UNCHANGED mempool /\ pc[c] \notin Awaiting
  BY <1>1, <1>2, <1>3, <1>4 DEF CallerOK, OneWaiter
<1>5. CASE mempool' = [i \in DOMAIN mempool |->
                         [mempool[i] EXCEPT !.by = IF @ = c THEN NoCaller ELSE @]]
  <2>1. DOMAIN mempool' = DOMAIN mempool
    BY <1>5
  <2>2. \A i \in DOMAIN mempool :
          mempool'[i].by = IF mempool[i].by = c THEN NoCaller ELSE mempool[i].by
    <3>1. \A t \in Tx : [t EXCEPT !.by = IF @ = c THEN NoCaller ELSE @].by
                          = IF t.by = c THEN NoCaller ELSE t.by
      BY DEF Tx
    <3>2. \A i \in DOMAIN mempool : mempool[i] \in Tx
      OBVIOUS
    <3>3. QED
      BY <1>5, <3>1, <3>2
  <2>3. OneWaiter /\ NoCaller \notin Caller
    BY CallerAssumption DEF CallerOK
  <2>4. \A i \in DOMAIN mempool :
          mempool'[i].by \in Caller => mempool'[i].by # c /\ mempool'[i].by = mempool[i].by
    BY <2>2, <2>3
  <2>5. ASSUME NEW i \in DOMAIN mempool', mempool'[i].by \in Caller
        PROVE  pc'[mempool'[i].by] \in Awaiting /\ job'[mempool'[i].by].receipt = "none"
    BY <1>3, <2>1, <2>3, <2>4, <2>5 DEF OneWaiter
  <2>6. ASSUME NEW i \in DOMAIN mempool', NEW k \in DOMAIN mempool',
               mempool'[i].by = mempool'[k].by, mempool'[i].by \in Caller
        PROVE  i = k
    BY <2>1, <2>3, <2>4, <2>6 DEF OneWaiter
  <2>7. OneWaiter'
    BY <2>5, <2>6 DEF OneWaiter
  <2>8. QED
    BY <1>1, <1>2, <2>7 DEF CallerOK
<1>6. QED
  BY <1>1, <1>2, <1>4, <1>5 DEF CallerOK

\* Disowning keeps the transactions.
LEMMA RaiseDataOK ==
  ASSUME DataOK, CallerOK, NEW c \in Caller, Raise(c), UNCHANGED aborts \/ aborts' = aborts + 1
  PROVE  DataOK' /\ CallerOK'
<1> DEFINE kept(t) == [t EXCEPT !.by = IF @ = c THEN NoCaller ELSE @]
<1>1. mempool' = [i \in DOMAIN mempool |-> kept(mempool[i])]
  BY DEF Raise
<1>2. \A t \in Tx : kept(t) \in Tx /\ kept(t).id = t.id
  BY DEF Tx
<1>3. mempool' \in Seq(Tx) /\ DOMAIN mempool' = DOMAIN mempool
  <2>1. mempool \in [1..Len(mempool) -> Tx] /\ Len(mempool) \in Nat
    BY DEF DataOK
  <2>2. mempool' \in [1..Len(mempool) -> Tx]
    BY <1>1, <1>2, <2>1
  <2>3. QED
    BY <2>1, <2>2
<1>4. \A i \in DOMAIN mempool' : mempool'[i].id = mempool[i].id
  <2>1. \A i \in DOMAIN mempool : mempool[i] \in Tx
    BY DEF DataOK
  <2>2. \A i \in DOMAIN mempool : mempool'[i] = kept(mempool[i])
    BY <1>1
  <2>3. QED
    BY <1>2, <1>3, <2>1, <2>2
<1>5. DataOK'
  <2>1. clean' \in BOOLEAN /\ lost' \in Books
    <3>1. Unwritten(c) \in Books
      BY DEF Unwritten, CallerOK, Job, Books
    <3>2. QED
      BY <3>1, PlusBooks DEF Raise, DataOK
  <2>2. /\ lock' \in Caller \cup {NoCaller} /\ aborts' \in Nat
        /\ UNCHANGED <<position, wallet, price, token, books, history, calls, moves,
                      earned, swept, ledger, recorded>>
    BY DEF Raise, Leave, storeVars, DataOK
  <2>3. \A i \in DOMAIN mempool' : mempool'[i].id \in 1..Len(position')
    BY <1>3, <1>4, <2>2 DEF DataOK, Exists
  <2>4. QED
    BY <1>3, <2>1, <2>2, <2>3 DEF DataOK, Exists
<1>6. CallerOK'
  <2>1. Leave(c) /\ UNCHANGED position
    BY DEF Raise
  <2>2. QED
    BY <1>1, <2>1, LeaveCallerOK DEF DataOK
<1>7. QED
  BY <1>5, <1>6

\* A broadcast appends a transaction whose owner starts to wait.
LEMMA SendOK ==
  ASSUME DataOK, CallerOK, NEW c \in Caller,
         NEW from \in Where, NEW to \in Awaiting,
         NEW kind \in {"decrease", "collect", "swap", "mint"},
         Send(c, from, to, kind), from # "idle", from \notin Awaiting
  PROVE  DataOK' /\ CallerOK'
<1> DEFINE t == [kind |-> kind, by |-> c, at |-> job[c].at, id |-> job[c].tok,
                 amt |-> IF kind = "mint" THEN job[c].amt ELSE job[c].liq]
<1>1. t \in Tx /\ Exists(t.id) /\ t.by = c
  BY DEF Tx, CallerOK, Job, JobOK, Send, Step
<1>2. mempool' = Append(mempool, t)
  BY DEF Send
<1>3. /\ mempool' \in Seq(Tx)
      /\ DOMAIN mempool' = DOMAIN mempool \cup {Len(mempool) + 1}
      /\ \A i \in DOMAIN mempool : mempool'[i] = mempool[i]
      /\ mempool'[Len(mempool) + 1] = t
      /\ Len(mempool) + 1 \notin DOMAIN mempool
  BY <1>1, <1>2 DEF DataOK
<1>4. DataOK'
  BY <1>1, <1>3 DEF DataOK, Send, Exists, storeVars, countVars, ghostVars
<1>5. pc' = [pc EXCEPT ![c] = to] /\ UNCHANGED job
  BY DEF Send, Step, CallerOK
<1>6. pc' \in [Caller -> Where] /\ \A d \in Caller : JobOK(d, pc[d], job[d])'
  BY <1>5 DEF CallerOK, JobOK, Send, Step, Exists, Late, Rows, Awaiting, Where, Critical
<1>7. \A i \in DOMAIN mempool : mempool[i].by # c
  BY DEF CallerOK, OneWaiter, Send, Step
<1>8. OneWaiter'
  <2>1. job[c].receipt = "none"
    BY DEF CallerOK, JobOK, Send, Step
  <2>2. QED
    BY <1>1, <1>3, <1>5, <1>7, <2>1 DEF CallerOK, OneWaiter
<1>9. QED
  BY <1>4, <1>5, <1>6, <1>8 DEF CallerOK

\* Mining the head of the mempool hands its owner a receipt.
LEMMA MinedOK ==
  ASSUME DataOK, CallerOK, mempool # <<>>, position' \in Seq(Nft),
         Len(position) <= Len(position'),
         NEW outcome \in {"ok", "reverted"}, NEW id \in Nat, id # 0 => id \in 1..Len(position'),
         Mined(outcome, id)
  PROVE  /\ CallerOK'
         /\ mempool' \in Seq(Tx) /\ \A i \in DOMAIN mempool' : mempool'[i].id \in 1..Len(position')
<1> DEFINE t == Head(mempool)
<1>1. mempool \in Seq(Tx) /\ position \in Seq(Nft) /\ Len(position) \in Nat
      /\ Len(position') \in Nat
  BY DEF DataOK
<1>2. \A n \in Nat : n \in 1..Len(position) => n \in 1..Len(position')
  BY <1>1
<1>3. mempool' = Tail(mempool)
  BY DEF Mined
<1>4. /\ mempool' \in Seq(Tx) /\ DOMAIN mempool' = 1..(Len(mempool) - 1)
      /\ Len(mempool) \in Nat /\ DOMAIN mempool = 1..Len(mempool)
      /\ t = mempool[1] /\ 1 \in DOMAIN mempool
  BY <1>1, <1>3
<1>5. \A i \in DOMAIN mempool' : /\ i \in Nat /\ i + 1 \in DOMAIN mempool /\ i + 1 # 1
                                 /\ mempool'[i] = mempool[i + 1]
  BY <1>1, <1>3, <1>4
<1>6. \A i \in DOMAIN mempool' : mempool'[i].id \in 1..Len(position')
  <2>1. \A i \in DOMAIN mempool : mempool[i].id \in 1..Len(position)
    BY DEF DataOK, Exists
  <2>2. QED
    BY <1>1, <1>2, <1>5, <2>1
<1>7. t.by \in Caller => pc[t.by] \in Awaiting
  BY <1>4 DEF CallerOK, OneWaiter
<1>8. \A c \in Caller : job'[c] = IF c = t.by
                                  THEN [job[c] EXCEPT !.receipt = outcome, !.new = id] ELSE job[c]
  BY DEF Mined
<1>9. pc' = pc /\ pc' \in [Caller -> Where]
  BY DEF Mined, CallerOK
<1>10. \A j \in Job : LET k == [j EXCEPT !.receipt = outcome, !.new = id]
                      IN  k \in Job /\ k.tok = j.tok /\ k.new = id
  BY DEF Job
<1>11. job' \in [Caller -> Job]
  <2>1. \A c \in Caller : job[c] \in Job
    BY DEF CallerOK
  <2>2. \A c \in Caller : job'[c] \in Job
    BY <1>8, <1>10, <2>1
  <2>3. job' = [c \in Caller |-> job'[c]]
    BY DEF Mined
  <2>4. QED
    BY <2>2, <2>3
<1>12. \A c \in Caller : JobOK(c, pc[c], job[c])'
  <2> SUFFICES ASSUME NEW c \in Caller PROVE JobOK(c, pc[c], job[c])'
    OBVIOUS
  <2>1. /\ pc[c] # "idle" => job[c].tok \in 1..Len(position)
        /\ job[c].new # 0 => job[c].new \in 1..Len(position)
        /\ pc[c] \in Late => job[c].new # 0
        /\ pc[c] \notin Awaiting => job[c].receipt = "none"
        /\ job[c] \in Job /\ job[c].tok \in Nat /\ job[c].new \in Nat
    BY DEF CallerOK, JobOK, Exists, Job
  <2>2. CASE c # t.by
    BY <1>2, <1>8, <1>9, <2>1, <2>2 DEF JobOK, Exists
  <2>3. CASE c = t.by
    <3>1. job'[c].tok = job[c].tok /\ job'[c].new = id
      BY <1>8, <1>10, <2>1, <2>3
    <3>2. pc[c] \notin Late /\ pc[c] \in Awaiting
      BY <1>7, <2>3 DEF Awaiting, Late, Rows
    <3>3. QED
      BY <1>2, <1>9, <2>1, <3>1, <3>2 DEF JobOK, Exists
  <2>4. QED
    BY <2>2, <2>3
<1>13. OneWaiter'
  <2>1. \A i \in DOMAIN mempool' : mempool'[i].by \in Caller => mempool'[i].by # t.by
    BY <1>4, <1>5 DEF CallerOK, OneWaiter
  <2>2. \A i, k \in DOMAIN mempool' :
          mempool'[i].by = mempool'[k].by /\ mempool'[i].by \in Caller => i = k
    <3> SUFFICES ASSUME NEW i \in DOMAIN mempool', NEW k \in DOMAIN mempool',
                        mempool'[i].by = mempool'[k].by, mempool'[i].by \in Caller
                 PROVE  i = k
      OBVIOUS
    <3>1. i + 1 = k + 1
      BY <1>5 DEF CallerOK, OneWaiter
    <3>2. i \in Nat /\ k \in Nat
      BY <1>5
    <3>3. QED
      BY <3>1, <3>2
  <2>3. \A i \in DOMAIN mempool' : mempool'[i].by \in Caller =>
          pc'[mempool'[i].by] \in Awaiting /\ job'[mempool'[i].by].receipt = "none"
    <3> SUFFICES ASSUME NEW i \in DOMAIN mempool', mempool'[i].by \in Caller
                 PROVE  /\ pc'[mempool'[i].by] \in Awaiting
                        /\ job'[mempool'[i].by].receipt = "none"
      OBVIOUS
    <3>1. i + 1 \in DOMAIN mempool /\ mempool'[i] = mempool[i + 1]
      BY <1>5
    <3>2. /\ pc[mempool'[i].by] \in Awaiting
          /\ job[mempool'[i].by].receipt = "none"
      BY <3>1 DEF CallerOK, OneWaiter
    <3>3. job'[mempool'[i].by] = job[mempool'[i].by]
      BY <1>8, <2>1
    <3>4. QED
      BY <1>9, <3>2, <3>3
  <2>4. QED
    BY <2>2, <2>3 DEF OneWaiter
<1>14. QED
  BY <1>4, <1>6, <1>9, <1>11, <1>12, <1>13 DEF CallerOK

\* A mined transaction: enough to show what it does to the NFTs and the wallet.
LEMMA MinedDataOK ==
  ASSUME DataOK, CallerOK, mempool # <<>>, position' \in Seq(Nft),
         Len(position) <= Len(position'), wallet' \in Nat, swept' \in Nat,
         NEW outcome \in {"ok", "reverted"}, NEW id \in Nat, id # 0 => id \in 1..Len(position'),
         Mined(outcome, id)
  PROVE  DataOK' /\ CallerOK'
<1>1. /\ CallerOK' /\ mempool' \in Seq(Tx)
      /\ \A i \in DOMAIN mempool' : mempool'[i].id \in 1..Len(position')
  BY MinedOK
<1>2. UNCHANGED <<price, token, books, history, lock, calls, moves, earned, aborts,
                  ledger, lost, recorded, clean>>
  BY DEF Mined, storeVars, countVars, ghostVars
<1>3. token' \in 1..Len(position')
  <2>1. token \in 1..Len(position) /\ position \in Seq(Nft)
    BY DEF DataOK, Exists
  <2>2. QED
    BY <1>2, <2>1
<1>4. clean' \in BOOLEAN
  BY <1>2 DEF DataOK
<1>5. QED
  BY <1>1, <1>2, <1>3, <1>4 DEF DataOK, Exists

LEMMA MineStep ==
  ASSUME DataOK, CallerOK, Mine
  PROVE  DataOK' /\ CallerOK'
<1> DEFINE t == Head(mempool)
<1>1. mempool # <<>> /\ mempool \in Seq(Tx) /\ position \in Seq(Nft)
  BY DEF Mine, DataOK
<1>2. Len(position) \in Nat /\ DOMAIN position = 1..Len(position)
  BY <1>1
<1>3. t \in Tx /\ t.id \in DOMAIN position /\ t.amt \in Nat /\ t.at \in Price
  <2>1. 1 \in DOMAIN mempool /\ t = mempool[1]
    BY <1>1
  <2>2. t \in Tx /\ t.id \in DOMAIN position
    BY <1>1, <1>2, <2>1 DEF DataOK, Exists
  <2>3. QED
    BY <2>2 DEF Tx
<1>4. position[t.id] \in Nft
  BY <1>1, <1>3
<1>5. wallet \in Nat /\ swept \in Nat
  BY DEF DataOK
<1>6. \A n \in Nft : [position EXCEPT ![t.id] = n] \in Seq(Nft)
                     /\ Len([position EXCEPT ![t.id] = n]) = Len(position)
  BY <1>1, <1>3
<1>7. CASE MineDecrease(t)
  <2> DEFINE p == position[t.id]
             n == [p EXCEPT !.liq = @ - t.amt, !.owed = @ + t.amt]
  <2>1. n \in Nft
    BY <1>3, <1>4, <1>7 DEF MineDecrease, Nft
  <2>2. position' = [position EXCEPT ![t.id] = n]
    BY <1>4, <1>7 DEF MineDecrease, Nft
  <2>3. position' \in Seq(Nft) /\ Len(position') = Len(position)
    BY <1>6, <2>1, <2>2
  <2>4. Mined("ok", 0) /\ UNCHANGED <<wallet, swept>>
    BY <1>7 DEF MineDecrease
  <2>5. QED
    BY <1>1, <1>2, <1>5, <2>3, <2>4, MinedDataOK
<1>8. CASE MineCollect(t)
  <2> DEFINE p == position[t.id]
             n == [p EXCEPT !.owed = 0, !.fees = 0]
  <2>1. n \in Nft /\ p.owed \in Nat /\ p.fees \in Nat
    BY <1>4 DEF Nft
  <2>2. position' = [position EXCEPT ![t.id] = n]
    BY <1>4, <1>8 DEF MineCollect, Nft
  <2>3. position' \in Seq(Nft) /\ Len(position') = Len(position)
    BY <1>6, <2>1, <2>2
  <2>4. Mined("ok", 0) /\ wallet' \in Nat /\ swept' \in Nat
    BY <1>5, <1>8, <2>1 DEF MineCollect, Pending
  <2>5. QED
    BY <1>1, <1>2, <2>3, <2>4, MinedDataOK
<1>9. CASE MineSwap(t) \/ MineRevert(t)
  <2>1. UNCHANGED <<position, wallet, swept>> /\ (Mined("ok", 0) \/ Mined("reverted", 0))
    BY <1>9 DEF MineSwap, MineRevert
  <2>2. QED
    BY <1>1, <1>2, <1>5, <2>1, MinedDataOK
<1>10. CASE MineMint(t)
  <2>1. PICK left \in 0..Dust :
          /\ left < t.amt /\ wallet >= t.amt
          /\ position' = Append(position,
               [liq |-> t.amt - left, owed |-> 0, fees |-> 0, at |-> t.at])
          /\ wallet' = wallet - (t.amt - left)
    BY <1>10 DEF MineMint
  <2>2. PICK id \in {0, Len(position) + 1} : Mined("ok", id)
    BY <1>10 DEF MineMint
  <2>3. t.amt - left \in Nat /\ wallet' \in Nat
    BY <1>3, <1>5, <2>1, ValueAssumption
  <2>4. [liq |-> t.amt - left, owed |-> 0, fees |-> 0, at |-> t.at] \in Nft
    BY <1>3, <2>3 DEF Nft
  <2>5. position' \in Seq(Nft) /\ Len(position') = Len(position) + 1
    BY <1>1, <2>1, <2>4
  <2>6. id \in Nat /\ (id # 0 => id \in 1..Len(position'))
    BY <1>2, <2>5
  <2>7. swept' \in Nat
    BY <1>5, <1>10 DEF MineMint
  <2>8. QED
    BY <1>1, <1>2, <2>2, <2>3, <2>5, <2>6, <2>7, MinedDataOK
<1>11. QED
  BY <1>7, <1>8, <1>9, <1>10 DEF Mine

-----------------------------------------------------------------------------
\* The steps of a caller before the flock.
LEMMA OutsideStep ==
  ASSUME DataOK, CallerOK, NEW c \in Caller,
         ReadToken(c) \/ ReadSummary(c) \/ AcquireLock(c) \/ LockBusy(c)
  PROVE  DataOK' /\ CallerOK'
<1>1. job[c] \in Job /\ token \in 1..Len(position) /\ token \in Nat /\ clean \in BOOLEAN
  BY DEF DataOK, CallerOK, Exists
<1>2. CASE ReadToken(c)
  <2> DEFINE l == [job[c] EXCEPT !.tok = token]
  <2>1. l \in Job /\ l.tok = token /\ l.new = job[c].new /\ l.receipt = job[c].receipt
    BY <1>1 DEF Job
  <2>2. JobOK(c, "summary", l)
    BY <1>1, <1>2, <2>1 DEF ReadToken, Step, CallerOK, JobOK, Exists, Late, Rows, Awaiting
  <2>3. Step(c, "idle", "summary", l) /\ UNCHANGED <<position, mempool>>
    BY <1>2 DEF ReadToken, chainVars
  <2>4. CallerOK'
    BY <2>1, <2>2, <2>3, StepCallerOK DEF Where, Awaiting
  <2>5. DataOK'
    BY <1>2 DEF ReadToken, DataOK, Exists, chainVars, storeVars, countVars, ghostVars
  <2>6. QED
    BY <2>4, <2>5
<1>3. CASE ReadSummary(c) \/ LockBusy(c)
  <2>1. PICK to \in {"lock", "idle"}, l \in {job[c], NoJob} :
          /\ Local(c, pc[c], to, l) /\ pc[c] \in {"summary", "lock"}
          /\ to = "lock" => l = job[c]
          /\ to = "idle" => l = NoJob
    BY <1>3 DEF ReadSummary, LockBusy, Local, Step
  <2>2. l \in Job /\ JobOK(c, to, l)
    BY <1>1, <2>1, NoJobOK DEF CallerOK, JobOK, Late, Rows, Awaiting
  <2>3. CallerOK'
    BY <2>1, <2>2, StepCallerOK DEF Local, chainVars, Where, Awaiting
  <2>4. DataOK'
    BY <2>1 DEF Local, DataOK, Exists, chainVars, storeVars, countVars, ghostVars
  <2>5. QED
    BY <2>3, <2>4
<1>4. CASE AcquireLock(c)
  <2>1. JobOK(c, "inspect", job[c])
    BY <1>4 DEF AcquireLock, Step, CallerOK, JobOK, Late, Rows, Awaiting
  <2>2. CallerOK'
    BY <1>1, <1>4, <2>1, StepCallerOK DEF AcquireLock, chainVars, Where, Critical, Awaiting
  <2>3. DataOK'
    BY <1>4 DEF AcquireLock, DataOK, Exists, chainVars, storeVars, countVars, ghostVars
  <2>4. QED
    BY <2>2, <2>3
<1>5. QED
  BY <1>2, <1>3, <1>4

\* A step that only moves a caller on, under the flock.
LEMMA LocalOK ==
  ASSUME DataOK, CallerOK, NEW c \in Caller, NEW from \in Where, NEW to \in Where,
         NEW l \in Job, Local(c, from, to, l), from # "idle",
         from \in Awaiting => job[c].receipt # "none",
         l.tok = job[c].tok, l.new = job[c].new, to \in Late => l.new # 0,
         l.receipt = "none"
  PROVE  DataOK' /\ CallerOK'
<1>1. JobOK(c, to, l)
  BY DEF CallerOK, JobOK, Local, Step
<1>2. Step(c, from, to, l) /\ UNCHANGED <<position, mempool>>
  BY DEF Local, chainVars
<1>3. CallerOK'
  BY <1>1, <1>2, StepCallerOK
<1>4. DataOK'
  BY DEF Local, DataOK, Exists, chainVars, storeVars, countVars, ghostVars
<1>5. QED
  BY <1>3, <1>4

LEMMA LocalSteps ==
  ASSUME DataOK, CallerOK, NEW c \in Caller,
         Inspect(c) \/ ReadFees(c) \/ Quote(c) \/ Requote(c) \/ Confirmed(c) \/ Verify(c) \/ Load(c)
  PROVE  DataOK' /\ CallerOK'
<1> DEFINE j == job[c]
<1>1. j \in Job /\ wallet \in Nat /\ price \in Price /\ books \in Books /\ j.gas \in Nat
      /\ (pc[c] \notin Awaiting => j.receipt = "none")
  BY DEF DataOK, CallerOK, JobOK, Job
<1>2. ASSUME pc[c] # "idle"
      PROVE  position[j.tok].liq \in Nat /\ Pending(j.tok) \in Nat
  <2>1. j.tok \in 1..Len(position) /\ position \in Seq(Nft)
    BY <1>2 DEF CallerOK, JobOK, Exists, DataOK
  <2>2. position[j.tok] \in Nft
    BY <2>1
  <2>3. QED
    BY <2>2 DEF Nft, Pending
<1>3. CASE Inspect(c)
  <2> DEFINE l == [j EXCEPT !.liq = position[j.tok].liq]
  <2>1. Local(c, "inspect", "fees", l) /\ pc[c] = "inspect"
    BY <1>3 DEF Inspect, Local, Step
  <2>2. l \in Job /\ l.tok = j.tok /\ l.new = j.new /\ l.receipt = j.receipt
    BY <1>1, <1>2, <2>1 DEF Job
  <2> HIDE DEF l
  <2>3. QED
    BY <1>1, <2>1, <2>2, LocalOK DEF Where, Critical, Awaiting, Late, Rows
<1>4. CASE ReadFees(c)
  <2> DEFINE l == [j EXCEPT !.fees = Pending(j.tok)]
  <2>1. PICK to \in {"decrease", "collect"} : Local(c, "fees", to, l) /\ pc[c] = "fees"
    BY <1>4 DEF ReadFees, Local, Step
  <2>2. l \in Job /\ l.tok = j.tok /\ l.new = j.new /\ l.receipt = j.receipt
    BY <1>1, <1>2, <2>1 DEF Job
  <2> HIDE DEF l
  <2>3. QED
    BY <1>1, <2>1, <2>2, LocalOK DEF Where, Critical, Awaiting, Late, Rows
<1>5. CASE Quote(c)
  <2> DEFINE l == [j EXCEPT !.at = price, !.amt = wallet]
  <2>1. l \in Job /\ l.tok = j.tok /\ l.new = j.new /\ l.receipt = j.receipt
    BY <1>1 DEF Job
  <2>2. PICK to \in {"swap", "mint"} : Local(c, "quote", to, l)
    BY <1>5 DEF Quote
  <2>3. pc[c] = "quote"
    BY <2>2 DEF Local, Step
  <2> HIDE DEF l
  <2>4. QED
    BY <1>1, <2>1, <2>2, <2>3, LocalOK DEF Where, Critical, Awaiting, Late, Rows
<1>6. CASE Requote(c)
  <2> DEFINE l == [j EXCEPT !.amt = wallet]
  <2>1. l \in Job /\ l.tok = j.tok /\ l.new = j.new /\ l.receipt = j.receipt
    BY <1>1 DEF Job
  <2>2. Local(c, "requote", "mint", l)
    BY <1>6 DEF Requote
  <2>3. pc[c] = "requote"
    BY <2>2 DEF Local, Step
  <2> HIDE DEF l
  <2>4. QED
    BY <1>1, <2>1, <2>2, <2>3, LocalOK DEF Where, Critical, Awaiting, Late, Rows
<1>7. CASE Confirmed(c)
  <2> DEFINE l == [j EXCEPT !.gas = @ + 1, !.receipt = "none"]
  <2>1. l \in Job /\ l.tok = j.tok /\ l.new = j.new /\ l.receipt = "none"
    <3>1. \A g \in Nat : LET k == [j EXCEPT !.gas = g, !.receipt = "none"]
                         IN  k \in Job /\ k.tok = j.tok /\ k.new = j.new /\ k.receipt = "none"
      BY <1>1 DEF Job
    <3>2. j.gas + 1 \in Nat
      BY <1>1
    <3>3. QED
      BY <3>1, <3>2
  <2>2. Local(c, pc[c], After(pc[c]), l) /\ pc[c] \in Awaiting /\ j.receipt = "ok"
    BY <1>7 DEF Confirmed
  <2>3. After(pc[c]) \in Where \ Late
    BY <2>2 DEF After, Where, Critical, Awaiting, Late, Rows
  <2> HIDE DEF l
  <2>4. QED
    BY <2>1, <2>2, <2>3, LocalOK DEF Where, Critical, Awaiting
<1>8. CASE Verify(c)
  BY <1>1, <1>8, LocalOK DEF Verify, Local, Step, Where, Critical, Awaiting
<1>9. CASE Load(c)
  <2>1. PICK part \in 0..j.fees :
          Local(c, "load", "token", [j EXCEPT !.base = books,
            !.adds = [count |-> 1, gas |-> j.gas, usdt |-> part, bnb |-> j.fees - part]])
    BY <1>9 DEF Load
  <2> DEFINE adds == [count |-> 1, gas |-> j.gas, usdt |-> part, bnb |-> j.fees - part]
             l == [j EXCEPT !.base = books, !.adds = adds]
  <2>2. adds \in Books
    <3>1. j.fees \in Nat
      BY <1>1 DEF Job
    <3>2. part \in Nat /\ j.fees - part \in Nat
      BY <3>1
    <3>3. QED
      BY <1>1, <3>2 DEF Books
  <2>3. l \in Job /\ l.tok = j.tok /\ l.new = j.new /\ l.receipt = j.receipt
    <3>1. \A a \in Books : LET k == [j EXCEPT !.base = books, !.adds = a]
                           IN  k \in Job /\ k.tok = j.tok /\ k.new = j.new /\ k.receipt = j.receipt
      BY <1>1 DEF Job
    <3> HIDE DEF adds
    <3>2. QED
      BY <2>2, <3>1
  <2>4. Local(c, "load", "token", l)
    BY <2>1
  <2>5. j.new # 0 /\ pc[c] = "load"
    BY <2>4 DEF CallerOK, JobOK, Late, Rows, Local, Step
  <2> HIDE DEF l
  <2>6. QED
    BY <1>1, <2>3, <2>4, <2>5, LocalOK DEF Where, Critical, Awaiting
<1>10. QED
  BY <1>3, <1>4, <1>5, <1>6, <1>7, <1>8, <1>9

LEMMA SendSteps ==
  ASSUME DataOK, CallerOK, NEW c \in Caller,
         SendDecrease(c) \/ SendCollect(c) \/ SendSwap(c) \/ SendMint(c)
  PROVE  DataOK' /\ CallerOK'
BY SendOK DEF SendDecrease, SendCollect, SendSwap, SendMint, Where, Critical, Awaiting

\* A write to the store, under the flock.
LEMMA WriteSteps ==
  ASSUME DataOK, CallerOK, NEW c \in Caller,
         WriteToken(c) \/ WriteCount(c) \/ WriteGas(c) \/ WriteUsdt(c) \/ WriteBnb(c)
  PROVE  DataOK' /\ CallerOK'
<1> DEFINE j == job[c]
<1>1. PICK from \in {"token", "count", "gas", "usdt", "bnb"},
           to \in {"count", "gas", "usdt", "bnb", "history"} : Step(c, from, to, j)
  BY DEF WriteToken, WriteCount, WriteGas, WriteUsdt, WriteBnb, WriteRow
<1>2. JobOK(c, from, j) /\ j \in Job
  BY <1>1 DEF CallerOK, Step
<1>3. JobOK(c, to, j)
  BY <1>1, <1>2 DEF JobOK, Late, Rows, Awaiting
<1>4. UNCHANGED <<position, mempool>>
  BY DEF WriteToken, WriteCount, WriteGas, WriteUsdt, WriteBnb, WriteRow, chainVars
<1>5. CallerOK'
  BY <1>1, <1>2, <1>3, <1>4, StepCallerOK DEF Where, Critical, Awaiting
<1>6. j.new \in 1..Len(position) /\ j.base \in Books /\ j.adds \in Books
  BY <1>2, <1>1 DEF JobOK, Exists, Late, Rows, Job
<1>7. CASE WriteToken(c)
  <2>1. token' \in 1..Len(position') /\ recorded' \subseteq Nat
    <3>1. token' = j.new /\ recorded' = recorded \cup {j.new}
      BY <1>7 DEF WriteToken
    <3>2. recorded \subseteq Nat /\ position' = position /\ Len(position) \in Nat
      BY <1>4 DEF DataOK
    <3>3. j.new \in Nat
      BY <1>2 DEF Job
    <3>4. recorded' \subseteq Nat
      BY <3>1, <3>2, <3>3
    <3>5. QED
      BY <1>6, <3>1, <3>2, <3>4
  <2>2. UNCHANGED <<chainVars, books, history, lock, calls, moves, earned, aborts, swept,
                    ledger, lost, clean>>
    BY <1>7 DEF WriteToken, countVars
  <2>3. QED
    BY <1>5, <2>1, <2>2 DEF DataOK, Exists, chainVars
<1>8. CASE WriteCount(c) \/ WriteGas(c) \/ WriteUsdt(c) \/ WriteBnb(c)
  <2>1. \A n \in Nat : /\ [books EXCEPT !.count = n] \in Books
                       /\ [books EXCEPT !.gas = n] \in Books
                       /\ [books EXCEPT !.usdt = n] \in Books
                       /\ [books EXCEPT !.bnb = n] \in Books
    BY DEF DataOK, Books
  <2>2. /\ j.base.count + j.adds.count \in Nat /\ j.base.gas + j.adds.gas \in Nat
        /\ j.base.usdt + j.adds.usdt \in Nat /\ j.base.bnb + j.adds.bnb \in Nat
    <3>1. /\ j.base.count \in Nat /\ j.base.gas \in Nat /\ j.base.usdt \in Nat
          /\ j.base.bnb \in Nat
      BY <1>6 DEF Books
    <3>2. /\ j.adds.count \in Nat /\ j.adds.gas \in Nat /\ j.adds.usdt \in Nat
          /\ j.adds.bnb \in Nat
      BY <1>6 DEF Books
    <3> HIDE DEF j
    <3> QED BY <3>1, <3>2
  <2>3. books' \in Books
    BY <1>8, <2>1, <2>2 DEF WriteCount, WriteGas, WriteUsdt, WriteBnb, WriteRow
  <2>4. ledger' \in Books
    BY <1>6, <1>8, PlusBooks DEF WriteCount, WriteGas, WriteUsdt, WriteBnb, DataOK
  <2>5. UNCHANGED <<chainVars, token, history, lock, calls, moves, earned, aborts, swept,
                    lost, recorded, clean>>
    BY <1>8 DEF WriteCount, WriteGas, WriteUsdt, WriteBnb, WriteRow, countVars
  <2>6. QED
    BY <1>5, <2>3, <2>4, <2>5 DEF DataOK, Exists, chainVars
<1>9. QED
  BY <1>7, <1>8

LEMMA AppendStep ==
  ASSUME DataOK, CallerOK, NEW c \in Caller, AppendHistory(c)
  PROVE  DataOK' /\ CallerOK'
<1>1. [from |-> job[c].tok, to |-> job[c].new] \in [from : Nat, to : Nat]
  BY DEF CallerOK, Job
<1>2. history' \in Seq([from : Nat, to : Nat])
  BY <1>1 DEF AppendHistory, DataOK
<1>3. lock' \in Caller \cup {NoCaller}
  BY DEF AppendHistory, Leave, DataOK
<1>4. UNCHANGED <<chainVars, token, books, calls, moves, earned, aborts, swept, ledger,
                  lost, recorded, clean>>
  BY DEF AppendHistory, countVars, ghostVars
<1>5. DataOK'
  BY <1>2, <1>3, <1>4 DEF DataOK, Exists, chainVars
<1>6. Leave(c) /\ UNCHANGED <<position, mempool>> /\ pc[c] \notin Awaiting /\ mempool \in Seq(Tx)
  BY <1>4 DEF AppendHistory, Awaiting, DataOK, chainVars
<1>7. QED
  BY <1>5, <1>6, LeaveCallerOK

\* What happens to the pool without the agent.
LEMMA OutsideWorldStep ==
  ASSUME DataOK, CallerOK, EarnFees \/ PriceMoves \/ UNCHANGED vars
  PROVE  DataOK' /\ CallerOK'
<1>1. UNCHANGED <<wallet, mempool, token, books, history, lock, pc, job, calls, aborts, swept,
                  ledger, lost, recorded, clean>>
  BY DEF EarnFees, PriceMoves, vars, chainVars, storeVars, countVars, ghostVars
<1>2. position' \in Seq(Nft) /\ Len(position') = Len(position)
  <2>1. CASE EarnFees
    <3>1. PICK id \in 1..Len(position) : position' = [position EXCEPT ![id].fees = @ + 1]
      BY <2>1 DEF EarnFees
    <3>2. position \in Seq(Nft) /\ position[id] \in Nft
      BY DEF DataOK
    <3> DEFINE n == [position[id] EXCEPT !.fees = @ + 1]
    <3>3. n \in Nft
      <4>1. \A f \in Nat : [position[id] EXCEPT !.fees = f] \in Nft
        BY <3>2 DEF Nft
      <4>2. position[id].fees + 1 \in Nat
        BY <3>2 DEF Nft
      <4>3. QED
        BY <4>1, <4>2
    <3>4. position' = [position EXCEPT ![id] = n]
      BY <3>1, <3>2
    <3>5. QED
      BY <3>2, <3>3, <3>4
  <2>2. CASE PriceMoves \/ UNCHANGED vars
    BY <2>2 DEF PriceMoves, vars, chainVars, DataOK
  <2>3. QED
    BY <2>1, <2>2
<1>3. price' \in Price /\ moves' \in Nat /\ earned' \in Nat
  BY DEF EarnFees, PriceMoves, vars, chainVars, countVars, DataOK
<1>4. clean' \in BOOLEAN
  BY <1>1 DEF DataOK
<1>5. DataOK'
  BY <1>1, <1>2, <1>3, <1>4 DEF DataOK, Exists
<1>6. \A d \in Caller : JobOK(d, pc[d], job[d])'
  BY <1>1, <1>2 DEF CallerOK, JobOK, Exists
<1>7. CallerOK'
  BY <1>1, <1>6 DEF CallerOK, OneWaiter
<1>8. QED
  BY <1>5, <1>7

LEMMA RaiseSteps ==
  ASSUME DataOK, CallerOK, NEW c \in Caller,
         Refused(c) \/ Reverted(c) \/ TimedOut(c) \/ Unreadable(c) \/ Abort(c)
  PROVE  DataOK' /\ CallerOK'
BY RaiseDataOK DEF Refused, Reverted, TimedOut, Unreadable, Abort

LEMMA TypeStep == DataOK /\ CallerOK /\ [Next]_vars => DataOK' /\ CallerOK'
<1> SUFFICES ASSUME DataOK, CallerOK, [Next]_vars PROVE DataOK' /\ CallerOK'
  OBVIOUS
<1>1. ASSUME NEW c \in Caller, ReadToken(c) \/ Progress(c) \/ Abort(c)
      PROVE  DataOK' /\ CallerOK'
  BY <1>1, OutsideStep, LocalSteps, SendSteps, WriteSteps, AppendStep, RaiseSteps DEF Progress
<1>2. QED
  BY <1>1, MineStep, OutsideWorldStep DEF Next

LEMMA TypeInit == Init => DataOK /\ CallerOK
<1> SUFFICES ASSUME Init PROVE DataOK /\ CallerOK
  OBVIOUS
<1>1. position \in Seq(Nft) /\ Len(position) = 1 /\ price \in Price
  <2>1. PICK p \in Price, q \in Price :
          /\ position = <<[liq |-> Principal, owed |-> 0, fees |-> 0, at |-> p]>>
          /\ price = q
    BY DEF Init
  <2>2. [liq |-> Principal, owed |-> 0, fees |-> 0, at |-> p] \in Nft
    BY ValueAssumption DEF Nft
  <2>3. QED
    BY <2>1, <2>2
<1>2. wallet \in Nat /\ ZeroBooks \in Books
  BY ValueAssumption DEF Init, ZeroBooks, Books
<1>3. mempool \in Seq(Tx) /\ DOMAIN mempool = {} /\ history \in Seq([from : Nat, to : Nat])
  BY DEF Init
<1>4. clean \in BOOLEAN
  BY DEF Init
<1>5. DataOK
  BY <1>1, <1>2, <1>3, <1>4 DEF Init, DataOK, Exists
<1>6. CallerOK
  BY <1>3, NoJobOK DEF Init, CallerOK, JobOK, OneWaiter, Where, Late, Rows
<1>7. QED
  BY <1>5, <1>6

\* The variables keep their types, and nothing refers to an NFT that was not minted.
THEOREM TypeCorrect == Spec => []TypeOK
<1>1. DataOK /\ CallerOK => TypeOK
  BY TypeParts
<1>2. QED
  BY <1>1, TypeInit, TypeStep, PTL DEF Spec

-----------------------------------------------------------------------------
(* The books. *)

\* What the pass that holds the flock has counted and not written yet.
Owed == IF lock \in Caller THEN Unwritten(lock) ELSE ZeroBooks

\* What a pass read is still in the store in the rows it has not written: the flock is held
\* from load_state to the last row of _update.
BaseOK(at, j) ==
  /\ at \in {"token", "count"} => j.base = books /\ j.adds.count = 1
  /\ at = "gas" => j.base.gas = books.gas
  /\ at \in {"gas", "usdt"} => j.base.usdt = books.usdt
  /\ at \in Rows => j.base.bnb = books.bnb

\* Row by row: the store, what died with its pass, and what is still to be written.
BooksInv ==
  /\ books.count = ledger.count /\ lost.count = 0
  /\ Plus(Plus(books, lost), Owed) = ledger
  /\ aborts = 0 => lost = ZeroBooks
  /\ \A c \in Caller : BaseOK(pc[c], job[c])

LEMMA PlusZero ==
  ASSUME NEW b \in Books PROVE Plus(b, ZeroBooks) = b /\ ZeroBooks \in Books
BY DEF Plus, ZeroBooks, Books

LEMMA OwedIsBooks == CallerOK => Owed \in Books
BY DEF Owed, Unwritten, ZeroBooks, CallerOK, Job, Books

LEMMA OwesNothing ==
  ASSUME lock \in Caller => pc[lock] \notin Rows PROVE Owed = ZeroBooks
BY DEF Owed, Unwritten, ZeroBooks, Rows

LEMMA BooksFacts ==
  ASSUME DataOK, BooksInv, lock = NoCaller
  PROVE  NoLostUpdate
<1>1. Owed = ZeroBooks
  BY CallerAssumption, OwesNothing
<1>2. Plus(books, lost) \in Books
  BY PlusBooks DEF DataOK
<1>3. QED
  BY <1>1, <1>2, PlusZero DEF BooksInv, NoLostUpdate

\* A step that writes no totals, takes no caller past load_state and changes no base.
LEMMA KeepsBooks ==
  ASSUME BooksInv, UNCHANGED <<books, ledger, lost>>, Owed' = Owed,
         aborts' = 0 => aborts = 0,
         \A c \in Caller : BaseOK(pc'[c], job'[c])
  PROVE  BooksInv'
<1>1. \A c \in Caller : BaseOK(pc[c], job[c])'
  BY DEF BaseOK
<1>2. QED
  BY <1>1 DEF BooksInv, Plus

\* A step of one caller outside the writes of the totals.
LEMMA StepKeepsBooks ==
  ASSUME BooksInv, CallerOK, NEW c \in Caller, NEW from, NEW to, NEW l,
         Step(c, from, to, l), UNCHANGED <<books, ledger, lost, lock, aborts>>,
         from \notin Rows, to \notin Rows \cup {"token", "count"}
  PROVE  BooksInv'
<1>1. pc' = [pc EXCEPT ![c] = to] /\ job' = [job EXCEPT ![c] = l] /\ pc[c] = from
      /\ pc \in [Caller -> Where] /\ job \in [Caller -> Job]
  BY DEF Step, CallerOK
<1>2. Owed' = Owed
  <2>1. CASE lock = c
    BY <1>1, <2>1 DEF Owed, Unwritten, Rows
  <2>2. CASE lock # c
    BY <1>1, <2>2 DEF Owed, Unwritten
  <2>3. QED
    BY <2>1, <2>2
<1>3. \A d \in Caller : BaseOK(pc'[d], job'[d])
  BY <1>1 DEF BooksInv, BaseOK, Rows
<1>4. QED
  BY <1>2, <1>3, KeepsBooks

\* A caller leaves, and whatever it had counted and not written is lost.
LEMMA LeaveKeepsBooks ==
  ASSUME BooksInv, LockInv, DataOK, CallerOK, NEW c \in Caller, Leave(c),
         UNCHANGED <<books, ledger>>,
         \/ pc[c] \notin Rows /\ UNCHANGED lost
         \/ lost' = Plus(lost, Unwritten(c)),
         (aborts' = aborts /\ pc[c] \notin Rows) \/ aborts' = aborts + 1
  PROVE  BooksInv'
<1>1. /\ pc' = [pc EXCEPT ![c] = "idle"] /\ job' = [job EXCEPT ![c] = NoJob]
      /\ pc \in [Caller -> Where] /\ job \in [Caller -> Job]
      /\ lock' = IF lock = c THEN NoCaller ELSE lock
  BY DEF Leave, CallerOK
<1>2. \A d \in Caller : BaseOK(pc[d], job[d])'
  BY <1>1 DEF BooksInv, BaseOK, Rows
<1>3. Unwritten(c) \in Books /\ lost \in Books /\ books \in Books /\ ledger \in Books
      /\ aborts \in Nat
  BY DEF Unwritten, CallerOK, Job, Books, DataOK
<1>4. lost' = Plus(lost, Unwritten(c))
  <2>1. CASE pc[c] \notin Rows /\ UNCHANGED lost
    <3>1. Unwritten(c) = ZeroBooks
      BY <2>1 DEF Unwritten, ZeroBooks, Rows
    <3>2. QED
      BY <1>3, <2>1, <3>1, PlusZero
  <2>2. QED
    BY <2>1
<1>5. Plus(Plus(books, lost), Owed)' = ledger'
  <2>1. CASE lock = c
    <3>1. Owed = Unwritten(c) /\ Owed' = ZeroBooks
      BY <1>1, <2>1, CallerAssumption DEF Owed
    <3>2. Plus(Plus(books, lost), Unwritten(c)) = ledger
      BY <3>1 DEF BooksInv
    <3>3. Plus(Plus(books, lost), Unwritten(c)) = Plus(Plus(books, Plus(lost, Unwritten(c))), ZeroBooks)
      BY <1>3 DEF Plus, ZeroBooks, Books
    <3>4. QED
      BY <1>4, <3>1, <3>2, <3>3 DEF Plus
  <2>2. CASE lock # c
    <3>1. pc[c] \notin Rows
      BY <2>2 DEF LockInv, OneMover, Critical, Rows
    <3>2. Unwritten(c) = ZeroBooks
      BY <3>1 DEF Unwritten, ZeroBooks, Rows
    <3>3. lost' = lost
      BY <1>3, <1>4, <3>2, PlusZero
    <3>4. Owed' = Owed
      BY <1>1, <2>2 DEF Owed, Unwritten
    <3>5. QED
      BY <3>3, <3>4 DEF BooksInv, Plus
  <2>3. QED
    BY <2>1, <2>2
<1>6. lost'.count = 0
  BY <1>3, <1>4 DEF BooksInv, Plus, Unwritten
<1>7. aborts' = 0 => lost' = ZeroBooks
  <2>1. CASE aborts' = aborts /\ pc[c] \notin Rows
    <3>1. Unwritten(c) = ZeroBooks
      BY <2>1 DEF Unwritten, ZeroBooks, Rows
    <3>2. QED
      BY <1>3, <1>4, <2>1, <3>1, PlusZero DEF BooksInv
  <2>2. CASE aborts' = aborts + 1
    BY <1>3, <2>2
  <2>3. QED
    BY <2>1, <2>2
<1>8. QED
  BY <1>2, <1>5, <1>6, <1>7 DEF BooksInv

\* A row of the totals is written by the holder of the flock.
LEMMA RowKeepsBooks ==
  ASSUME BooksInv, LockInv, DataOK, CallerOK, NEW c \in Caller,
         WriteCount(c) \/ WriteGas(c) \/ WriteUsdt(c) \/ WriteBnb(c)
  PROVE  BooksInv'
<1> DEFINE j == job[c]
<1>1. /\ pc[c] \in Rows \cup {"count"} /\ pc \in [Caller -> Where] /\ job' = job
      /\ pc' \in [Caller -> Where] /\ \A d \in Caller : d # c => pc'[d] = pc[d]
      /\ j \in Job /\ UNCHANGED <<lost, lock, aborts>>
  <2>1. PICK from \in Rows \cup {"count"}, to \in Rows \cup {"history"} : Step(c, from, to, j)
    BY DEF WriteCount, WriteGas, WriteUsdt, WriteBnb, WriteRow, Rows
  <2>2. UNCHANGED <<lost, lock, aborts>>
    BY DEF WriteCount, WriteGas, WriteUsdt, WriteBnb, WriteRow, countVars
  <2>3. QED
    BY <2>1, <2>2 DEF Step, CallerOK, Where, Critical, Rows
<1>2. lock = c /\ Owed = Unwritten(c) /\ Owed' = Unwritten(c)'
  BY <1>1 DEF LockInv, OneMover, Critical, Rows, Owed
<1>3. \A d \in Caller : d # c => pc[d] \notin Rows \cup {"token", "count"}
  BY <1>2 DEF LockInv, OneMover, Critical, Rows
<1>4. /\ books \in Books /\ lost \in Books /\ ledger \in Books
      /\ j.base \in Books /\ j.adds \in Books
  BY <1>1 DEF DataOK, Job
<1>5. BaseOK(pc[c], j) /\ books.count = ledger.count /\ lost.count = 0
      /\ (aborts = 0 => lost = ZeroBooks)
      /\ Plus(Plus(books, lost), Unwritten(c)) = ledger
  BY <1>2 DEF BooksInv
<1>6. /\ books.count + lost.count + Unwritten(c).count = ledger.count
      /\ books.gas + lost.gas + Unwritten(c).gas = ledger.gas
      /\ books.usdt + lost.usdt + Unwritten(c).usdt = ledger.usdt
      /\ books.bnb + lost.bnb + Unwritten(c).bnb = ledger.bnb
  BY <1>5 DEF Plus
<1> DEFINE Done == /\ BaseOK(pc[c], job[c])' /\ books'.count = ledger'.count
                   /\ Plus(Plus(books, lost), Unwritten(c))' = ledger'
<1>7. ASSUME WriteCount(c) PROVE Done
  <2>1. /\ pc[c] = "count" /\ pc'[c] = "gas" /\ ledger' = Plus(ledger, j.adds)
        /\ books' = [books EXCEPT !.count = j.base.count + j.adds.count]
    BY <1>1, <1>7 DEF WriteCount, WriteRow, Step
  <2>2. j.base = books /\ j.adds.count = 1
    BY <1>5, <2>1 DEF BaseOK
  <2>3. /\ books'.count = books.count + 1 /\ books'.gas = books.gas
        /\ books'.usdt = books.usdt /\ books'.bnb = books.bnb
    BY <1>4, <2>1, <2>2 DEF Books
  <2>4. Unwritten(c)' = [count |-> 0, gas |-> j.adds.gas, usdt |-> j.adds.usdt, bnb |-> j.adds.bnb]
    BY <1>1, <2>1 DEF Unwritten
  <2>5. /\ Unwritten(c).count = 0 /\ Unwritten(c).gas = 0
        /\ Unwritten(c).usdt = 0 /\ Unwritten(c).bnb = 0
    BY <2>1 DEF Unwritten
  <2>6. /\ books'.count = ledger'.count
        /\ books'.count + lost.count = ledger'.count
        /\ books'.gas + lost.gas + j.adds.gas = ledger'.gas
        /\ books'.usdt + lost.usdt + j.adds.usdt = ledger'.usdt
        /\ books'.bnb + lost.bnb + j.adds.bnb = ledger'.bnb
    BY <1>4, <1>5, <1>6, <2>1, <2>2, <2>3, <2>5 DEF Books, Plus
  <2>7. Plus(Plus(books, lost), Unwritten(c))' = ledger'
    BY <1>1, <1>4, <2>1, <2>3, <2>4, <2>6 DEF Plus, Books
  <2>8. BaseOK(pc[c], job[c])'
    BY <1>1, <2>1, <2>2, <2>3 DEF BaseOK, Rows
  <2>9. QED
    BY <2>6, <2>7, <2>8
<1>8. ASSUME WriteGas(c) PROVE Done
  <2>1. /\ pc[c] = "gas" /\ pc'[c] = "usdt" /\ ledger' = ledger
        /\ books' = [books EXCEPT !.gas = j.base.gas + j.adds.gas]
    BY <1>1, <1>8 DEF WriteGas, WriteRow, Step
  <2>2. j.base.gas = books.gas /\ j.base.usdt = books.usdt /\ j.base.bnb = books.bnb
    BY <1>5, <2>1 DEF BaseOK, Rows
  <2>3. /\ books'.count = books.count /\ books'.gas = books.gas + j.adds.gas
        /\ books'.usdt = books.usdt /\ books'.bnb = books.bnb
    BY <1>4, <2>1, <2>2 DEF Books
  <2>4. Unwritten(c)' = [count |-> 0, gas |-> 0, usdt |-> j.adds.usdt, bnb |-> j.adds.bnb]
    BY <1>1, <2>1 DEF Unwritten
  <2>5. Unwritten(c) = [count |-> 0, gas |-> j.adds.gas, usdt |-> j.adds.usdt, bnb |-> j.adds.bnb]
    BY <2>1 DEF Unwritten
  <2>6. Plus(Plus(books, lost), Unwritten(c))' = ledger'
    BY <1>1, <1>4, <1>5, <2>1, <2>3, <2>4, <2>5 DEF Plus, Books
  <2>7. BaseOK(pc[c], job[c])'
    BY <1>1, <2>1, <2>2, <2>3 DEF BaseOK, Rows
  <2>8. QED
    BY <1>5, <2>1, <2>3, <2>6, <2>7
<1>9. ASSUME WriteUsdt(c) PROVE Done
  <2>1. /\ pc[c] = "usdt" /\ pc'[c] = "bnb" /\ ledger' = ledger
        /\ books' = [books EXCEPT !.usdt = j.base.usdt + j.adds.usdt]
    BY <1>1, <1>9 DEF WriteUsdt, WriteRow, Step
  <2>2. j.base.usdt = books.usdt /\ j.base.bnb = books.bnb
    BY <1>5, <2>1 DEF BaseOK, Rows
  <2>3. /\ books'.count = books.count /\ books'.gas = books.gas
        /\ books'.usdt = books.usdt + j.adds.usdt /\ books'.bnb = books.bnb
    BY <1>4, <2>1, <2>2 DEF Books
  <2>4. Unwritten(c)' = [count |-> 0, gas |-> 0, usdt |-> 0, bnb |-> j.adds.bnb]
    BY <1>1, <2>1 DEF Unwritten
  <2>5. Unwritten(c) = [count |-> 0, gas |-> 0, usdt |-> j.adds.usdt, bnb |-> j.adds.bnb]
    BY <2>1 DEF Unwritten
  <2>6. Plus(Plus(books, lost), Unwritten(c))' = ledger'
    BY <1>1, <1>4, <1>5, <2>1, <2>3, <2>4, <2>5 DEF Plus, Books
  <2>7. BaseOK(pc[c], job[c])'
    BY <1>1, <2>1, <2>2, <2>3 DEF BaseOK, Rows
  <2>8. QED
    BY <1>5, <2>1, <2>3, <2>6, <2>7
<1>10. ASSUME WriteBnb(c) PROVE Done
  <2>1. /\ pc[c] = "bnb" /\ pc'[c] = "history" /\ ledger' = ledger
        /\ books' = [books EXCEPT !.bnb = j.base.bnb + j.adds.bnb]
    BY <1>1, <1>10 DEF WriteBnb, WriteRow, Step
  <2>2. j.base.bnb = books.bnb
    BY <1>5, <2>1 DEF BaseOK, Rows
  <2>3. /\ books'.count = books.count /\ books'.gas = books.gas
        /\ books'.usdt = books.usdt /\ books'.bnb = books.bnb + j.adds.bnb
    BY <1>4, <2>1, <2>2 DEF Books
  <2>4. Unwritten(c)' = [count |-> 0, gas |-> 0, usdt |-> 0, bnb |-> 0]
    BY <1>1, <2>1 DEF Unwritten
  <2>5. Unwritten(c) = [count |-> 0, gas |-> 0, usdt |-> 0, bnb |-> j.adds.bnb]
    BY <2>1 DEF Unwritten
  <2>6. Plus(Plus(books, lost), Unwritten(c))' = ledger'
    BY <1>1, <1>4, <1>5, <2>1, <2>3, <2>4, <2>5 DEF Plus, Books
  <2>7. BaseOK(pc[c], job[c])'
    BY <1>1, <2>1 DEF BaseOK, Rows
  <2>8. QED
    BY <1>5, <2>1, <2>3, <2>6, <2>7
<1>11. Done
  BY <1>7, <1>8, <1>9, <1>10
<1>12. \A d \in Caller : BaseOK(pc[d], job[d])'
  BY <1>1, <1>3, <1>11 DEF BaseOK, Rows
<1>13. Plus(Plus(books, lost), Owed)' = ledger'
  BY <1>2, <1>11 DEF Plus
<1>14. QED
  BY <1>1, <1>5, <1>11, <1>12, <1>13 DEF BooksInv

LEMMA BooksStep ==
  ASSUME BooksInv, LockInv, DataOK, CallerOK, [Next]_vars
  PROVE  BooksInv'
<1> pc \in [Caller -> Where] /\ job \in [Caller -> Job]
  BY DEF CallerOK
<1>1. ASSUME NEW c \in Caller, ReadToken(c) \/ ReadSummary(c) \/ LockBusy(c) PROVE BooksInv'
  BY <1>1, StepKeepsBooks
     DEF ReadToken, ReadSummary, LockBusy, Local, storeVars, countVars, ghostVars, Rows
<1>2. ASSUME NEW c \in Caller, AcquireLock(c) PROVE BooksInv'
  <2>1. /\ lock = NoCaller /\ lock' = c /\ pc' = [pc EXCEPT ![c] = "inspect"] /\ job' = job
        /\ pc[c] = "lock" /\ UNCHANGED <<books, ledger, lost, aborts>>
    BY <1>2 DEF AcquireLock, Step, storeVars, countVars, ghostVars
  <2>2. Owed = ZeroBooks
    BY <2>1, CallerAssumption, OwesNothing
  <2>3. Owed' = ZeroBooks
    BY <2>1 DEF Owed, Unwritten, ZeroBooks
  <2>4. \A d \in Caller : BaseOK(pc'[d], job'[d])
    BY <2>1 DEF BooksInv, BaseOK, Rows
  <2>5. QED
    BY <2>1, <2>2, <2>3, <2>4, KeepsBooks
<1>3. ASSUME NEW c \in Caller, Inspect(c) \/ ReadFees(c) \/ Quote(c) \/ Requote(c) \/ Verify(c)
      PROVE  BooksInv'
  BY <1>3, StepKeepsBooks DEF Inspect, ReadFees, Quote, Requote, Verify, Local, storeVars,
                              countVars, ghostVars, Rows
<1>4. ASSUME NEW c \in Caller, SendDecrease(c) \/ SendCollect(c) \/ SendSwap(c) \/ SendMint(c)
      PROVE  BooksInv'
  BY <1>4, StepKeepsBooks DEF SendDecrease, SendCollect, SendSwap, SendMint, Send, storeVars,
                              countVars, ghostVars, Rows
<1>5. ASSUME NEW c \in Caller, Confirmed(c) PROVE BooksInv'
  <2>1. pc[c] \notin Rows /\ After(pc[c]) \notin Rows \cup {"token", "count"}
    BY <1>5 DEF Confirmed, After, Awaiting, Rows
  <2>2. QED
    BY <1>5, <2>1, StepKeepsBooks DEF Confirmed, Local, storeVars, countVars, ghostVars
<1>6. ASSUME NEW c \in Caller, Load(c) PROVE BooksInv'
  <2>1. PICK adds \in Books :
          /\ pc[c] = "load" /\ adds.count = 1
          /\ pc' = [pc EXCEPT ![c] = "token"]
          /\ job' = [job EXCEPT ![c] = [job[c] EXCEPT !.base = books, !.adds = adds]]
          /\ UNCHANGED <<books, ledger, lost, lock, aborts>>
    <3>1. PICK part \in 0..job[c].fees :
            Local(c, "load", "token", [job[c] EXCEPT !.base = books,
              !.adds = [count |-> 1, gas |-> job[c].gas, usdt |-> part, bnb |-> job[c].fees - part]])
      BY <1>6 DEF Load
    <3>2. job[c].fees \in Nat /\ job[c].gas \in Nat
      BY DEF Job
    <3>3. part \in Nat /\ job[c].fees - part \in Nat
      BY <3>2
    <3>4. [count |-> 1, gas |-> job[c].gas, usdt |-> part, bnb |-> job[c].fees - part] \in Books
      BY <3>2, <3>3 DEF Books
    <3>5. QED
      BY <3>1, <3>4 DEF Local, Step, storeVars, countVars, ghostVars
  <2>2. job'[c].base = books /\ job'[c].adds.count = 1 /\ pc'[c] = "token"
    BY <2>1 DEF Job
  <2>3. \A d \in Caller : d # c => pc'[d] = pc[d] /\ job'[d] = job[d]
    BY <2>1
  <2>4. Owed' = Owed
    BY <2>1, <2>2, <2>3 DEF Owed, Unwritten
  <2>5. \A d \in Caller : BaseOK(pc'[d], job'[d])
    BY <2>2, <2>3 DEF BooksInv, BaseOK, Rows
  <2>6. QED
    BY <2>1, <2>4, <2>5, KeepsBooks
<1>7. ASSUME NEW c \in Caller, WriteToken(c) PROVE BooksInv'
  <2>1. /\ pc[c] = "token" /\ pc' = [pc EXCEPT ![c] = "count"] /\ job' = job
        /\ UNCHANGED <<books, ledger, lost, lock, aborts>>
    BY <1>7 DEF WriteToken, Step, countVars
  <2>2. Owed' = Owed
    BY <2>1 DEF Owed, Unwritten
  <2>3. \A d \in Caller : BaseOK(pc'[d], job'[d])
    BY <2>1 DEF BooksInv, BaseOK, Rows
  <2>4. QED
    BY <2>1, <2>2, <2>3, KeepsBooks
<1>8. ASSUME NEW c \in Caller,
             WriteCount(c) \/ WriteGas(c) \/ WriteUsdt(c) \/ WriteBnb(c)
      PROVE  BooksInv'
  BY <1>8, RowKeepsBooks
<1>9. ASSUME NEW c \in Caller, AppendHistory(c) PROVE BooksInv'
  BY <1>9, LeaveKeepsBooks DEF AppendHistory, countVars, ghostVars, Rows
<1>10. ASSUME NEW c \in Caller, Refused(c) \/ Reverted(c) \/ TimedOut(c) \/ Unreadable(c)
       PROVE  BooksInv'
  <2>1. pc[c] \notin Rows /\ Raise(c) /\ aborts' = aborts
    BY <1>10 DEF Refused, Reverted, TimedOut, Unreadable, Awaiting, Rows
  <2>2. QED
    BY <2>1, LeaveKeepsBooks DEF Raise, storeVars
<1>11. ASSUME NEW c \in Caller, Abort(c) PROVE BooksInv'
  BY <1>11, LeaveKeepsBooks DEF Abort, Raise, storeVars
<1>12. ASSUME NEW outcome, NEW id, Mined(outcome, id) PROVE BooksInv'
  <2>1. \A j \in Job : LET k == [j EXCEPT !.receipt = outcome, !.new = id]
                       IN  k.base = j.base /\ k.adds = j.adds
    BY DEF Job
  <2>2. \A c \in Caller : job'[c].base = job[c].base /\ job'[c].adds = job[c].adds
    BY <1>12, <2>1 DEF Mined
  <2>3. UNCHANGED <<books, ledger, lost, pc, lock, aborts>>
    BY <1>12 DEF Mined, storeVars, countVars, ghostVars
  <2>4. Owed' = Owed
    BY <2>2, <2>3 DEF Owed, Unwritten
  <2>5. \A c \in Caller : BaseOK(pc'[c], job'[c])
    BY <2>2, <2>3 DEF BooksInv, BaseOK
  <2>6. QED
    BY <2>3, <2>4, <2>5, KeepsBooks
<1>13. CASE Mine
  <2>1. \E outcome, id : Mined(outcome, id)
    BY <1>13 DEF Mine, MineDecrease, MineCollect, MineSwap, MineMint, MineRevert
  <2>2. QED
    BY <1>12, <2>1
<1>14. CASE EarnFees \/ PriceMoves \/ UNCHANGED vars
  <2>1. UNCHANGED <<books, ledger, lost, pc, job, lock, aborts>>
    BY <1>14 DEF EarnFees, PriceMoves, vars, storeVars, countVars, ghostVars
  <2>2. Owed' = Owed /\ \A c \in Caller : BaseOK(pc'[c], job'[c])
    BY <2>1 DEF Owed, Unwritten, BooksInv, BaseOK
  <2>3. QED
    BY <2>1, <2>2, KeepsBooks
<1>15. QED
  BY <1>1, <1>2, <1>3, <1>4, <1>5, <1>6, <1>7, <1>8, <1>9, <1>10, <1>11, <1>13, <1>14
     DEF Next, Progress

LEMMA BooksInit == Init => BooksInv
<1> SUFFICES ASSUME Init PROVE BooksInv
  OBVIOUS
<1>1. books = ZeroBooks /\ ledger = ZeroBooks /\ lost = ZeroBooks /\ lock = NoCaller
  BY DEF Init
<1>2. Owed = ZeroBooks
  BY <1>1, CallerAssumption DEF Owed
<1>3. Plus(Plus(ZeroBooks, ZeroBooks), ZeroBooks) = ZeroBooks
  BY DEF Plus, ZeroBooks
<1>4. \A c \in Caller : BaseOK(pc[c], job[c])
  BY DEF Init, BaseOK, Rows
<1>5. QED
  BY <1>1, <1>2, <1>3, <1>4 DEF BooksInv, ZeroBooks

\* No pass overwrites with what it read before what another pass added to the totals, for
\* any callers and faults: whenever nobody is rebalancing, each row and what died with the
\* passes that were inside their _update is the sum of the passes counted.
THEOREM BooksAddUp == Spec => []NoLostUpdate
<1>1. Init => LockInv
  BY CallerAssumption DEF Init, LockInv, OneMover, Where, Critical, Awaiting
<1>2. DataOK /\ BooksInv => NoLostUpdate
  BY BooksFacts DEF BooksInv, NoLostUpdate
<1>3. LockInv /\ DataOK /\ CallerOK /\ BooksInv /\ [Next]_vars
        => LockInv' /\ DataOK' /\ CallerOK' /\ BooksInv'
  BY LockStep, TypeStep, BooksStep
<1>4. QED
  BY <1>1, <1>2, <1>3, BooksInit, TypeInit, PTL DEF Spec

-----------------------------------------------------------------------------
(* Refinement of SingleFlight. *)

\* The places of a pass whose new NFT is recorded.
Written == Rows \cup {"count", "history"}

\* The NFT a pass has minted, and not yet recorded, is younger than the one the
\* store points at.
FreshInv == \A c \in Caller :
  /\ pc[c] \notin Critical => job[c].new = 0
  /\ job[c].new # 0 /\ pc[c] \notin Written => job[c].new > token

LEMMA StepKeepsFresh ==
  ASSUME FreshInv, CallerOK, NEW c \in Caller, NEW from \in Where, NEW to \in Where, NEW l,
         Step(c, from, to, l), UNCHANGED token, l.new = job[c].new,
         to \notin Critical => from \notin Critical, from \notin Written
  PROVE  FreshInv'
BY DEF FreshInv, CallerOK, Step

LEMMA LeaveKeepsFresh ==
  ASSUME FreshInv, CallerOK, NEW c \in Caller, Leave(c), UNCHANGED token
  PROVE  FreshInv'
BY NoJobOK DEF FreshInv, CallerOK, Leave

LEMMA MinedKeepsFresh ==
  ASSUME FreshInv, DataOK, CallerOK, mempool # <<>>, NEW outcome, NEW id \in Nat,
         Mined(outcome, id), id = 0 \/ id > token
  PROVE  FreshInv'
<1> DEFINE t == Head(mempool)
<1>1. t = mempool[1] /\ 1 \in DOMAIN mempool
  BY DEF DataOK
<1>2. t.by \in Caller => pc[t.by] \in Awaiting
  BY <1>1 DEF CallerOK, OneWaiter
<1>3. \A j \in Job : [j EXCEPT !.receipt = outcome, !.new = id].new = id
  BY DEF Job
<1>4. \A c \in Caller : job'[c].new = IF c = t.by THEN id ELSE job[c].new
  BY <1>3 DEF Mined, CallerOK
<1>5. UNCHANGED <<pc, token>>
  BY DEF Mined, storeVars
<1>6. QED
  BY <1>2, <1>4, <1>5 DEF FreshInv, Critical

LEMMA FreshStep ==
  ASSUME FreshInv, LockInv, DataOK, CallerOK, [Next]_vars
  PROVE  FreshInv'
<1>1. pc \in [Caller -> Where] /\ job \in [Caller -> Job]
  BY DEF CallerOK
<1>2. ASSUME NEW c \in Caller, ReadToken(c) PROVE FreshInv'
  <2> DEFINE l == [job[c] EXCEPT !.tok = token]
  <2>1. l.new = job[c].new
    BY <1>1 DEF Job
  <2>2. Step(c, "idle", "summary", l) /\ UNCHANGED token
    BY <1>2 DEF ReadToken, storeVars
  <2> HIDE DEF l
  <2>3. QED
    BY <2>1, <2>2, StepKeepsFresh DEF Where, Critical, Awaiting, Written, Rows
<1>3. ASSUME NEW c \in Caller, ReadSummary(c) \/ LockBusy(c) PROVE FreshInv'
  BY <1>1, <1>3, NoJobOK
     DEF FreshInv, ReadSummary, LockBusy, Local, Step, storeVars, Critical, Awaiting, Written, Rows
<1>4. ASSUME NEW c \in Caller, AcquireLock(c) PROVE FreshInv'
  BY <1>4, StepKeepsFresh DEF AcquireLock, storeVars, Where, Critical, Awaiting, Written, Rows
<1>5. ASSUME NEW c \in Caller, NEW from \in Where, NEW to \in Critical, NEW l,
             Local(c, from, to, l), l.new = job[c].new, from \notin Written
      PROVE  FreshInv'
  BY <1>5, StepKeepsFresh DEF Local, storeVars, Where
<1>6. ASSUME NEW c \in Caller,
             Inspect(c) \/ ReadFees(c) \/ Quote(c) \/ Requote(c) \/ Verify(c) \/ Load(c)
      PROVE  FreshInv'
  <2>1. /\ \A x : [job[c] EXCEPT !.liq = x].new = job[c].new
        /\ \A x : [job[c] EXCEPT !.fees = x].new = job[c].new
        /\ \A x : [job[c] EXCEPT !.amt = x].new = job[c].new
        /\ \A x, y : [job[c] EXCEPT !.base = x, !.adds = y].new = job[c].new
        /\ \A x, y : [job[c] EXCEPT !.at = x, !.amt = y].new = job[c].new
    BY <1>1 DEF Job
  <2> DEFINE places == {"inspect", "fees", "quote", "requote", "confirm", "load"}
             nexts == {"fees", "decrease", "collect", "swap", "mint", "load", "token"}
  <2>2. ASSUME NEW from \in places, NEW to \in nexts, NEW l,
               Local(c, from, to, l), l.new = job[c].new
        PROVE  FreshInv'
    BY <1>5, <2>2 DEF Where, Critical, Awaiting, Written, Rows
  <2>3. CASE Inspect(c)
    <3> DEFINE l == [job[c] EXCEPT !.liq = position[job[c].tok].liq]
    <3>1. \E to \in {"fees"} : Local(c, "inspect", to, l)
      BY <2>3 DEF Inspect
    <3>2. l.new = job[c].new
      BY <2>1
    <3> HIDE DEF l
    <3>3. QED
      BY <2>2, <3>1, <3>2
  <2>4. CASE ReadFees(c)
    <3> DEFINE l == [job[c] EXCEPT !.fees = Pending(job[c].tok)]
    <3>1. \E to \in {"decrease", "collect"} : Local(c, "fees", to, l)
      BY <2>4 DEF ReadFees
    <3>2. l.new = job[c].new
      BY <2>1
    <3> HIDE DEF l
    <3>3. QED
      BY <2>2, <3>1, <3>2
  <2>5. CASE Quote(c)
    <3> DEFINE l == [job[c] EXCEPT !.at = price, !.amt = wallet]
    <3>1. \E to \in {"swap", "mint"} : Local(c, "quote", to, l)
      BY <2>5 DEF Quote
    <3>2. l.new = job[c].new
      BY <2>1
    <3> HIDE DEF l
    <3>3. QED
      BY <2>2, <3>1, <3>2
  <2>6. CASE Requote(c)
    <3> DEFINE l == [job[c] EXCEPT !.amt = wallet]
    <3>1. \E to \in {"mint"} : Local(c, "requote", to, l)
      BY <2>6 DEF Requote
    <3>2. l.new = job[c].new
      BY <2>1
    <3> HIDE DEF l
    <3>3. QED
      BY <2>2, <3>1, <3>2
  <2>7. CASE Verify(c)
    <3> DEFINE l == job[c]
    <3>1. \E to \in {"load"} : Local(c, "confirm", to, l)
      BY <2>7 DEF Verify
    <3>2. l.new = job[c].new
      BY <2>1
    <3> HIDE DEF l
    <3>3. QED
      BY <2>2, <3>1, <3>2
  <2>8. CASE Load(c)
    <3>1. PICK part \in 0..job[c].fees :
            Local(c, "load", "token", [job[c] EXCEPT !.base = books,
              !.adds = [count |-> 1, gas |-> job[c].gas, usdt |-> part, bnb |-> job[c].fees - part]])
      BY <2>8 DEF Load
    <3> DEFINE l == [job[c] EXCEPT !.base = books,
              !.adds = [count |-> 1, gas |-> job[c].gas, usdt |-> part, bnb |-> job[c].fees - part]]
    <3>2. l.new = job[c].new /\ \E to \in {"token"} : Local(c, "load", to, l)
      BY <2>1, <3>1
    <3> HIDE DEF l
    <3>3. QED
      BY <2>2, <3>2
  <2>9. QED
    BY <1>6, <2>3, <2>4, <2>5, <2>6, <2>7, <2>8
<1>7. ASSUME NEW c \in Caller, Confirmed(c) PROVE FreshInv'
  <2> DEFINE l == [job[c] EXCEPT !.gas = @ + 1, !.receipt = "none"]
  <2>1. l.new = job[c].new
    BY <1>1 DEF Job
  <2>2. Local(c, pc[c], After(pc[c]), l) /\ pc[c] \in Awaiting
    BY <1>7 DEF Confirmed
  <2>3. pc[c] \in Where /\ After(pc[c]) \in Critical /\ pc[c] \notin Written
    BY <2>2 DEF After, Where, Critical, Awaiting, Written, Rows
  <2> HIDE DEF l
  <2>4. QED
    BY <1>5, <2>1, <2>2, <2>3
<1>8. ASSUME NEW c \in Caller, SendDecrease(c) \/ SendCollect(c) \/ SendSwap(c) \/ SendMint(c)
      PROVE  FreshInv'
  <2>1. PICK from \in {"decrease", "collect", "swap", "mint"},
             to \in {"decreasing", "collecting", "swapping", "minting"} :
          Step(c, from, to, job[c]) /\ UNCHANGED <<storeVars, ghostVars>>
    BY <1>8 DEF SendDecrease, SendCollect, SendSwap, SendMint, Send
  <2>2. QED
    BY <2>1, StepKeepsFresh DEF storeVars, ghostVars, Where, Critical, Awaiting,
                                 Written, Rows
<1>9. ASSUME NEW c \in Caller, WriteToken(c) PROVE FreshInv'
  <2>1. pc[c] = "token" /\ pc' = [pc EXCEPT ![c] = "count"] /\ job' = [job EXCEPT ![c] = job[c]]
    BY <1>9 DEF WriteToken, Step
  <2>2. \A d \in Caller : d # c => pc[d] \notin Critical
    BY <2>1 DEF LockInv, OneMover, Critical
  <2>3. QED
    BY <1>1, <2>1, <2>2 DEF FreshInv, Critical, Written
<1>10. ASSUME NEW c \in Caller,
              WriteCount(c) \/ WriteGas(c) \/ WriteUsdt(c) \/ WriteBnb(c)
       PROVE  FreshInv'
  <2>1. PICK from \in Written, to \in Written : Step(c, from, to, job[c]) /\ UNCHANGED token
    BY <1>10 DEF WriteCount, WriteGas, WriteUsdt, WriteBnb, WriteRow, Written, Rows
  <2>2. QED
    BY <1>1, <2>1 DEF FreshInv, Step, Critical, Written, Rows
<1>11. ASSUME NEW c \in Caller,
              AppendHistory(c) \/ Refused(c) \/ Reverted(c) \/ TimedOut(c) \/ Unreadable(c)
              \/ Abort(c)
       PROVE  FreshInv'
  BY <1>11, LeaveKeepsFresh
     DEF AppendHistory, Refused, Reverted, TimedOut, Unreadable, Abort, Raise, storeVars
<1>12. CASE Mine
  <2>1. PICK outcome \in {"ok", "reverted"}, id \in {0, Len(position) + 1} : Mined(outcome, id)
    BY <1>12 DEF Mine, MineDecrease, MineCollect, MineSwap, MineMint, MineRevert
  <2>2. id \in Nat /\ (id = 0 \/ id > token)
    BY <2>1 DEF DataOK, Exists
  <2>3. mempool # <<>>
    BY <1>12 DEF Mine
  <2>4. QED
    BY <2>1, <2>2, <2>3, MinedKeepsFresh
<1>13. CASE EarnFees \/ PriceMoves \/ UNCHANGED vars
  BY <1>13 DEF EarnFees, PriceMoves, vars, storeVars, FreshInv
<1>14. QED
  BY <1>2, <1>3, <1>4, <1>6, <1>7, <1>8, <1>9, <1>10, <1>11, <1>12, <1>13 DEF Next, Progress

\* A step that stays clear of the writes to the store is a stutter of the flight.
LEMMA StepStutters ==
  ASSUME CallerOK, NEW c \in Caller, NEW from, NEW to, NEW l, Step(c, from, to, l),
         UNCHANGED <<lock, token>>, books'.count = books.count,
         {from, to} \cap Written = {} \/ {from, to} \subseteq Written \ {"count"}
  PROVE  UNCHANGED Flight!vars
<1>1. Recorded' = Recorded
  <2>1. CASE lock = c
    BY <2>1 DEF CallerOK, Step, Recorded, Written, Rows
  <2>2. CASE lock # c
    BY <2>2 DEF CallerOK, Step, Recorded
  <2>3. QED
    BY <2>1, <2>2
<1>2. QED
  BY <1>1 DEF Flight!vars

LEMMA LeaveEnds ==
  ASSUME CallerOK, NEW c \in Caller, Leave(c), UNCHANGED <<token, books>>
  PROVE  [Flight!Next]_Flight!vars
<1>1. CASE lock = c
  <2>1. lock' = NoCaller /\ Recorded' = "free" /\ UNCHANGED <<token, books>>
    BY <1>1 DEF Leave, Recorded
  <2>2. Flight!End(c)
    BY <1>1, <2>1 DEF Flight!End
  <2>3. QED
    BY <2>2 DEF Flight!Next
<1>2. CASE lock # c
  BY <1>2 DEF CallerOK, Leave, Recorded, Flight!vars
<1>3. QED
  BY <1>1, <1>2

LEMMA FlightStep ==
  ASSUME LockInv, DataOK, CallerOK, BooksInv, FreshInv, [Next]_vars
  PROVE  [Flight!Next]_Flight!vars
<1>1. ASSUME NEW c \in Caller, ReadToken(c) \/ ReadSummary(c) \/ LockBusy(c)
      PROVE  UNCHANGED Flight!vars
  BY <1>1, StepStutters DEF ReadToken, ReadSummary, LockBusy, Local, storeVars,
                                Written, Rows
<1>2. ASSUME NEW c \in Caller, AcquireLock(c) PROVE Flight!Begin(c)
  BY <1>2, CallerAssumption DEF AcquireLock, Step, storeVars, CallerOK, Recorded, Flight!Begin
<1>3. ASSUME NEW c \in Caller,
             Inspect(c) \/ ReadFees(c) \/ Quote(c) \/ Requote(c) \/ Verify(c) \/ Load(c)
      PROVE  UNCHANGED Flight!vars
  <2>1. \E from \in {"inspect", "fees", "quote", "requote", "confirm", "load"},
          to \in {"fees", "decrease", "collect", "swap", "mint", "load", "token"} : \E l :
          Local(c, from, to, l)
    BY <1>3 DEF Inspect, ReadFees, Quote, Requote, Verify, Load
  <2>2. QED
    BY <2>1, StepStutters DEF Local, storeVars, Written, Rows
<1>4. ASSUME NEW c \in Caller, SendDecrease(c) \/ SendCollect(c) \/ SendSwap(c) \/ SendMint(c)
      PROVE  UNCHANGED Flight!vars
  BY <1>4, StepStutters DEF SendDecrease, SendCollect, SendSwap, SendMint, Send, storeVars,
                                Written, Rows
<1>5. ASSUME NEW c \in Caller, Confirmed(c) PROVE UNCHANGED Flight!vars
  <2>1. {pc[c], After(pc[c])} \cap Written = {}
    BY <1>5 DEF Confirmed, After, Awaiting, Written, Rows
  <2>2. QED
    BY <1>5, <2>1, StepStutters DEF Confirmed, Local, storeVars
<1>6. ASSUME NEW c \in Caller, WriteToken(c) PROVE Flight!Repoint(c)
  <2>1. pc[c] = "token" /\ lock = c /\ c # NoCaller
    BY <1>6, CallerAssumption DEF WriteToken, Step, LockInv, OneMover, Critical
  <2>2. Recorded = "moving" /\ Recorded' = "repointed"
    BY <1>6, <2>1 DEF WriteToken, Step, CallerOK, Recorded
  <2>3. job[c].new \in Nat /\ job[c].new > token
    BY <2>1 DEF CallerOK, JobOK, Late, Job, FreshInv, Written, Rows
  <2>4. QED
    BY <1>6, <2>1, <2>2, <2>3 DEF WriteToken, Flight!Repoint
<1>7. ASSUME NEW c \in Caller, WriteCount(c) PROVE Flight!Account(c)
  <2>1. pc[c] = "count" /\ lock = c /\ c # NoCaller
    BY <1>7, CallerAssumption DEF WriteCount, WriteRow, Step, LockInv, OneMover, Critical
  <2>2. Recorded = "repointed" /\ Recorded' = "counted"
    BY <1>7, <2>1 DEF WriteCount, WriteRow, Step, CallerOK, Recorded
  <2>3. books'.count = books.count + 1
    BY <1>7, <2>1 DEF WriteCount, WriteRow, BooksInv, BaseOK, DataOK, Books
  <2>4. QED
    BY <1>7, <2>1, <2>2, <2>3 DEF WriteCount, WriteRow, Flight!Account
<1>8. ASSUME NEW c \in Caller, WriteGas(c) \/ WriteUsdt(c) \/ WriteBnb(c)
       PROVE  UNCHANGED Flight!vars
  <2>1. PICK from \in Rows, to \in Written \ {"count"} : Step(c, from, to, job[c])
    BY <1>8 DEF WriteGas, WriteUsdt, WriteBnb, WriteRow, Written, Rows
  <2>2. UNCHANGED <<lock, token>> /\ books'.count = books.count
    BY <1>8 DEF WriteGas, WriteUsdt, WriteBnb, WriteRow, DataOK, Books
  <2>3. {from, to} \subseteq Written \ {"count"}
    BY <2>1 DEF Written, Rows
  <2>4. QED
    BY <2>1, <2>2, <2>3, StepStutters
<1>9. ASSUME NEW c \in Caller, AppendHistory(c) \/ Refused(c) \/ Reverted(c) \/ TimedOut(c)
                              \/ Unreadable(c) \/ Abort(c)
      PROVE  [Flight!Next]_Flight!vars
  BY <1>9, LeaveEnds
     DEF AppendHistory, Refused, Reverted, TimedOut, Unreadable, Abort, Raise, storeVars
<1>10. CASE Mine \/ EarnFees \/ PriceMoves \/ UNCHANGED vars
  <2>1. UNCHANGED <<lock, pc, token, books>>
    BY <1>10 DEF Mine, MineDecrease, MineCollect, MineSwap, MineMint, MineRevert, Mined,
                EarnFees, PriceMoves, vars, storeVars
  <2>2. QED
    BY <2>1 DEF Recorded, Flight!vars
<1>11. QED
  BY <1>1, <1>2, <1>3, <1>4, <1>5, <1>6, <1>7, <1>8, <1>9, <1>10 DEF Next, Progress, Flight!Next

\* Every behaviour of rebalance() is one of SingleFlight: passes do not overlap, each
\* moves the store on to a younger NFT at most once and is counted at most once.
THEOREM Refinement == Spec => ImplementsSingleFlight
<1>1. Init => LockInv /\ BooksInv /\ FreshInv
  BY CallerAssumption, NoJobOK, BooksInit
     DEF Init, LockInv, OneMover, FreshInv, Where, Critical, Awaiting
<1>2. Init => Flight!Init
  BY DEF Init, Flight!Init, Recorded, ZeroBooks
<1>3. LockInv /\ DataOK /\ CallerOK /\ BooksInv /\ FreshInv /\ [Next]_vars
        => LockInv' /\ DataOK' /\ CallerOK' /\ BooksInv' /\ FreshInv'
  BY LockStep, TypeStep, BooksStep, FreshStep
<1>4. LockInv /\ DataOK /\ CallerOK /\ BooksInv /\ FreshInv /\ [Next]_vars
        => [Flight!Next]_Flight!vars
  BY FlightStep
<1>5. QED
  BY <1>1, <1>2, <1>3, <1>4, TypeInit, PTL DEF Spec, ImplementsSingleFlight, Flight!Spec

=============================================================================
