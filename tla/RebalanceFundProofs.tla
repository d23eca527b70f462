------------------------- MODULE RebalanceFundProofs -------------------------
(***************************************************************************)
(* Further theorems about Rebalance: what the history accounts for, and    *)
(* where the funds are when the store is repointed.                        *)
(***************************************************************************)
EXTENDS RebalanceProofs

-----------------------------------------------------------------------------
(* The history. *)

\* A pass has counted itself and has still to append its entry.
Counted == Rows \cup {"history"}
Appending == \E c \in Caller : pc[c] \in Counted
Ahead == IF Appending THEN 1 ELSE 0

CountInv ==
  /\ Len(history) + Ahead <= books.count
  /\ books.count <= Len(history) + aborts + Ahead

\* A step that neither counts nor appends, by a pass that does not come or go here.
LEMMA KeepsCount ==
  ASSUME CountInv, DataOK, books'.count = books.count, UNCHANGED history, aborts' \in Nat,
         aborts' >= aborts, Appending' <=> Appending
  PROVE  CountInv'
<1>1. Len(history) \in Nat /\ books.count \in Nat /\ aborts \in Nat
  BY DEF DataOK, Books
<1>2. Ahead' = Ahead /\ Ahead \in {0, 1}
  BY DEF Ahead
<1> QED BY <1>1, <1>2 DEF CountInv

\* The entry is missing only while it is being written, or when its pass died.
LEMMA CountStep ==
  ASSUME CountInv, BooksInv, LockInv, DataOK, CallerOK, [Next]_vars
  PROVE  CountInv'
<1>1. /\ pc \in [Caller -> Where] /\ job \in [Caller -> Job]
      /\ Len(history) \in Nat /\ books.count \in Nat /\ aborts \in Nat
  <2>1. pc \in [Caller -> Where] /\ job \in [Caller -> Job]
    BY DEF CallerOK
  <2>2. history \in Seq([from : Nat, to : Nat]) /\ books.count \in Nat /\ aborts \in Nat
    BY DEF DataOK, Books
  <2> QED BY <2>1, <2>2
<1>2. ASSUME NEW c \in Caller, NEW from, NEW to, NEW l,
             Step(c, from, to, l), books'.count = books.count, UNCHANGED <<history, aborts>>,
             from \in Counted <=> to \in Counted
      PROVE  CountInv'
  <2>1. Appending' <=> Appending
    <3>1. /\ pc[c] = from /\ pc'[c] = to /\ \A d \in Caller : d # c => pc'[d] = pc[d]
          /\ from \in Counted <=> to \in Counted
      BY <1>1, <1>2 DEF Step
    <3> QED BY <3>1 DEF Appending
  <2> QED BY <1>1, <1>2, <2>1, KeepsCount
<1>3. ASSUME NEW c \in Caller, Leave(c), pc[c] \notin Counted, UNCHANGED <<books, history>>,
             aborts' = aborts \/ aborts' = aborts + 1
      PROVE  CountInv'
  <2>1. Appending' <=> Appending
    BY <1>1, <1>3 DEF Appending, Leave, Counted, Rows
  <2> QED BY <1>1, <1>3, <2>1, KeepsCount
<1>4. ASSUME NEW c \in Caller, ReadToken(c) \/ ReadSummary(c) \/ AcquireLock(c) \/ LockBusy(c)
      PROVE  CountInv'
  BY <1>2, <1>4
     DEF ReadToken, ReadSummary, AcquireLock, LockBusy, Local, storeVars, countVars, Counted, Rows
<1>5. ASSUME NEW c \in Caller, Inspect(c) \/ ReadFees(c) \/ Quote(c) \/ Requote(c) \/ Verify(c)
                               \/ Load(c)
      PROVE  CountInv'
  <2>1. \E from \in Critical \ Counted, to \in Critical \ Counted : \E l : Local(c, from, to, l)
    BY <1>5 DEF Inspect, ReadFees, Quote, Requote, Verify, Load, Counted, Rows, Critical
  <2> QED BY <1>2, <2>1 DEF Local, storeVars, countVars
<1>6. ASSUME NEW c \in Caller, SendDecrease(c) \/ SendCollect(c) \/ SendSwap(c) \/ SendMint(c)
      PROVE  CountInv'
  BY <1>2, <1>6 DEF SendDecrease, SendCollect, SendSwap, SendMint, Send, storeVars, countVars,
                    Counted, Rows
<1>7. ASSUME NEW c \in Caller, Confirmed(c) PROVE CountInv'
  <2>1. pc[c] \notin Counted /\ After(pc[c]) \notin Counted
    BY <1>7 DEF Confirmed, After, Awaiting, Counted, Rows
  <2> QED BY <1>2, <1>7, <2>1 DEF Confirmed, Local, storeVars, countVars
<1>8. ASSUME NEW c \in Caller, WriteToken(c) PROVE CountInv'
  BY <1>2, <1>8 DEF WriteToken, countVars, Counted, Rows
<1>9. ASSUME NEW c \in Caller, WriteCount(c) PROVE CountInv'
  <2>1. /\ pc[c] = "count" /\ pc' = [pc EXCEPT ![c] = "gas"] /\ UNCHANGED <<history, aborts>>
        /\ books' = [books EXCEPT !.count = job[c].base.count + job[c].adds.count]
    BY <1>9 DEF WriteCount, WriteRow, Step, countVars
  <2>2. books'.count = books.count + 1
    BY <2>1 DEF BooksInv, BaseOK, DataOK, Books
  <2>3. ~Appending
    BY <2>1 DEF LockInv, OneMover, Critical, Appending, Counted, Rows
  <2>4. Appending'
    BY <1>1, <2>1 DEF Appending, Counted, Rows
  <2> QED BY <1>1, <2>1, <2>2, <2>3, <2>4 DEF CountInv, Ahead
<1>10. ASSUME NEW c \in Caller, WriteGas(c) \/ WriteUsdt(c) \/ WriteBnb(c) PROVE CountInv'
  <2>1. /\ \E from \in Counted, to \in Counted : Step(c, from, to, job[c])
        /\ UNCHANGED <<history, aborts>>
    BY <1>10 DEF WriteGas, WriteUsdt, WriteBnb, WriteRow, countVars, Counted, Rows
  <2>2. books'.count = books.count
    BY <1>10 DEF WriteGas, WriteUsdt, WriteBnb, WriteRow, DataOK, Books
  <2> QED BY <1>2, <2>1, <2>2
<1>11. ASSUME NEW c \in Caller, pc[c] \in Counted, Leave(c) PROVE Appending /\ ~Appending'
  <2>1. \A d \in Caller : d # c => pc[d] \notin Counted
    BY <1>11 DEF LockInv, OneMover, Critical, Counted, Rows
  <2> QED BY <1>1, <1>11, <2>1 DEF Appending, Leave, Counted, Rows
<1>12. ASSUME NEW c \in Caller, AppendHistory(c) PROVE CountInv'
  <2>1. pc[c] = "history" /\ Leave(c) /\ UNCHANGED <<books, aborts>>
        /\ history' = Append(history, [from |-> job[c].tok, to |-> job[c].new])
    BY <1>12 DEF AppendHistory, countVars
  <2>2. Len(history') = Len(history) + 1
    BY <2>1 DEF DataOK
  <2>3. Appending /\ ~Appending'
    BY <1>11, <2>1 DEF Counted
  <2> QED BY <1>1, <2>1, <2>2, <2>3 DEF CountInv, Ahead
<1>13. ASSUME NEW c \in Caller, Refused(c) \/ Reverted(c) \/ TimedOut(c) \/ Unreadable(c)
       PROVE  CountInv'
  <2>1. Leave(c) /\ pc[c] \notin Counted /\ UNCHANGED <<books, history, aborts>>
    BY <1>13 DEF Refused, Reverted, TimedOut, Unreadable, Raise, storeVars, Awaiting, Counted, Rows
  <2> QED BY <1>3, <2>1
<1>14. ASSUME NEW c \in Caller, Abort(c) PROVE CountInv'
  <2>1. Leave(c) /\ aborts' = aborts + 1 /\ UNCHANGED <<books, history>>
    BY <1>14 DEF Abort, Raise, storeVars
  <2>2. CASE pc[c] \in Counted
    <3>1. Appending /\ ~Appending'
      BY <1>11, <2>1, <2>2
    <3> QED BY <1>1, <2>1, <3>1 DEF CountInv, Ahead
  <2>3. CASE pc[c] \notin Counted
    BY <1>3, <2>1, <2>3
  <2> QED BY <2>2, <2>3
<1>15. CASE Mine \/ EarnFees \/ PriceMoves \/ UNCHANGED vars
  <2>1. UNCHANGED <<books, history, aborts, pc>>
    BY <1>15 DEF Mine, MineDecrease, MineCollect, MineSwap, MineMint, MineRevert, Mined,
                 EarnFees, PriceMoves, vars, storeVars, countVars
  <2>2. Appending' <=> Appending
    BY <2>1 DEF Appending
  <2> QED BY <1>1, <2>1, <2>2, KeepsCount
<1> QED BY <1>4, <1>5, <1>6, <1>7, <1>8, <1>9, <1>10, <1>12, <1>13, <1>14, <1>15
        DEF Next, Progress

\* The history trails the count by at most one entry per pass that died, and the one
\* being written, and is never ahead of it (HistoryAccountsForCount).
THEOREM HistoryAccounts == Spec => []HistoryAccountsForCount
<1>1. Init => LockInv /\ BooksInv
  BY CallerAssumption, BooksInit DEF Init, LockInv, OneMover, Where, Critical, Awaiting
<1>2. Init => CountInv
  BY DEF Init, CountInv, Appending, Ahead, ZeroBooks, Counted, Rows
<1>3. LockInv /\ DataOK /\ CallerOK /\ BooksInv /\ CountInv /\ [Next]_vars
        => LockInv' /\ DataOK' /\ CallerOK' /\ BooksInv' /\ CountInv'
  BY LockStep, TypeStep, BooksStep, CountStep
<1>4. LockInv /\ DataOK /\ CountInv => HistoryAccountsForCount
  <2> SUFFICES ASSUME LockInv, DataOK, CountInv PROVE HistoryAccountsForCount
    OBVIOUS
  <2>1. Len(history) \in Nat /\ books.count \in Nat /\ aborts \in Nat
    BY DEF DataOK, Books
  <2>2. Appending => lock # NoCaller
    BY CallerAssumption DEF LockInv, OneMover, Critical, Appending, Counted, Rows
  <2> QED BY <2>1, <2>2 DEF CountInv, Ahead, HistoryAccountsForCount
<1> QED BY <1>1, <1>2, <1>3, <1>4, TypeInit, PTL DEF Spec

-----------------------------------------------------------------------------
(* The funds. *)

\* Places after the collect of what the pass withdrew.
Collected == {"quote", "swap", "swapping", "requote", "mint", "minting", "confirm"} \cup Late

\* What a pass at a place knows of the NFT it works on.  Liquidity only ever leaves an NFT:
\* it is at most what was read, so a decrease by that much leaves none, and of an NFT without
\* liquidity nothing can be withdrawn any more.
FundsOK(at, j, nft) ==
  /\ at \in {"fees", "decrease", "decreasing"} => nft.liq <= j.liq
  /\ at \in {"decrease", "decreasing"} => j.liq > 0
  /\ at \in {"collect", "collecting"} \/ (at = "decreasing" /\ j.receipt = "ok") => nft.liq = 0
  /\ at \in Collected \/ (at = "collecting" /\ j.receipt = "ok") => nft.liq = 0 /\ nft.owed = 0

\* The transaction a pass waits for is the one of its step, on its NFT.
OwnTx(t, at, j) ==
  /\ at = "decreasing" => t.kind = "decrease" /\ t.id = j.tok /\ t.amt = j.liq
  /\ at = "collecting" => t.kind = "collect" /\ t.id = j.tok
  /\ at = "swapping" => t.kind = "swap"
  /\ at = "minting" => t.kind = "mint"

FundsInv ==
  /\ \A i \in DOMAIN mempool : mempool[i].kind = "decrease" => mempool[i].amt > 0
  /\ \A i \in DOMAIN mempool : mempool[i].by \in Caller =>
       OwnTx(mempool[i], pc[mempool[i].by], job[mempool[i].by])
  /\ \A c \in Caller : FundsOK(pc[c], job[c], position[job[c].tok])

\* A step of a pass that waits for nothing, or whose receipt has arrived.
LEMMA StepFunds ==
  ASSUME FundsInv, CallerOK, NEW c \in Caller, NEW from, NEW to, NEW l,
         Step(c, from, to, l), UNCHANGED <<position, mempool>>,
         from \in Awaiting => job[c].receipt # "none",
         FundsOK(to, l, position[l.tok])
  PROVE  FundsInv'
<1>1. /\ pc[c] = from /\ pc'[c] = to /\ job'[c] = l
      /\ \A d \in Caller \ {c} : pc'[d] = pc[d] /\ job'[d] = job[d]
  BY DEF CallerOK, Step
<1>2. \A i \in DOMAIN mempool : mempool[i].by # c
  BY <1>1 DEF CallerOK, OneWaiter
<1> QED BY <1>1, <1>2 DEF FundsInv

\* A pass ends; what it has broadcast nobody awaits.
LEMMA LeaveFunds ==
  ASSUME FundsInv, CallerOK, DataOK, NEW c \in Caller, Leave(c), UNCHANGED position,
         \/ pc[c] \notin Awaiting /\ UNCHANGED mempool
         \/ mempool' = [i \in DOMAIN mempool |->
                          [mempool[i] EXCEPT !.by = IF @ = c THEN NoCaller ELSE @]]
  PROVE  FundsInv'
<1>1. /\ pc'[c] = "idle"
      /\ \A d \in Caller \ {c} : pc'[d] = pc[d] /\ job'[d] = job[d]
  BY DEF CallerOK, Leave
<1>2. \A d \in Caller : FundsOK(pc'[d], job'[d], position[job'[d].tok])
  BY <1>1 DEF FundsInv, FundsOK, Collected, Late, Rows
<1>3. CASE pc[c] \notin Awaiting /\ UNCHANGED mempool
  <2>1. \A i \in DOMAIN mempool : mempool[i].by # c
    BY <1>3 DEF CallerOK, OneWaiter
  <2> QED BY <1>1, <1>2, <1>3, <2>1 DEF FundsInv
<1>4. CASE mempool' = [i \in DOMAIN mempool |->
                         [mempool[i] EXCEPT !.by = IF @ = c THEN NoCaller ELSE @]]
  <2>1. \A i \in DOMAIN mempool : mempool[i] \in Tx
    BY DEF DataOK
  <2>2. /\ DOMAIN mempool' = DOMAIN mempool
        /\ \A i \in DOMAIN mempool :
             /\ mempool'[i].kind = mempool[i].kind /\ mempool'[i].amt = mempool[i].amt
             /\ mempool'[i].id = mempool[i].id
             /\ mempool'[i].by = IF mempool[i].by = c THEN NoCaller ELSE mempool[i].by
    BY <1>4, <2>1 DEF Tx
  <2> QED BY <1>1, <1>2, <2>2, CallerAssumption DEF FundsInv, OwnTx
<1> QED BY <1>3, <1>4

\* A pass sends the transaction of its step.
LEMMA SendFunds ==
  ASSUME FundsInv, CallerOK, DataOK, NEW c \in Caller,
         SendDecrease(c) \/ SendCollect(c) \/ SendSwap(c) \/ SendMint(c)
  PROVE  FundsInv'
<1>1. PICK from \in {"decrease", "collect", "swap", "mint"},
           to \in Awaiting, kind \in {"decrease", "collect", "swap", "mint"} :
        /\ Send(c, from, to, kind)
        /\ <<from, to, kind>> \in {<<"decrease", "decreasing", "decrease">>,
             <<"collect", "collecting", "collect">>, <<"swap", "swapping", "swap">>,
             <<"mint", "minting", "mint">>}
  BY DEF SendDecrease, SendCollect, SendSwap, SendMint, Awaiting
<1> DEFINE t == [kind |-> kind, by |-> c, at |-> job[c].at, id |-> job[c].tok,
                 amt |-> IF kind = "mint" THEN job[c].amt ELSE job[c].liq]
<1>2. /\ pc[c] = from /\ pc' = [pc EXCEPT ![c] = to] /\ job' = [job EXCEPT ![c] = job[c]]
      /\ mempool' = Append(mempool, t) /\ UNCHANGED position
  BY <1>1 DEF Send, Step
<1>3. /\ pc'[c] = to /\ job' = job /\ \A d \in Caller \ {c} : pc'[d] = pc[d]
  BY <1>2 DEF CallerOK
<1>4. job[c].receipt = "none" /\ from \notin Awaiting
  BY <1>1, <1>2 DEF CallerOK, JobOK, Awaiting
<1>5. \A i \in DOMAIN mempool : mempool[i].by # c
  BY <1>2, <1>4 DEF CallerOK, OneWaiter
<1>6. /\ DOMAIN mempool' = DOMAIN mempool \cup {Len(mempool) + 1}
      /\ \A i \in DOMAIN mempool : mempool'[i] = mempool[i]
      /\ mempool'[Len(mempool) + 1] = t
  BY <1>2 DEF DataOK
<1>7. FundsOK(from, job[c], position[job[c].tok])
  BY <1>2 DEF FundsInv
<1>8. FundsOK(to, job[c], position[job[c].tok])
  BY <1>1, <1>4, <1>7 DEF FundsOK, Collected, Late, Rows
<1>9. OwnTx(t, to, job[c]) /\ (t.kind = "decrease" => t.amt > 0)
  BY <1>1, <1>7 DEF OwnTx, FundsOK
<1> HIDE DEF t
<1>10. t.by = c
  BY DEF t
<1>11. \A i \in DOMAIN mempool' : mempool'[i].kind = "decrease" => mempool'[i].amt > 0
  BY <1>6, <1>9 DEF FundsInv
<1>12. \A i \in DOMAIN mempool' : mempool'[i].by \in Caller =>
         OwnTx(mempool'[i], pc'[mempool'[i].by], job'[mempool'[i].by])
  BY <1>3, <1>5, <1>6, <1>9, <1>10 DEF FundsInv
<1>13. \A d \in Caller : FundsOK(pc'[d], job'[d], position'[job'[d].tok])
  BY <1>2, <1>3, <1>8 DEF FundsInv
<1> QED BY <1>11, <1>12, <1>13 DEF FundsInv

\* Liquidity only leaves an NFT, and an empty one stays empty.
Sinks ==
  \A id \in 1..Len(position) :
    /\ position[id] \in Nft /\ position'[id] \in Nft
    /\ position'[id].liq <= position[id].liq
    /\ position[id].liq = 0 /\ position[id].owed = 0 => position'[id].owed = 0

\* What an NFT holds is counted in naturals.
LEMMA NftAmounts ==
  ASSUME NEW nft \in Nft
  PROVE  nft.liq \in Nat /\ nft.owed \in Nat /\ nft.fees \in Nat
BY DEF Nft

\* A step that changes one NFT so.
LEMMA OneSinks ==
  ASSUME DataOK, NEW id \in 1..Len(position), position'[id] \in Nft,
         \A k \in 1..Len(position) : k # id => position'[k] = position[k],
         position'[id].liq <= position[id].liq,
         position[id].liq = 0 /\ position[id].owed = 0 => position'[id].owed = 0
  PROVE  Sinks
<1> SUFFICES ASSUME NEW k \in 1..Len(position)
    PROVE  /\ position[k] \in Nft /\ position'[k] \in Nft
           /\ position'[k].liq <= position[k].liq
           /\ position[k].liq = 0 /\ position[k].owed = 0 => position'[k].owed = 0
  BY DEF Sinks
<1>1. position[k] \in Nft
  BY DEF DataOK
<1>2. position[k].liq \in Nat
  BY <1>1 DEF Nft
<1>3. CASE k = id
  BY <1>1, <1>3
<1>4. CASE k # id
  BY <1>1, <1>2, <1>4
<1> QED BY <1>3, <1>4

\* What a pass knows of its NFT outlasts what happens on the chain.
LEMMA SinksKeepFunds ==
  ASSUME NEW c \in Caller, CallerOK, Sinks, FundsOK(pc[c], job[c], position[job[c].tok])
  PROVE  FundsOK(pc[c], job[c], position'[job[c].tok])
<1>1. CASE pc[c] = "idle"
  BY <1>1 DEF FundsOK, Collected, Late, Rows
<1>2. CASE pc[c] # "idle"
  <2>1. job[c].tok \in 1..Len(position) /\ job[c] \in Job
    BY <1>2 DEF CallerOK, JobOK, Exists
  <2>2. /\ position'[job[c].tok].liq \in Nat /\ position[job[c].tok].liq \in Nat
        /\ job[c].liq \in Nat /\ position'[job[c].tok].liq <= position[job[c].tok].liq
        /\ position[job[c].tok].liq = 0 /\ position[job[c].tok].owed = 0
             => position'[job[c].tok].owed = 0
    BY <2>1 DEF Sinks, Nft, Job
  <2> QED BY <2>2 DEF FundsOK
<1> QED BY <1>1, <1>2

\* The head of the mempool is mined; whoever waits for it learns how it went.
LEMMA MinedFunds ==
  ASSUME FundsInv, CallerOK, DataOK, mempool # <<>>, NEW outcome, NEW id, Mined(outcome, id), Sinks,
         outcome = "ok" /\ Head(mempool).kind = "decrease" =>
           position'[Head(mempool).id].liq
             = position[Head(mempool).id].liq - Head(mempool).amt,
         outcome = "ok" /\ Head(mempool).kind = "collect" =>
           position'[Head(mempool).id].owed = 0
  PROVE  FundsInv'
<1> DEFINE t == mempool[1]
<1>1. /\ t = Head(mempool) /\ 1 \in DOMAIN mempool /\ t \in Tx /\ Exists(t.id)
      /\ \A i \in DOMAIN mempool' : /\ i + 1 \in DOMAIN mempool /\ i + 1 # 1
                                    /\ mempool'[i] = mempool[i + 1]
  <2>1. mempool \in Seq(Tx) /\ mempool' = Tail(mempool)
    BY DEF DataOK, Mined
  <2>2. t = Head(mempool) /\ 1 \in DOMAIN mempool /\ t \in Tx
    BY <2>1
  <2>3. Exists(t.id)
    BY <2>2 DEF DataOK
  <2>4. \A i \in DOMAIN mempool' : /\ i + 1 \in DOMAIN mempool /\ i + 1 # 1
                                   /\ mempool'[i] = mempool[i + 1]
    BY <2>1
  <2> QED BY <2>2, <2>3, <2>4
<1>2. /\ UNCHANGED pc
      /\ \A c \in Caller : job'[c] = IF c = t.by THEN [job[c] EXCEPT !.receipt = outcome, !.new = id]
                                     ELSE job[c]
  BY <1>1 DEF Mined
<1>3. \A c \in Caller : job[c] \in Job
  BY DEF CallerOK
<1>4. \A c \in Caller : /\ job'[c].tok = job[c].tok /\ job'[c].liq = job[c].liq
                        /\ c = t.by => job'[c].receipt = outcome
                        /\ c # t.by => job'[c] = job[c]
  BY <1>2, <1>3 DEF Job
<1>5. \A i \in DOMAIN mempool' : mempool'[i].kind = "decrease" => mempool'[i].amt > 0
  BY <1>1 DEF FundsInv
<1>6. \A i \in DOMAIN mempool' : mempool'[i].by \in Caller => mempool'[i].by # t.by
  BY <1>1 DEF CallerOK, OneWaiter
<1>7. \A i \in DOMAIN mempool' : mempool'[i].by \in Caller =>
         OwnTx(mempool'[i], pc'[mempool'[i].by], job'[mempool'[i].by])
  <2> SUFFICES ASSUME NEW i \in DOMAIN mempool', mempool'[i].by \in Caller
      PROVE  OwnTx(mempool'[i], pc'[mempool'[i].by], job'[mempool'[i].by])
    OBVIOUS
  <2>1. mempool'[i] = mempool[i + 1] /\ i + 1 \in DOMAIN mempool
    BY <1>1
  <2>2. OwnTx(mempool[i + 1], pc[mempool[i + 1].by], job[mempool[i + 1].by])
    BY <2>1 DEF FundsInv
  <2>3. job'[mempool'[i].by] = job[mempool[i + 1].by] /\ pc' = pc
    BY <1>2, <1>4, <1>6, <2>1
  <2> QED BY <2>1, <2>2, <2>3
<1>8. ASSUME NEW c \in Caller PROVE FundsOK(pc'[c], job'[c], position'[job'[c].tok])
  <2>1. FundsOK(pc[c], job[c], position'[job[c].tok])
    BY SinksKeepFunds DEF FundsInv
  <2>2. CASE c # t.by
    BY <1>2, <1>4, <2>1, <2>2
  <2>3. CASE c = t.by
    <3>1. pc[c] \in Awaiting /\ OwnTx(t, pc[c], job[c]) /\ Exists(job[c].tok)
      BY <1>1, <2>3 DEF CallerOK, OneWaiter, FundsInv, JobOK, Awaiting
    <3>2. FundsOK(pc[c], job[c], position[job[c].tok])
      BY DEF FundsInv
    <3>3. /\ position[job[c].tok].liq \in Nat /\ position'[job[c].tok].liq \in Nat
          /\ job[c].liq \in Nat
      BY <1>3, <3>1 DEF Sinks, Exists, Nft, Job
    <3>4. outcome = "ok" /\ pc[c] = "decreasing" => position'[job[c].tok].liq = 0
      <4> SUFFICES ASSUME outcome = "ok", pc[c] = "decreasing"
          PROVE  position'[job[c].tok].liq = 0
        OBVIOUS
      <4>1. t.kind = "decrease" /\ t.id = job[c].tok /\ t.amt = job[c].liq
        BY <3>1 DEF OwnTx
      <4>2. position'[job[c].tok].liq = position[job[c].tok].liq - job[c].liq
        BY <1>1, <4>1
      <4>3. position[job[c].tok].liq <= job[c].liq
        BY <3>2 DEF FundsOK
      <4> QED BY <3>3, <4>2, <4>3
    <3>5. outcome = "ok" /\ pc[c] = "collecting" => position'[job[c].tok].owed = 0
      BY <1>1, <3>1 DEF OwnTx
    <3> QED BY <1>2, <1>4, <2>1, <2>3, <3>1, <3>4, <3>5 DEF FundsOK, Awaiting, Collected, Late, Rows
  <2> QED BY <2>2, <2>3
<1> QED BY <1>5, <1>7, <1>8 DEF FundsInv

\* The chain takes a step: a transaction is mined, or a position earns.
LEMMA ChainFunds ==
  ASSUME FundsInv, CallerOK, DataOK, Mine \/ EarnFees
  PROVE  FundsInv' /\ Sinks
<1>1. position \in Seq(Nft) /\ DOMAIN position = 1..Len(position)
      /\ \A id \in 1..Len(position) : position[id] \in Nft
  BY DEF DataOK
<1>2. ASSUME UNCHANGED position PROVE Sinks
  BY <1>1, <1>2 DEF Sinks, Nft
<1>3. CASE EarnFees
  <2>1. PICK id \in 1..Len(position) : position' = [position EXCEPT ![id].fees = @ + 1]
    BY <1>3 DEF EarnFees
  <2>2. Sinks
    <3>1. position' = [position EXCEPT ![id] = [position[id] EXCEPT !.fees = position[id].fees + 1]]
      BY <2>1
    <3> DEFINE nft == [position[id] EXCEPT !.fees = position[id].fees + 1]
    <3>2. position[id] \in Nft
      BY <1>1
    <3>3. position[id].liq \in Nat /\ position[id].fees + 1 \in Nat
      <4>1. position[id].liq \in Nat /\ position[id].fees \in Nat
        BY <3>2, NftAmounts
      <4> QED BY <4>1
    <3>4. nft \in Nft /\ nft.liq = position[id].liq /\ nft.owed = position[id].owed
      BY <3>2, <3>3 DEF Nft
    <3>5. /\ position'[id] = nft
          /\ \A k \in 1..Len(position) : k # id => position'[k] = position[k]
      BY <1>1, <3>1
    <3> HIDE DEF nft
    <3> QED BY <3>3, <3>4, <3>5, OneSinks
  <2>3. UNCHANGED <<mempool, pc, job>>
    BY <1>3 DEF EarnFees
  <2>4. \A c \in Caller : FundsOK(pc[c], job[c], position'[job[c].tok])
    BY <2>2, SinksKeepFunds DEF FundsInv
  <2> QED BY <2>2, <2>3, <2>4 DEF FundsInv
<1>4. CASE Mine
  <2> DEFINE t == Head(mempool)
  <2>1. /\ mempool # <<>> /\ t = mempool[1] /\ 1 \in DOMAIN mempool /\ t \in Tx
        /\ t.id \in 1..Len(position) /\ t.amt \in Nat /\ (t.kind = "decrease" => t.amt > 0)
    <3>1. mempool # <<>> /\ t = mempool[1] /\ 1 \in DOMAIN mempool /\ t \in Tx
      BY <1>4 DEF Mine, DataOK
    <3> QED BY <3>1 DEF DataOK, Exists, FundsInv, Tx
  <2>2. CASE MineDecrease(t)
    <3>1. /\ position[t.id].liq >= t.amt /\ t.kind = "decrease" /\ Mined("ok", 0)
          /\ position' = [position EXCEPT ![t.id] = [position[t.id] EXCEPT
               !.liq = position[t.id].liq - t.amt, !.owed = position[t.id].owed + t.amt]]
      BY <1>1, <2>1, <2>2 DEF MineDecrease, Nft
    <3> DEFINE nft == [position[t.id] EXCEPT
               !.liq = position[t.id].liq - t.amt, !.owed = position[t.id].owed + t.amt]
    <3>2. /\ position'[t.id] = nft
          /\ \A k \in 1..Len(position) : k # t.id => position'[k] = position[k]
      BY <1>1, <2>1, <3>1
    <3>3. position[t.id] \in Nft /\ position[t.id].liq \in Nat /\ t.amt > 0
      BY <1>1, <2>1, <3>1 DEF Nft
    <3>4. nft \in Nft /\ nft.liq = position[t.id].liq - t.amt
      <4>1. position[t.id].liq - t.amt \in Nat /\ position[t.id].owed + t.amt \in Nat
        <5>1. position[t.id].owed \in Nat
          BY <3>3, NftAmounts
        <5> QED BY <2>1, <3>1, <3>3, <5>1
      <4> QED BY <3>3, <4>1 DEF Nft
    <3>5. nft.liq <= position[t.id].liq /\ position[t.id].liq # 0
      BY <2>1, <3>1, <3>3, <3>4
    <3>6. Sinks
      <4> HIDE DEF nft
      <4> QED BY <2>1, <3>2, <3>4, <3>5, OneSinks
    <3>7. position'[t.id].liq = position[t.id].liq - t.amt
      BY <3>2, <3>4
    <3> QED BY <2>1, <3>1, <3>6, <3>7, MinedFunds
  <2>3. CASE MineCollect(t)
    <3>1. /\ t.kind = "collect" /\ Mined("ok", 0)
          /\ position' = [position EXCEPT ![t.id] = [position[t.id] EXCEPT !.owed = 0, !.fees = 0]]
      BY <1>1, <2>1, <2>3 DEF MineCollect, Nft
    <3> DEFINE nft == [position[t.id] EXCEPT !.owed = 0, !.fees = 0]
    <3>2. /\ position'[t.id] = nft
          /\ \A k \in 1..Len(position) : k # t.id => position'[k] = position[k]
      BY <1>1, <2>1, <3>1
    <3>3. position[t.id] \in Nft /\ position[t.id].liq \in Nat
      BY <1>1, <2>1 DEF Nft
    <3>4. nft \in Nft /\ nft.liq = position[t.id].liq /\ nft.owed = 0
      BY <3>3 DEF Nft
    <3>5. Sinks
      <4> HIDE DEF nft
      <4> QED BY <2>1, <3>2, <3>3, <3>4, OneSinks
    <3>6. position'[t.id].owed = 0
      BY <3>2, <3>4
    <3> QED BY <2>1, <3>1, <3>5, <3>6, MinedFunds
  <2>4. CASE MineSwap(t)
    <3>1. t.kind = "swap" /\ Mined("ok", 0) /\ UNCHANGED position
      BY <2>4 DEF MineSwap
    <3> QED BY <1>2, <2>1, <3>1, MinedFunds
  <2>5. CASE MineMint(t)
    <3>1. t.kind = "mint" /\ \E id : Mined("ok", id)
      BY <2>5 DEF MineMint
    <3>2. PICK nft : position' = Append(position, nft)
      BY <2>5 DEF MineMint
    <3>3. Sinks
      <4>1. \A id \in 1..Len(position) : position'[id] = position[id]
        BY <1>1, <3>2
      <4> QED BY <1>1, <4>1 DEF Sinks, Nft
    <3> QED BY <2>1, <3>1, <3>3, MinedFunds
  <2>6. CASE MineRevert(t)
    <3>1. Mined("reverted", 0) /\ UNCHANGED position
      BY <2>6 DEF MineRevert
    <3> QED BY <1>2, <2>1, <3>1, MinedFunds
  <2> QED BY <1>4, <2>2, <2>3, <2>4, <2>5, <2>6 DEF Mine
<1> QED BY <1>3, <1>4

WriteTotals(c) == WriteCount(c) \/ WriteGas(c) \/ WriteUsdt(c) \/ WriteBnb(c)

\* A row of the totals is written, one after the other.
LEMMA TotalsStep ==
  ASSUME NEW c \in Caller, WriteTotals(c)
  PROVE  \E from \in {"count", "gas", "usdt", "bnb"}, to \in {"gas", "usdt", "bnb", "history"} :
           /\ Step(c, from, to, job[c])
           /\ UNCHANGED <<position, mempool, token, history, lock, swept, recorded, clean>>
BY DEF WriteTotals, WriteCount, WriteGas, WriteUsdt, WriteBnb, WriteRow, chainVars

\* A pass goes on, and nothing else moves.
LEMMA PassFunds ==
  ASSUME FundsInv, CallerOK, DataOK, NEW c \in Caller,
         \/ ReadToken(c) \/ ReadSummary(c) \/ AcquireLock(c) \/ LockBusy(c)
         \/ Inspect(c) \/ ReadFees(c) \/ Quote(c) \/ Requote(c) \/ Confirmed(c)
         \/ Verify(c) \/ Load(c) \/ WriteToken(c) \/ WriteTotals(c)
  PROVE  FundsInv'
<1> DEFINE nft == position[job[c].tok]
<1>1. /\ job[c] \in Job /\ job[c].liq \in Nat /\ FundsOK(pc[c], job[c], nft)
      /\ pc[c] # "idle" => nft \in Nft /\ nft.liq \in Nat
  <2>1. job[c] \in Job /\ FundsOK(pc[c], job[c], nft) /\ (pc[c] # "idle" => Exists(job[c].tok))
    BY DEF CallerOK, FundsInv, JobOK
  <2>2. job[c].liq \in Nat
    BY <2>1 DEF Job
  <2>3. pc[c] # "idle" => nft \in Nft
    BY <2>1 DEF DataOK, Exists
  <2>4. nft \in Nft => nft.liq \in Nat
    BY DEF Nft
  <2> QED BY <2>1, <2>2, <2>3, <2>4
<1>2. ASSUME NEW from, NEW to, NEW l, Step(c, from, to, l), UNCHANGED <<position, mempool>>,
             from \notin Awaiting \/ job[c].receipt # "none",
             FundsOK(to, l, position[l.tok])
      PROVE  FundsInv'
  BY <1>2, StepFunds
<1>3. ASSUME NEW to \in {"idle", "summary", "lock", "inspect"}, NEW l, NEW p PROVE FundsOK(to, l, p)
  BY DEF FundsOK, Collected, Late, Rows
<1>4. CASE ReadToken(c) \/ ReadSummary(c) \/ AcquireLock(c) \/ LockBusy(c)
  BY <1>2, <1>3, <1>4
     DEF ReadToken, ReadSummary, AcquireLock, LockBusy, Local, chainVars, Awaiting
<1>5. CASE Inspect(c)
  <2> DEFINE l == [job[c] EXCEPT !.liq = nft.liq]
  <2>1. pc[c] = "inspect" /\ Step(c, "inspect", "fees", l) /\ UNCHANGED <<position, mempool>>
    BY <1>5 DEF Inspect, Local, Step, chainVars
  <2>2. l.liq = nft.liq /\ l.tok = job[c].tok
    BY <1>1 DEF Job
  <2>3. FundsOK("fees", l, position[l.tok])
    BY <1>1, <2>1, <2>2 DEF FundsOK, Collected, Late, Rows
  <2> HIDE DEF l
  <2> QED BY <1>2, <2>1, <2>3 DEF Awaiting
<1>6. CASE ReadFees(c)
  <2> DEFINE l == [job[c] EXCEPT !.fees = Pending(job[c].tok)]
             to == IF job[c].liq > 0 THEN "decrease" ELSE "collect"
  <2>1. pc[c] = "fees" /\ Step(c, "fees", to, l) /\ UNCHANGED <<position, mempool>>
    BY <1>6 DEF ReadFees, Local, Step, chainVars
  <2>2. l.liq = job[c].liq /\ l.tok = job[c].tok
    BY <1>1 DEF Job
  <2>3. FundsOK(to, l, position[l.tok])
    BY <1>1, <2>1, <2>2 DEF FundsOK, Collected, Late, Rows
  <2> HIDE DEF l, to
  <2> QED BY <1>2, <2>1, <2>3 DEF Awaiting
<1>7. ASSUME NEW from \in Collected \ Awaiting, NEW to \in Collected \ Awaiting, NEW l,
             Step(c, from, to, l), UNCHANGED <<position, mempool>>, l.tok = job[c].tok
      PROVE  FundsInv'
  <2>1. FundsOK(to, l, position[l.tok])
    BY <1>1, <1>7 DEF FundsOK, Step, Collected, Late, Rows, Awaiting
  <2> QED BY <1>2, <1>7, <2>1
<1>8. CASE Quote(c)
  <2> DEFINE l == [job[c] EXCEPT !.at = price, !.amt = wallet]
  <2>1. PICK to \in {"swap", "mint"} :
          Step(c, "quote", to, l) /\ UNCHANGED <<position, mempool>>
    BY <1>8 DEF Quote, Local, chainVars
  <2>2. l.tok = job[c].tok
    BY <1>1 DEF Job
  <2> HIDE DEF l
  <2> QED BY <1>7, <2>1, <2>2 DEF Collected, Late, Rows, Awaiting
<1>9. CASE Requote(c)
  <2> DEFINE l == [job[c] EXCEPT !.amt = wallet]
  <2>1. Step(c, "requote", "mint", l) /\ UNCHANGED <<position, mempool>>
    BY <1>9 DEF Requote, Local, chainVars
  <2>2. l.tok = job[c].tok
    BY <1>1 DEF Job
  <2> HIDE DEF l
  <2> QED BY <1>7, <2>1, <2>2 DEF Collected, Late, Rows, Awaiting
<1>10. CASE Load(c)
  <2>1. PICK adds : Step(c, "load", "token", [job[c] EXCEPT !.base = books, !.adds = adds])
                      /\ UNCHANGED <<position, mempool>>
    BY <1>10 DEF Load, Local, chainVars
  <2> DEFINE l == [job[c] EXCEPT !.base = books, !.adds = adds]
  <2>2. l.tok = job[c].tok /\ Step(c, "load", "token", l)
    BY <1>1, <2>1 DEF Job
  <2> HIDE DEF l
  <2> QED BY <1>7, <2>1, <2>2 DEF Collected, Late, Rows, Awaiting
<1>11. CASE Verify(c) \/ WriteToken(c)
  BY <1>7, <1>11 DEF Verify, WriteToken, Local, chainVars, Collected, Late, Rows, Awaiting
<1>13. CASE WriteTotals(c)
  <2>1. PICK from \in {"count", "gas", "usdt", "bnb"}, to \in {"gas", "usdt", "bnb", "history"} :
          Step(c, from, to, job[c]) /\ UNCHANGED <<position, mempool>>
    BY <1>13, TotalsStep
  <2> QED BY <1>7, <2>1 DEF Collected, Late, Rows, Awaiting
<1>12. CASE Confirmed(c)
  <2> DEFINE l == [job[c] EXCEPT !.gas = @ + 1, !.receipt = "none"]
  <2>1. /\ Step(c, pc[c], After(pc[c]), l) /\ UNCHANGED <<position, mempool>>
        /\ pc[c] \in Awaiting /\ job[c].receipt = "ok"
    BY <1>12 DEF Confirmed, Local, chainVars
  <2>2. l.liq = job[c].liq /\ l.tok = job[c].tok
    BY <1>1 DEF Job
  <2>3. FundsOK(After(pc[c]), l, position[l.tok])
    BY <1>1, <2>1, <2>2 DEF FundsOK, After, Collected, Late, Rows, Awaiting
  <2> HIDE DEF l
  <2> QED BY <1>2, <2>1, <2>3
<1> QED BY <1>4, <1>5, <1>6, <1>8, <1>9, <1>10, <1>11, <1>12, <1>13

\* The invariant is inductive.
LEMMA FundsStep ==
  ASSUME FundsInv, CallerOK, DataOK, [Next]_vars
  PROVE  FundsInv'
<1>1. ASSUME NEW c \in Caller, ReadToken(c) \/ Progress(c) \/ Abort(c) PROVE FundsInv'
  <2>1. CASE SendDecrease(c) \/ SendCollect(c) \/ SendSwap(c) \/ SendMint(c)
    BY <2>1, SendFunds
  <2>2. CASE Refused(c) \/ Reverted(c) \/ TimedOut(c) \/ Unreadable(c) \/ Abort(c)
    BY <2>2, LeaveFunds DEF Refused, Reverted, TimedOut, Unreadable, Abort, Raise
  <2>3. CASE AppendHistory(c)
    BY <2>3, LeaveFunds DEF AppendHistory, chainVars, Awaiting
  <2>4. CASE \/ ReadToken(c) \/ ReadSummary(c) \/ AcquireLock(c) \/ LockBusy(c)
             \/ Inspect(c) \/ ReadFees(c) \/ Quote(c) \/ Requote(c) \/ Confirmed(c)
             \/ Verify(c) \/ Load(c) \/ WriteToken(c) \/ WriteTotals(c)
    BY <2>4, PassFunds
  <2> QED BY <1>1, <2>1, <2>2, <2>3, <2>4 DEF Progress, WriteTotals
<1>2. CASE Mine \/ EarnFees
  BY <1>2, ChainFunds
<1>3. CASE PriceMoves \/ UNCHANGED vars
  BY <1>3 DEF PriceMoves, vars, chainVars, FundsInv
<1> QED BY <1>1, <1>2, <1>3 DEF Next

\* What a step does to the NFTs: liquidity only leaves them, and new ones are added.
LEMMA StepSinks ==
  ASSUME FundsInv, CallerOK, DataOK, [Next]_vars
  PROVE  Sinks /\ Len(position) <= Len(position')
<1>1. CASE Mine \/ EarnFees
  <2>1. position \in Seq(Nft)
    BY DEF DataOK
  <2>2. ASSUME DOMAIN position' = DOMAIN position, position' \in Seq(Nft)
        PROVE  Len(position) <= Len(position')
    BY <2>1, <2>2
  <2>3. position' \in Seq(Nft)
    BY TypeStep DEF DataOK
  <2>4. Len(position) <= Len(position')
    <3>1. ASSUME MineMint(Head(mempool)) PROVE Len(position) <= Len(position')
      <4>1. PICK nft : position' = Append(position, nft)
        BY <3>1 DEF MineMint
      <4>2. Len(position) \in Nat /\ Len(position') = Len(position) + 1
        BY <2>1, <4>1
      <4> QED BY <4>2
    <3>2. CASE EarnFees
      BY <2>2, <2>3, <3>2 DEF EarnFees
    <3>3. CASE MineDecrease(Head(mempool))
      BY <2>2, <2>3, <3>3 DEF MineDecrease
    <3>4. CASE MineCollect(Head(mempool))
      BY <2>2, <2>3, <3>4 DEF MineCollect
    <3>5. CASE MineSwap(Head(mempool)) \/ MineRevert(Head(mempool))
      BY <2>2, <2>3, <3>5 DEF MineSwap, MineRevert
    <3> QED BY <1>1, <3>1, <3>2, <3>3, <3>4, <3>5 DEF Mine
  <2> QED BY <1>1, <2>4, ChainFunds
<1>2. CASE UNCHANGED position
  <2>1. \A id \in 1..Len(position) : position[id] \in Nft
    BY DEF DataOK
  <2>2. \A id \in 1..Len(position) : position[id].liq \in Nat
    BY <2>1, NftAmounts
  <2>3. Len(position) \in Nat
    BY DEF DataOK
  <2> QED BY <1>2, <2>1, <2>2, <2>3 DEF Sinks
<1>3. CASE ~(Mine \/ EarnFees) /\ [Next]_vars
  <2>1. ASSUME NEW c \in Caller, ReadToken(c) \/ Progress(c) \/ Abort(c) PROVE UNCHANGED position
    <3>1. CASE ReadToken(c) \/ ReadSummary(c) \/ AcquireLock(c) \/ LockBusy(c) \/ Inspect(c)
               \/ ReadFees(c) \/ Quote(c) \/ Requote(c) \/ Confirmed(c) \/ Verify(c) \/ Load(c)
      BY <3>1 DEF ReadToken, ReadSummary, AcquireLock, LockBusy, Inspect, ReadFees, Quote, Requote,
                  Confirmed, Verify, Load, Local, chainVars
    <3>2. CASE SendDecrease(c) \/ SendCollect(c) \/ SendSwap(c) \/ SendMint(c)
      BY <3>2 DEF SendDecrease, SendCollect, SendSwap, SendMint, Send
    <3>3. CASE Refused(c) \/ Reverted(c) \/ TimedOut(c) \/ Unreadable(c) \/ Abort(c)
      BY <3>3 DEF Refused, Reverted, TimedOut, Unreadable, Abort, Raise
    <3>4. CASE WriteToken(c) \/ WriteTotals(c) \/ AppendHistory(c)
      BY <3>4, TotalsStep DEF WriteToken, AppendHistory, chainVars
    <3> QED BY <2>1, <3>1, <3>2, <3>3, <3>4 DEF Progress, WriteTotals
  <2>2. UNCHANGED position
    BY <1>3, <2>1 DEF Next, PriceMoves, vars, chainVars
  <2> QED BY <1>2, <2>2
<1> QED BY <1>1, <1>3

\* Whatever failed, timed out or was mined late: a pass points the store at its new NFT only
\* when nothing is left in the one it started from (EmptiedBeforeRepointed).
THEOREM EmptiedFirst == Spec => EmptiedBeforeRepointed
<1>1. Init => FundsInv
  BY DEF Init, FundsInv, FundsOK, Collected, Late, Rows
<1>2. DataOK /\ CallerOK /\ FundsInv /\ [Next]_vars => DataOK' /\ CallerOK' /\ FundsInv'
  BY TypeStep, FundsStep
<1>3. FundsInv /\ [Next]_vars =>
        [\A c \in Caller : pc[c] = "token" /\ pc'[c] = "count" =>
           position[job[c].tok].liq = 0 /\ position[job[c].tok].owed = 0]_vars
  BY DEF FundsInv, FundsOK, Collected, Late, Rows
<1> QED BY <1>1, <1>2, <1>3, TypeInit, PTL DEF Spec, EmptiedBeforeRepointed

-----------------------------------------------------------------------------
(* One caller at a time. *)

\* A single monitor runs and nobody uses the command line or the control routes.
OneCaller == \A c, d \in Caller : c = d

\* The open call works on the NFT the store points at, and once it has repointed the
\* store, that is the NFT it has minted.  Only a second caller could repoint it meanwhile.
TokInv == \A c \in Caller :
  /\ pc[c] \notin Written \cup {"idle"} => job[c].tok = token
  /\ pc[c] \in Written => job[c].new = token

\* A step inside the call, before the store is repointed.
LEMMA StepTok ==
  ASSUME TokInv, CallerOK, NEW c \in Caller, NEW from, NEW to, NEW l, Step(c, from, to, l),
         UNCHANGED token, l.tok = job[c].tok,
         from \notin Written \cup {"idle"}, to \notin Written \cup {"idle"}
  PROVE  TokInv'
<1>1. /\ pc[c] = from /\ pc'[c] = to /\ job'[c] = l
      /\ \A d \in Caller \ {c} : pc'[d] = pc[d] /\ job'[d] = job[d]
  BY DEF CallerOK, Step
<1> QED BY <1>1 DEF TokInv, Written, Rows

\* A caller that is not in a call.
LEMMA IdleTok ==
  ASSUME TokInv, CallerOK, NEW c \in Caller, pc'[c] = "idle", UNCHANGED token,
         \A d \in Caller \ {c} : pc'[d] = pc[d] /\ job'[d] = job[d]
  PROVE  TokInv'
BY DEF TokInv, Written, Rows

\* Nothing but the receipt of a mined transaction reaches the callers.
LEMMA MinedTok ==
  ASSUME TokInv, CallerOK, DataOK, mempool # <<>>, NEW outcome, NEW id, Mined(outcome, id)
  PROVE  TokInv'
<1>1. Head(mempool) = mempool[1] /\ 1 \in DOMAIN mempool
  BY DEF DataOK
<1>2. Head(mempool).by \in Caller => pc[Head(mempool).by] \in Awaiting
  BY <1>1 DEF CallerOK, OneWaiter
<1>3. \A c \in Caller : job[c] \in Job
  BY DEF CallerOK
<1>4. \A c \in Caller : /\ job'[c].tok = job[c].tok
                        /\ c # Head(mempool).by => job'[c] = job[c]
  BY <1>3 DEF Mined, Job
<1>5. UNCHANGED <<pc, token>>
  BY DEF Mined, storeVars
<1> QED BY <1>2, <1>4, <1>5 DEF TokInv, Awaiting, Written, Rows

LEMMA TokStep ==
  ASSUME OneCaller, TokInv, CallerOK, DataOK, [Next]_vars
  PROVE  TokInv'
<1>1. pc \in [Caller -> Where] /\ job \in [Caller -> Job]
  BY DEF CallerOK
<1>2. ASSUME NEW c \in Caller, ReadToken(c) PROVE TokInv'
  BY <1>1, <1>2 DEF TokInv, ReadToken, Step, storeVars, Job, Written, Rows
<1>3. ASSUME NEW c \in Caller, ReadSummary(c) \/ LockBusy(c) PROVE TokInv'
  BY <1>1, <1>3 DEF TokInv, ReadSummary, LockBusy, Local, Step, storeVars, Written, Rows
<1>4. ASSUME NEW c \in Caller, AcquireLock(c) \/ SendDecrease(c) \/ SendCollect(c) \/ SendSwap(c)
                               \/ SendMint(c) \/ Verify(c)
      PROVE  TokInv'
  BY <1>4, StepTok
     DEF AcquireLock, SendDecrease, SendCollect, SendSwap, SendMint, Send, Verify, Local, storeVars,
         Written, Rows
<1>5. ASSUME NEW c \in Caller, Inspect(c) \/ ReadFees(c) \/ Quote(c) \/ Requote(c) \/ Load(c)
      PROVE  TokInv'
  <2>1. /\ \A x : [job[c] EXCEPT !.liq = x].tok = job[c].tok
        /\ \A x : [job[c] EXCEPT !.fees = x].tok = job[c].tok
        /\ \A x : [job[c] EXCEPT !.amt = x].tok = job[c].tok
        /\ \A x, y : [job[c] EXCEPT !.base = x, !.adds = y].tok = job[c].tok
        /\ \A x, y : [job[c] EXCEPT !.at = x, !.amt = y].tok = job[c].tok
    BY <1>1 DEF Job
  <2> DEFINE places == {"inspect", "fees", "quote", "requote", "load"}
             nexts == {"fees", "decrease", "collect", "swap", "mint", "token"}
  <2>2. ASSUME NEW from \in places, NEW to \in nexts, NEW l, Local(c, from, to, l),
               l.tok = job[c].tok
        PROVE  TokInv'
    BY <2>2, StepTok DEF Local, storeVars, Written, Rows
  <2>3. CASE Inspect(c)
    <3> DEFINE l == [job[c] EXCEPT !.liq = position[job[c].tok].liq]
    <3>1. \E to \in {"fees"} : Local(c, "inspect", to, l)
      BY <2>3 DEF Inspect
    <3>2. l.tok = job[c].tok
      BY <2>1
    <3> HIDE DEF l
    <3> QED BY <2>2, <3>1, <3>2
  <2>4. CASE ReadFees(c)
    <3> DEFINE l == [job[c] EXCEPT !.fees = Pending(job[c].tok)]
    <3>1. \E to \in {"decrease", "collect"} : Local(c, "fees", to, l)
      BY <2>4 DEF ReadFees
    <3>2. l.tok = job[c].tok
      BY <2>1
    <3> HIDE DEF l
    <3> QED BY <2>2, <3>1, <3>2
  <2>5. CASE Quote(c)
    <3> DEFINE l == [job[c] EXCEPT !.at = price, !.amt = wallet]
    <3>1. \E to \in {"swap", "mint"} : Local(c, "quote", to, l)
      BY <2>5 DEF Quote
    <3>2. l.tok = job[c].tok
      BY <2>1
    <3> HIDE DEF l
    <3> QED BY <2>2, <3>1, <3>2
  <2>6. CASE Requote(c)
    <3> DEFINE l == [job[c] EXCEPT !.amt = wallet]
    <3>1. \E to \in {"mint"} : Local(c, "requote", to, l)
      BY <2>6 DEF Requote
    <3>2. l.tok = job[c].tok
      BY <2>1
    <3> HIDE DEF l
    <3> QED BY <2>2, <3>1, <3>2
  <2>7. CASE Load(c)
    <3>1. PICK adds : Local(c, "load", "token", [job[c] EXCEPT !.base = books, !.adds = adds])
      BY <2>7 DEF Load
    <3> DEFINE l == [job[c] EXCEPT !.base = books, !.adds = adds]
    <3>2. l.tok = job[c].tok /\ \E to \in {"token"} : Local(c, "load", to, l)
      BY <2>1, <3>1
    <3> HIDE DEF l
    <3> QED BY <2>2, <3>2
  <2> QED BY <1>5, <2>3, <2>4, <2>5, <2>6, <2>7
<1>6. ASSUME NEW c \in Caller, Confirmed(c) PROVE TokInv'
  <2> DEFINE l == [job[c] EXCEPT !.gas = @ + 1, !.receipt = "none"]
  <2>1. l.tok = job[c].tok
    BY <1>1 DEF Job
  <2>2. Step(c, pc[c], After(pc[c]), l) /\ UNCHANGED token /\ pc[c] \in Awaiting
    BY <1>6 DEF Confirmed, Local, storeVars
  <2>3. pc[c] \notin Written \cup {"idle"} /\ After(pc[c]) \notin Written \cup {"idle"}
    BY <2>2 DEF After, Awaiting, Written, Rows
  <2> HIDE DEF l
  <2> QED BY <2>1, <2>2, <2>3, StepTok
<1>7. ASSUME NEW c \in Caller, WriteToken(c) \/ WriteTotals(c) PROVE TokInv'
  <2>1. CASE WriteToken(c)
    BY <1>1, <2>1 DEF TokInv, OneCaller, WriteToken, Step, Written, Rows
  <2>2. CASE WriteTotals(c)
    <3>1. PICK from \in {"count", "gas", "usdt", "bnb"}, to \in {"gas", "usdt", "bnb", "history"} :
            Step(c, from, to, job[c]) /\ UNCHANGED token
      BY <2>2, TotalsStep
    <3> QED BY <1>1, <3>1 DEF TokInv, Step, Written, Rows
  <2> QED BY <1>7, <2>1, <2>2
<1>8. ASSUME NEW c \in Caller, AppendHistory(c) \/ Refused(c) \/ Reverted(c) \/ TimedOut(c)
                               \/ Unreadable(c) \/ Abort(c)
      PROVE  TokInv'
  <2>1. Leave(c) /\ UNCHANGED token
    BY <1>8 DEF AppendHistory, Refused, Reverted, TimedOut, Unreadable, Abort, Raise, storeVars
  <2> QED BY <1>1, <2>1, IdleTok DEF Leave
<1>9. CASE Mine
  <2>1. \E outcome, id : Mined(outcome, id)
    BY <1>9 DEF Mine, MineDecrease, MineCollect, MineSwap, MineMint, MineRevert
  <2> QED BY <1>9, <2>1, MinedTok DEF Mine
<1>10. CASE EarnFees \/ PriceMoves \/ UNCHANGED vars
  BY <1>10 DEF TokInv, EarnFees, PriceMoves, vars, storeVars, Written, Rows
<1> QED BY <1>2, <1>3, <1>4, <1>5, <1>6, <1>7, <1>8, <1>9, <1>10 DEF Next, Progress, WriteTotals

\* Only a pass repoints the store, and then to the NFT it minted.
LEMMA TokenSteps ==
  ASSUME CallerOK, [Next]_vars
  PROVE  \/ UNCHANGED <<token, recorded>>
         \/ \E c \in Caller : /\ pc[c] = "token" /\ pc' = [pc EXCEPT ![c] = "count"]
                              /\ token' = job[c].new /\ recorded' = recorded \cup {token'}
                              /\ UNCHANGED <<position, history, job>>
<1>1. ASSUME NEW c \in Caller, WriteToken(c)
      PROVE  /\ pc[c] = "token" /\ pc' = [pc EXCEPT ![c] = "count"]
             /\ token' = job[c].new /\ recorded' = recorded \cup {token'}
             /\ UNCHANGED <<position, history, job>>
  BY <1>1 DEF WriteToken, Step, chainVars, CallerOK
<1>2. ASSUME NEW c \in Caller, ReadToken(c) \/ Progress(c) \/ Abort(c), ~WriteToken(c)
      PROVE  UNCHANGED <<token, recorded>>
  <2>1. CASE ReadToken(c) \/ ReadSummary(c) \/ AcquireLock(c) \/ LockBusy(c) \/ Inspect(c)
             \/ ReadFees(c) \/ Quote(c) \/ Requote(c) \/ Confirmed(c) \/ Verify(c) \/ Load(c)
    BY <2>1 DEF ReadToken, ReadSummary, AcquireLock, LockBusy, Inspect, ReadFees, Quote, Requote,
                Confirmed, Verify, Load, Local, storeVars, ghostVars
  <2>2. CASE SendDecrease(c) \/ SendCollect(c) \/ SendSwap(c) \/ SendMint(c)
    BY <2>2 DEF SendDecrease, SendCollect, SendSwap, SendMint, Send, storeVars, ghostVars
  <2>3. CASE Refused(c) \/ Reverted(c) \/ TimedOut(c) \/ Unreadable(c) \/ Abort(c)
    BY <2>3 DEF Refused, Reverted, TimedOut, Unreadable, Abort, Raise, storeVars
  <2>4. CASE WriteTotals(c) \/ AppendHistory(c)
    BY <2>4, TotalsStep DEF AppendHistory, ghostVars
  <2> QED BY <1>2, <2>1, <2>2, <2>3, <2>4 DEF Progress, WriteTotals
<1>3. CASE Mine \/ EarnFees \/ PriceMoves \/ UNCHANGED vars
  BY <1>3 DEF Mine, MineDecrease, MineCollect, MineSwap, MineMint, MineRevert, Mined, EarnFees,
              PriceMoves, vars, storeVars, ghostVars
<1> QED BY <1>1, <1>2, <1>3 DEF Next

\* The store stops pointing at an NFT only when that NFT is empty (NeverAbandonFunded).  The
\* run rebalance_stale shows that two callers can break it.
THEOREM NothingAbandoned == OneCaller => (Spec => NeverAbandonFunded)
<1> SUFFICES ASSUME OneCaller PROVE Spec => NeverAbandonFunded
  OBVIOUS
<1>1. Init => FundsInv /\ TokInv
  BY DEF Init, FundsInv, FundsOK, Collected, Late, TokInv, Written, Rows
<1>2. DataOK /\ CallerOK /\ FundsInv /\ TokInv /\ [Next]_vars
        => DataOK' /\ CallerOK' /\ FundsInv' /\ TokInv'
  BY TypeStep, FundsStep, TokStep
<1>3. CallerOK /\ FundsInv /\ TokInv /\ [Next]_vars =>
        [token' # token => position[token].liq = 0 /\ position[token].owed = 0]_vars
  BY TokenSteps DEF FundsInv, FundsOK, TokInv, Collected, Late, Written, Rows
<1> QED BY <1>1, <1>2, <1>3, TypeInit, PTL DEF Spec, NeverAbandonFunded

\* An NFT the store has pointed at exists, and only the present one holds liquidity.
RecordedInv == \A id \in recorded : Exists(id) /\ (id # token => position[id].liq = 0)

LEMMA RecordedStep ==
  ASSUME RecordedInv, TokInv, FundsInv, CallerOK, DataOK, [Next]_vars
  PROVE  RecordedInv'
<1>1. Sinks
  BY StepSinks
<1>2. /\ DataOK' /\ Len(position) \in Nat /\ Len(position') \in Nat
      /\ Len(position) <= Len(position')
  <2>1. DataOK'
    BY TypeStep
  <2>2. Len(position) <= Len(position')
    BY StepSinks
  <2> QED BY <2>1, <2>2 DEF DataOK
<1>3. \A id \in 1..Len(position) :
        id \in 1..Len(position') /\ (position[id].liq = 0 => position'[id].liq = 0)
  <2> SUFFICES ASSUME NEW id \in 1..Len(position)
      PROVE id \in 1..Len(position') /\ (position[id].liq = 0 => position'[id].liq = 0)
    OBVIOUS
  <2>1. position[id] \in Nft /\ position'[id] \in Nft /\ position'[id].liq <= position[id].liq
    BY <1>1 DEF Sinks
  <2>2. position[id].liq \in Nat /\ position'[id].liq \in Nat
    BY <2>1, NftAmounts
  <2> QED BY <1>2, <2>1, <2>2
<1>4. CASE UNCHANGED <<token, recorded>>
  BY <1>3, <1>4 DEF RecordedInv, Exists
<1>5. ASSUME NEW c \in Caller, pc[c] = "token", token' = job[c].new,
             recorded' = recorded \cup {token'}, UNCHANGED position
      PROVE  RecordedInv'
  <2>1. job[c].tok = token /\ position[token].liq = 0
    BY <1>5 DEF TokInv, FundsInv, FundsOK, Collected, Late, Written, Rows
  <2>2. Exists(job[c].new)
    BY <1>5 DEF CallerOK, JobOK, Late, Rows
  <2> QED BY <1>5, <2>1, <2>2 DEF RecordedInv, Exists
<1> QED BY <1>4, <1>5, TokenSteps

\* What no pass records is the only funded NFT besides the managed one
\* (FundedIsManagedOrUnrecorded).
THEOREM FundedIsManaged == OneCaller => (Spec => []FundedIsManagedOrUnrecorded)
<1> SUFFICES ASSUME OneCaller PROVE Spec => []FundedIsManagedOrUnrecorded
  OBVIOUS
<1>1. Init => FundsInv /\ TokInv /\ RecordedInv
  BY DEF Init, FundsInv, FundsOK, Collected, Late, TokInv, RecordedInv, Exists, Written, Rows
<1>2. DataOK /\ CallerOK /\ FundsInv /\ TokInv /\ RecordedInv /\ [Next]_vars
        => DataOK' /\ CallerOK' /\ FundsInv' /\ TokInv' /\ RecordedInv'
  BY TypeStep, FundsStep, TokStep, RecordedStep
<1>3. DataOK /\ RecordedInv => FundedIsManagedOrUnrecorded
  BY DEF RecordedInv, FundedIsManagedOrUnrecorded
<1> QED BY <1>1, <1>2, <1>3, TypeInit, PTL DEF Spec

\* What the entries lead to is no younger than the managed NFT, nor than the one that a pass
\* which has already repointed the store will name as its origin.
HistoryInv ==
  /\ HistoryNeverGoesBack
  /\ \A i \in 1..Len(history) :
       /\ history[i].to <= token
       /\ \A c \in Caller : pc[c] \in Written => history[i].to <= job[c].tok

\* Two steps of a pass concern the history; every other leaves it, and what it is compared
\* with, alone.
LEMMA HistorySteps ==
  ASSUME CallerOK, DataOK, [Next]_vars
  PROVE  \/ \E c \in Caller : WriteToken(c) \/ AppendHistory(c)
         \/ /\ UNCHANGED <<token, history>>
            /\ \A c \in Caller : pc'[c] \in Written =>
                 pc[c] \in Written /\ job'[c].tok = job[c].tok
<1> DEFINE Quiet == \A c \in Caller : pc'[c] \in Written =>
                      pc[c] \in Written /\ job'[c].tok = job[c].tok
<1>1. pc \in [Caller -> Where] /\ job \in [Caller -> Job]
  BY DEF CallerOK
<1>2. ASSUME NEW c \in Caller, NEW from, NEW to, NEW l, Step(c, from, to, l), to \notin Written
      PROVE  Quiet
  BY <1>1, <1>2 DEF Step
<1>3. ASSUME NEW c \in Caller, ReadToken(c) \/ ReadSummary(c) \/ AcquireLock(c) \/ LockBusy(c)
      PROVE  UNCHANGED <<token, history>> /\ Quiet
  BY <1>2, <1>3 DEF ReadToken, ReadSummary, AcquireLock, LockBusy, Local, storeVars, Written, Rows
<1>4. ASSUME NEW c \in Caller, Inspect(c) \/ ReadFees(c) \/ Quote(c) \/ Requote(c) \/ Verify(c)
                               \/ Load(c)
      PROVE  UNCHANGED <<token, history>> /\ Quiet
  <2>1. \E from, to \in Critical \ Written : \E l : Local(c, from, to, l)
    BY <1>4 DEF Inspect, ReadFees, Quote, Requote, Verify, Load, Critical, Written, Rows
  <2> QED BY <1>2, <2>1 DEF Local, storeVars
<1>5. ASSUME NEW c \in Caller, SendDecrease(c) \/ SendCollect(c) \/ SendSwap(c) \/ SendMint(c)
      PROVE  UNCHANGED <<token, history>> /\ Quiet
  BY <1>2, <1>5 DEF SendDecrease, SendCollect, SendSwap, SendMint, Send, storeVars, Written, Rows
<1>6. ASSUME NEW c \in Caller, Confirmed(c) PROVE UNCHANGED <<token, history>> /\ Quiet
  <2>1. After(pc[c]) \notin Written
    BY DEF After, Written, Rows
  <2> QED BY <1>2, <1>6, <2>1 DEF Confirmed, Local, storeVars
<1>7. ASSUME NEW c \in Caller, WriteTotals(c) PROVE UNCHANGED <<token, history>> /\ Quiet
  <2>1. PICK from \in {"count", "gas", "usdt", "bnb"}, to \in {"gas", "usdt", "bnb", "history"} :
          Step(c, from, to, job[c]) /\ UNCHANGED <<token, history>>
    BY <1>7, TotalsStep
  <2> QED BY <1>1, <2>1 DEF Step, Written, Rows
<1>8. ASSUME NEW c \in Caller, Refused(c) \/ Reverted(c) \/ TimedOut(c) \/ Unreadable(c) \/ Abort(c)
      PROVE  UNCHANGED <<token, history>> /\ Quiet
  <2>1. Leave(c) /\ UNCHANGED <<token, history>>
    BY <1>8 DEF Refused, Reverted, TimedOut, Unreadable, Abort, Raise, storeVars
  <2> QED BY <1>1, <2>1 DEF Leave, Written, Rows
<1>9. CASE Mine
  <2>1. PICK outcome, id : Mined(outcome, id)
    BY <1>9 DEF Mine, MineDecrease, MineCollect, MineSwap, MineMint, MineRevert
  <2>2. \A c \in Caller : job'[c].tok = job[c].tok
    BY <1>1, <2>1 DEF Mined, Job
  <2> QED BY <2>1, <2>2 DEF Mined, storeVars
<1>10. CASE EarnFees \/ PriceMoves \/ UNCHANGED vars
  BY <1>10 DEF EarnFees, PriceMoves, vars, storeVars
<1> QED BY <1>3, <1>4, <1>5, <1>6, <1>7, <1>8, <1>9, <1>10 DEF Next, Progress, WriteTotals

LEMMA ElementOfSeq ==
  ASSUME NEW S, NEW s \in Seq(S), NEW i \in 1..Len(s)
  PROVE  s[i] \in S
OBVIOUS

LEMMA HistoryStep ==
  ASSUME OneCaller, HistoryInv, TokInv, FreshInv, CallerOK, DataOK, [Next]_vars
  PROVE  HistoryInv'
<1>1. /\ pc \in [Caller -> Where] /\ job \in [Caller -> Job]
      /\ history \in Seq([from : Nat, to : Nat]) /\ Len(history) \in Nat /\ token \in Nat
  BY DEF CallerOK, DataOK, Exists
<1>2. CASE /\ UNCHANGED <<token, history>>
           /\ \A c \in Caller : pc'[c] \in Written =>
                pc[c] \in Written /\ job'[c].tok = job[c].tok
  BY <1>2 DEF HistoryInv, HistoryNeverGoesBack
<1>3. ASSUME NEW c \in Caller, WriteToken(c) PROVE HistoryInv'
  <2>1. /\ pc[c] = "token" /\ token' = job[c].new /\ UNCHANGED <<history, job>>
    BY <1>1, <1>3 DEF WriteToken, Step
  <2>2. job[c].tok = token /\ job[c].new \in Nat /\ job[c].new > token
    BY <1>1, <2>1 DEF TokInv, FreshInv, CallerOK, JobOK, Late, Job, Written, Rows
  <2>3. \A i \in 1..Len(history) : history[i].to <= token' /\ history[i].to <= job'[c].tok
    <3> SUFFICES ASSUME NEW i \in 1..Len(history)
                 PROVE  history[i].to <= token' /\ history[i].to <= job'[c].tok
      OBVIOUS
    <3>1. history[i] \in [from : Nat, to : Nat]
      BY <1>1, ElementOfSeq
    <3>2. history[i].to \in Nat
      BY <3>1
    <3>3. history[i].to <= token
      BY DEF HistoryInv
    <3> QED BY <1>1, <2>1, <2>2, <3>2, <3>3
  <2> QED BY <2>1, <2>3 DEF HistoryInv, HistoryNeverGoesBack, OneCaller
<1>4. ASSUME NEW c \in Caller, AppendHistory(c) PROVE HistoryInv'
  <2> DEFINE entry == [from |-> job[c].tok, to |-> job[c].new]
  <2>1. /\ pc[c] = "history" /\ pc'[c] = "idle" /\ UNCHANGED token
        /\ history' = Append(history, entry)
    BY <1>1, <1>4 DEF AppendHistory, Leave
  <2>2. entry.to = token /\ entry \in [from : Nat, to : Nat]
    BY <1>1, <2>1 DEF TokInv, Job, Written, Rows
  <2>3. \A i \in 1..Len(history) : history[i].to <= entry.from /\ history[i].to <= token
    BY <2>1 DEF HistoryInv, Written, Rows
  <2> HIDE DEF entry
  <2>4. /\ Len(history') = Len(history) + 1 /\ history'[Len(history) + 1] = entry
        /\ \A i \in 1..Len(history) : history'[i] = history[i]
    BY <1>1, <2>1, <2>2
  <2>5. HistoryNeverGoesBack'
    <3> SUFFICES ASSUME NEW i \in 1..Len(history'), NEW k \in 1..Len(history'), i < k
                 PROVE  history'[i].to <= history'[k].from
      BY DEF HistoryNeverGoesBack
    <3>1. i \in 1..Len(history) /\ (k \in 1..Len(history) \/ k = Len(history) + 1)
      <4>1. Len(history) \in Nat /\ Len(history') = Len(history) + 1
        BY <1>1, <2>4
      <4>2. i \in 1..(Len(history) + 1) /\ k \in 1..(Len(history) + 1) /\ i < k
        BY <4>1
      <4> HIDE DEF entry
      <4> QED BY <4>1, <4>2
    <3>2. CASE k = Len(history) + 1
      BY <2>3, <2>4, <3>1, <3>2
    <3>3. CASE k \in 1..Len(history)
      <4>1. history[i].to <= history[k].from
        BY <3>1, <3>3 DEF HistoryInv, HistoryNeverGoesBack
      <4> QED BY <2>4, <3>1, <3>3, <4>1
    <3> QED BY <3>1, <3>2, <3>3
  <2>6. \A i \in 1..Len(history') : history'[i].to <= token'
    <3> SUFFICES ASSUME NEW i \in 1..Len(history') PROVE history'[i].to <= token'
      OBVIOUS
    <3>1. CASE i = Len(history) + 1
      BY <1>1, <2>1, <2>2, <2>4, <3>1
    <3>2. CASE i \in 1..Len(history)
      BY <2>1, <2>3, <2>4, <3>2
    <3> QED BY <1>1, <2>4, <3>1, <3>2
  <2> QED BY <2>1, <2>5, <2>6 DEF HistoryInv, OneCaller, Written, Rows
<1> QED BY <1>2, <1>3, <1>4, HistorySteps

\* No pass works on an NFT that an earlier one replaced (HistoryNeverGoesBack).
THEOREM HistoryMovesOn == OneCaller => (Spec => []HistoryNeverGoesBack)
<1> SUFFICES ASSUME OneCaller PROVE Spec => []HistoryNeverGoesBack
  OBVIOUS
<1>1. Init => LockInv /\ FreshInv /\ TokInv /\ HistoryInv
  BY CallerAssumption, NoJobOK
     DEF Init, LockInv, OneMover, FreshInv, TokInv, HistoryInv, HistoryNeverGoesBack, Where,
         Critical, Awaiting, Written, Rows
<1>2. LockInv /\ DataOK /\ CallerOK /\ FreshInv /\ TokInv /\ HistoryInv /\ [Next]_vars
        => LockInv' /\ DataOK' /\ CallerOK' /\ FreshInv' /\ TokInv' /\ HistoryInv'
  BY LockStep, TypeStep, FreshStep, TokStep, HistoryStep
<1>3. HistoryInv => HistoryNeverGoesBack
  BY DEF HistoryInv
<1> QED BY <1>1, <1>2, <1>3, TypeInit, PTL DEF Spec

-----------------------------------------------------------------------------
(* Passes of which none has failed half way. *)

\* Where the managed NFT is funded while a pass is under way: before it withdraws, and after
\* it has repointed the store.  In between, the NFT that is known to be minted is.
HolderFunds(at, j, nfts, managed) ==
  /\ at \in {"inspect", "fees", "decrease"} \cup Written => nfts[managed].liq > 0
  /\ at \in {"confirm", "load", "token"} \/ (at = "minting" /\ j.receipt = "ok")
       => j.new = 0 \/ nfts[j.new].liq > 0

\* What a pass at a place has still to book of the fees it read.
Unbooked(at, j) ==
  IF at \in {"token", "count", "gas", "usdt"} THEN FeesIn(j.adds)
  ELSE IF at = "bnb" THEN j.adds.bnb ELSE IF at = "history" THEN 0 ELSE j.fees

\* The fees a pass has read are fees, not principal, because nothing is owed when it reads
\* them; they are still in the NFT until collect, which sweeps at least as many.
HolderFees(at, j, nfts, booked, collected) ==
  /\ at \notin {"decreasing", "collect", "collecting"} => nfts[j.tok].owed = 0
  /\ at \in {"decrease", "decreasing", "collect"} \/ (at = "collecting" /\ j.receipt = "none")
       => j.fees <= nfts[j.tok].fees
  /\ at \in Collected \/ (at = "collecting" /\ j.receipt = "ok")
       => booked + Unbooked(at, j) <= collected

\* No other NFT owes principal.
OthersOwe(j, nfts) == \A id \in 1..Len(nfts) : id # j.tok => nfts[id].owed = 0

CleanInv == clean =>
  /\ \A i \in DOMAIN mempool : mempool[i].by \in Caller
  /\ lock = NoCaller => /\ position[token].liq > 0
                        /\ \A id \in 1..Len(position) : position[id].owed = 0
  /\ \A c \in Caller : lock = c =>
       /\ pc[c] \in Critical
       /\ HolderFunds(pc[c], job[c], position, token)
       /\ HolderFees(pc[c], job[c], position, FeesIn(books), swept)
       /\ OthersOwe(job[c], position)
  /\ FeesIn(books) <= swept

LEMMA FeesAreNat == ASSUME NEW b \in Books PROVE FeesIn(b) \in Nat
BY DEF Books, FeesIn

\* A step of a caller that does not hold the flock, or of none.
LEMMA BystanderClean ==
  ASSUME CleanInv, clean' => clean, UNCHANGED <<position, mempool, lock, token, books, swept>>,
         \A c \in Caller : lock = c => pc'[c] = pc[c] /\ job'[c] = job[c]
  PROVE  CleanInv'
BY DEF CleanInv

\* A step of the pass that holds the flock, which moves no value.
LEMMA HolderClean ==
  ASSUME CleanInv, LockInv, CallerOK, NEW c \in Caller, NEW from \in Critical, NEW to \in Critical,
         NEW l, Step(c, from, to, l), UNCHANGED <<position, lock, swept, clean>>,
         clean => \A i \in DOMAIN mempool' : mempool'[i].by \in Caller,
         clean => /\ HolderFunds(to, l, position, token')
                  /\ HolderFees(to, l, position, FeesIn(books'), swept)
                  /\ l.tok = job[c].tok /\ FeesIn(books') <= swept
  PROVE  CleanInv'
<1>1. pc'[c] = to /\ job'[c] = l /\ lock = c /\ c # NoCaller
  BY CallerAssumption DEF LockInv, OneMover, Step, CallerOK
<1>2. clean => OthersOwe(l, position)
  BY <1>1 DEF CleanInv, OthersOwe
<1> QED BY <1>1, <1>2 DEF CleanInv

\* What the holder knows, in a state where no pass has failed.
LEMMA HolderKnows ==
  ASSUME CleanInv, LockInv, CallerOK, FundsInv, DataOK, clean, NEW c \in Caller, pc[c] \in Critical
  PROVE  /\ HolderFunds(pc[c], job[c], position, token)
         /\ HolderFees(pc[c], job[c], position, FeesIn(books), swept)
         /\ OthersOwe(job[c], position) /\ FeesIn(books) <= swept
         /\ FundsOK(pc[c], job[c], position[job[c].tok]) /\ JobOK(c, pc[c], job[c])
         /\ job[c] \in Job /\ Exists(job[c].tok) /\ position[job[c].tok] \in Nft
         /\ \A i \in DOMAIN mempool : mempool[i].by \in Caller
<1>1. lock = c
  BY DEF LockInv, OneMover
<1>2. pc[c] # "idle"
  BY DEF Critical, Awaiting
<1>3. JobOK(c, pc[c], job[c]) /\ Exists(job[c].tok) /\ job[c] \in Job
  BY <1>2 DEF CallerOK, JobOK
<1>4. position[job[c].tok] \in Nft
  BY <1>3 DEF DataOK, Exists
<1> QED BY <1>1, <1>3, <1>4 DEF CleanInv, FundsInv

\* The pass that holds the flock goes on, and nothing is broadcast.
LEMMA PassClean ==
  ASSUME CleanInv, LockInv, CallerOK, FundsInv, DataOK, BooksInv, NEW c \in Caller,
         \/ Inspect(c) \/ ReadFees(c) \/ Quote(c) \/ Requote(c) \/ Confirmed(c)
         \/ Verify(c) \/ Load(c) \/ WriteToken(c) \/ WriteTotals(c)
  PROVE  CleanInv'
<1> DEFINE j == job[c]
           nft == position[job[c].tok]
           Good(to, l, managed, booked) == /\ HolderFunds(to, l, position, managed)
                                           /\ HolderFees(to, l, position, booked, swept)
                                           /\ l.tok = j.tok /\ booked <= swept
<1>1. pc[c] \in Critical
  <2>1. ASSUME WriteTotals(c) PROVE pc[c] \in Critical
    BY <2>1, TotalsStep DEF Step, Critical
  <2> QED BY <2>1 DEF Inspect, ReadFees, Quote, Requote, Confirmed, Verify, Load, WriteToken, Local,
                      Step, Critical
<1>2. clean =>
        /\ HolderFunds(pc[c], j, position, token)
        /\ HolderFees(pc[c], j, position, FeesIn(books), swept) /\ FeesIn(books) <= swept
        /\ FundsOK(pc[c], j, nft) /\ (pc[c] \in Late => j.new # 0)
        /\ \A i \in DOMAIN mempool : mempool[i].by \in Caller
  BY <1>1, HolderKnows DEF JobOK
<1>3. /\ j \in Job /\ Exists(j.tok) /\ nft \in Nft /\ j.fees \in Nat /\ nft.fees \in Nat
      /\ FeesIn(books) \in Nat /\ swept \in Nat
      /\ j.adds.usdt \in Nat /\ j.adds.bnb \in Nat /\ FeesIn(j.adds) = j.adds.usdt + j.adds.bnb
  <2>1. j \in Job /\ Exists(j.tok) /\ nft \in Nft
    BY <1>1 DEF CallerOK, JobOK, DataOK, Exists, Critical, Awaiting
  <2>2. j.fees \in Nat /\ nft.fees \in Nat /\ j.adds \in Books
    BY <2>1, NftAmounts DEF Job
  <2>3. j.adds.usdt \in Nat /\ j.adds.bnb \in Nat /\ FeesIn(j.adds) = j.adds.usdt + j.adds.bnb
    BY <2>2 DEF Books, FeesIn
  <2>4. FeesIn(books) \in Nat /\ swept \in Nat
    BY FeesAreNat DEF DataOK
  <2> QED BY <2>1, <2>2, <2>3, <2>4
<1>4. ASSUME NEW from \in Critical, NEW to \in Critical, NEW l, Step(c, from, to, l),
             UNCHANGED <<position, mempool, lock, swept, clean>>,
             clean => Good(to, l, token', FeesIn(books'))
      PROVE  CleanInv'
  BY <1>2, <1>4, HolderClean
<1>5. CASE Inspect(c)
  <2> DEFINE l == [j EXCEPT !.liq = nft.liq]
  <2>1. pc[c] = "inspect" /\ Step(c, "inspect", "fees", l)
        /\ UNCHANGED <<position, mempool, lock, swept, clean, token, books>>
    BY <1>5 DEF Inspect, Local, Step, chainVars, storeVars, ghostVars
  <2>2. l.tok = j.tok /\ l.new = j.new /\ l.fees = j.fees /\ l.receipt = j.receipt
    BY <1>3 DEF Job
  <2> HIDE DEF l
  <2>3. clean => Good("fees", l, token, FeesIn(books))
    BY <1>2, <2>1, <2>2 DEF HolderFunds, HolderFees, Unbooked, Collected, Late, Rows
  <2> QED BY <1>4, <2>1, <2>3 DEF Critical
<1>6. CASE ReadFees(c)
  <2> DEFINE l == [j EXCEPT !.fees = Pending(j.tok)]
             to == IF j.liq > 0 THEN "decrease" ELSE "collect"
  <2>1. pc[c] = "fees" /\ Step(c, "fees", to, l)
        /\ UNCHANGED <<position, mempool, lock, swept, clean, token, books>>
    BY <1>6 DEF ReadFees, Local, Step, chainVars, storeVars, ghostVars
  <2>2. l.tok = j.tok /\ l.new = j.new /\ l.fees = nft.owed + nft.fees /\ l.receipt = j.receipt
    BY <1>3 DEF Job, Pending
  <2>3. clean => l.fees <= nft.fees /\ nft.owed = 0
    BY <1>2, <1>3, <2>1, <2>2 DEF HolderFees, Unbooked
  <2>4. to \in {"decrease", "collect"}
    OBVIOUS
  <2> HIDE DEF l, to
  <2>5. clean => Good(to, l, token, FeesIn(books))
    BY <1>2, <2>1, <2>2, <2>3, <2>4 DEF HolderFunds, HolderFees, Unbooked, Collected, Late, Rows, Written
  <2> QED BY <1>4, <2>1, <2>4, <2>5 DEF Critical
<1>7. CASE Quote(c)
  <2> DEFINE l == [j EXCEPT !.at = price, !.amt = wallet]
  <2>1. PICK to \in {"swap", "mint"} : pc[c] = "quote" /\ Step(c, "quote", to, l)
          /\ UNCHANGED <<position, mempool, lock, swept, clean, token, books>>
    BY <1>7 DEF Quote, Local, Step, chainVars, storeVars, ghostVars
  <2>2. l.tok = j.tok /\ l.new = j.new /\ l.fees = j.fees /\ l.receipt = j.receipt
    BY <1>3 DEF Job
  <2> HIDE DEF l
  <2>3. clean => Good(to, l, token, FeesIn(books))
    BY <1>2, <2>1, <2>2 DEF HolderFunds, HolderFees, Unbooked, Collected, Late, Rows, Written
  <2> QED BY <1>4, <2>1, <2>3 DEF Critical
<1>8. CASE Requote(c)
  <2> DEFINE l == [j EXCEPT !.amt = wallet]
  <2>1. pc[c] = "requote" /\ Step(c, "requote", "mint", l)
        /\ UNCHANGED <<position, mempool, lock, swept, clean, token, books>>
    BY <1>8 DEF Requote, Local, Step, chainVars, storeVars, ghostVars
  <2>2. l.tok = j.tok /\ l.new = j.new /\ l.fees = j.fees /\ l.receipt = j.receipt
    BY <1>3 DEF Job
  <2> HIDE DEF l
  <2>3. clean => Good("mint", l, token, FeesIn(books))
    BY <1>2, <2>1, <2>2 DEF HolderFunds, HolderFees, Unbooked, Collected, Late, Rows, Written
  <2> QED BY <1>4, <2>1, <2>3 DEF Critical
<1>9. CASE Load(c)
  <2>1. PICK part \in 0..j.fees : Local(c, "load", "token", [j EXCEPT !.base = books,
          !.adds = [count |-> 1, gas |-> j.gas, usdt |-> part, bnb |-> j.fees - part]])
    BY <1>9 DEF Load
  <2> DEFINE adds == [count |-> 1, gas |-> j.gas, usdt |-> part, bnb |-> j.fees - part]
             l == [j EXCEPT !.base = books, !.adds = adds]
  <2>2. pc[c] = "load" /\ Step(c, "load", "token", l)
        /\ UNCHANGED <<position, mempool, lock, swept, clean, token, books>>
    BY <2>1 DEF Local, Step, chainVars, storeVars, ghostVars
  <2>3. FeesIn(adds) = j.fees
    BY <1>3 DEF FeesIn
  <2>4. l.tok = j.tok /\ l.new = j.new /\ l.receipt = j.receipt /\ FeesIn(l.adds) = j.fees
    BY <1>3, <2>3 DEF Job
  <2> HIDE DEF l, adds
  <2>5. clean => Good("token", l, token, FeesIn(books))
    BY <1>2, <2>2, <2>4 DEF HolderFunds, HolderFees, Unbooked, Collected, Late, Rows, Written
  <2> QED BY <1>4, <2>2, <2>5 DEF Critical
<1>10. CASE Confirmed(c)
  <2> DEFINE l == [j EXCEPT !.gas = @ + 1, !.receipt = "none"]
  <2>1. /\ pc[c] \in Awaiting /\ j.receipt = "ok" /\ Step(c, pc[c], After(pc[c]), l)
        /\ UNCHANGED <<position, mempool, lock, swept, clean, token, books>>
    BY <1>10 DEF Confirmed, Local, Step, chainVars, storeVars, ghostVars
  <2>2. l.tok = j.tok /\ l.new = j.new /\ l.fees = j.fees /\ l.receipt = "none"
    BY <1>3 DEF Job
  <2> HIDE DEF l
  <2>3. clean => Good(After(pc[c]), l, token, FeesIn(books))
    <3>1. CASE pc[c] = "decreasing"
      BY <1>2, <2>1, <2>2, <3>1 DEF HolderFunds, HolderFees, Unbooked, Collected, Late, Rows, Written, After
    <3>2. CASE pc[c] = "collecting"
      BY <1>2, <2>1, <2>2, <3>2
         DEF HolderFunds, HolderFees, Unbooked, Collected, Late, Rows, Written, After, FundsOK
    <3>3. CASE pc[c] = "swapping"
      BY <1>2, <2>1, <2>2, <3>3 DEF HolderFunds, HolderFees, Unbooked, Collected, Late, Rows, Written, After
    <3>4. CASE pc[c] = "minting"
      BY <1>2, <2>1, <2>2, <3>4 DEF HolderFunds, HolderFees, Unbooked, Collected, Late, Rows, Written, After
    <3> QED BY <2>1, <3>1, <3>2, <3>3, <3>4 DEF Awaiting
  <2>4. After(pc[c]) \in Critical
    BY DEF After, Critical
  <2> QED BY <1>1, <1>4, <2>1, <2>3, <2>4
<1>11. CASE Verify(c)
  <2>1. pc[c] = "confirm" /\ Step(c, "confirm", "load", j)
        /\ UNCHANGED <<position, mempool, lock, swept, clean, token, books>>
    BY <1>11 DEF Verify, Local, Step, chainVars, storeVars, ghostVars
  <2>2. clean => Good("load", j, token, FeesIn(books))
    BY <1>2, <2>1 DEF HolderFunds, HolderFees, Unbooked, Collected, Late, Rows, Written
  <2> QED BY <1>4, <2>1, <2>2 DEF Critical
<1>12. CASE WriteToken(c)
  <2>1. pc[c] = "token" /\ Step(c, "token", "count", j) /\ token' = j.new
        /\ UNCHANGED <<position, mempool, lock, swept, clean, books>>
    BY <1>12 DEF WriteToken, Step, chainVars
  <2>2. clean => Good("count", j, token', FeesIn(books))
    BY <1>2, <2>1 DEF HolderFunds, HolderFees, Unbooked, Collected, Late, Rows, Written
  <2> QED BY <1>4, <2>1, <2>2 DEF Critical
<1>13. CASE WriteTotals(c)
  <2>1. PICK from \in {"count", "gas", "usdt", "bnb"}, to \in {"gas", "usdt", "bnb", "history"} :
          /\ Step(c, from, to, j) /\ pc[c] = from
          /\ <<from, to>> \in {<<"count", "gas">>, <<"gas", "usdt">>, <<"usdt", "bnb">>,
                               <<"bnb", "history">>}
          /\ UNCHANGED <<position, mempool, lock, swept, clean, token>>
    BY <1>13 DEF WriteTotals, WriteCount, WriteGas, WriteUsdt, WriteBnb, WriteRow, Step, chainVars
  <2>2. FeesIn(books') = FeesIn(books) + (IF from = "usdt" THEN j.adds.usdt
                                          ELSE IF from = "bnb" THEN j.adds.bnb ELSE 0)
    <3>1. books \in Books /\ BaseOK(pc[c], j)
      BY DEF DataOK, BooksInv
    <3>2. CASE from = "count" \/ from = "gas"
      BY <1>13, <2>1, <3>1, <3>2
         DEF WriteTotals, WriteCount, WriteGas, WriteUsdt, WriteBnb, WriteRow, Step, Books, FeesIn
    <3>3. CASE from = "usdt"
      <4>1. books' = [books EXCEPT !.usdt = j.base.usdt + j.adds.usdt]
        BY <1>13, <2>1, <3>3
           DEF WriteTotals, WriteCount, WriteGas, WriteUsdt, WriteBnb, WriteRow, Step
      <4>2. books.usdt \in Nat /\ books.bnb \in Nat /\ j.base.usdt = books.usdt
        BY <2>1, <3>1, <3>3 DEF Books, BaseOK
      <4>3. books'.usdt = books.usdt + j.adds.usdt /\ books'.bnb = books.bnb
        BY <3>1, <4>1, <4>2 DEF Books
      <4> QED BY <1>3, <3>3, <4>2, <4>3 DEF FeesIn
    <3>4. CASE from = "bnb"
      <4>1. books' = [books EXCEPT !.bnb = j.base.bnb + j.adds.bnb]
        BY <1>13, <2>1, <3>4
           DEF WriteTotals, WriteCount, WriteGas, WriteUsdt, WriteBnb, WriteRow, Step
      <4>2. books.usdt \in Nat /\ books.bnb \in Nat /\ j.base.bnb = books.bnb
        BY <2>1, <3>1, <3>4 DEF Books, BaseOK, Rows
      <4>3. books'.bnb = books.bnb + j.adds.bnb /\ books'.usdt = books.usdt
        BY <3>1, <4>1, <4>2 DEF Books
      <4> QED BY <1>3, <3>4, <4>2, <4>3 DEF FeesIn
    <3> QED BY <2>1, <3>2, <3>3, <3>4
  <2>3. clean => HolderFunds(to, j, position, token)
    BY <1>2, <2>1 DEF HolderFunds, Written, Rows
  <2>4. clean => HolderFees(to, j, position, FeesIn(books'), swept) /\ FeesIn(books') <= swept
    BY <1>2, <1>3, <2>1, <2>2 DEF HolderFees, Unbooked, Collected, Late, Rows
  <2> QED BY <1>4, <2>1, <2>3, <2>4 DEF Critical, Rows
<1> QED BY <1>5, <1>6, <1>7, <1>8, <1>9, <1>10, <1>11, <1>12, <1>13

\* The pass that holds the flock broadcasts.
LEMMA SendClean ==
  ASSUME CleanInv, LockInv, CallerOK, FundsInv, DataOK, NEW c \in Caller,
         SendDecrease(c) \/ SendCollect(c) \/ SendSwap(c) \/ SendMint(c)
  PROVE  CleanInv'
<1>1. PICK from \in {"decrease", "collect", "swap", "mint"}, to \in Awaiting,
           kind \in {"decrease", "collect", "swap", "mint"} :
        /\ Send(c, from, to, kind)
        /\ <<from, to>> \in {<<"decrease", "decreasing">>, <<"collect", "collecting">>,
                             <<"swap", "swapping">>, <<"mint", "minting">>}
  BY DEF SendDecrease, SendCollect, SendSwap, SendMint, Awaiting
<1> DEFINE t == [kind |-> kind, by |-> c, at |-> job[c].at, id |-> job[c].tok,
                 amt |-> IF kind = "mint" THEN job[c].amt ELSE job[c].liq]
<1>2. /\ pc[c] = from /\ Step(c, from, to, job[c]) /\ mempool' = Append(mempool, t)
      /\ UNCHANGED <<position, lock, swept, clean, token, books>>
  BY <1>1 DEF Send, Step, storeVars, ghostVars
<1>3. from \in Critical /\ to \in Critical /\ from \notin Awaiting
  BY <1>1 DEF Critical, Awaiting
<1>4. clean => /\ HolderFunds(from, job[c], position, token)
               /\ HolderFees(from, job[c], position, FeesIn(books), swept) /\ FeesIn(books) <= swept
               /\ job[c].receipt = "none"
               /\ \A i \in DOMAIN mempool : mempool[i].by \in Caller
  BY <1>2, <1>3, HolderKnows DEF JobOK
<1>5. clean => /\ HolderFunds(to, job[c], position, token)
               /\ HolderFees(to, job[c], position, FeesIn(books), swept)
  BY <1>1, <1>4 DEF HolderFunds, HolderFees, Unbooked, Collected, Late, Rows, Written
<1>6. clean => \A i \in DOMAIN mempool' : mempool'[i].by \in Caller
  <2>1. t.by \in Caller
    OBVIOUS
  <2> HIDE DEF t
  <2>2. /\ DOMAIN mempool' = DOMAIN mempool \cup {Len(mempool) + 1}
        /\ \A i \in DOMAIN mempool : mempool'[i] = mempool[i]
        /\ mempool'[Len(mempool) + 1] = t
    BY <1>2 DEF DataOK
  <2> QED BY <1>4, <2>1, <2>2
<1> QED BY <1>2, <1>3, <1>4, <1>5, <1>6, HolderClean

\* The head of the mempool is mined: it is the holder's, which waits for it.
LEMMA MineClean ==
  ASSUME CleanInv, LockInv, CallerOK, FundsInv, DataOK, Mine
  PROVE  CleanInv'
<1> DEFINE t == Head(mempool)
           c == t.by
           j == job[c]
<1>1. /\ mempool # <<>> /\ t = mempool[1] /\ 1 \in DOMAIN mempool /\ Exists(t.id)
      /\ t.amt \in Nat
      /\ mempool' = Tail(mempool) /\ UNCHANGED <<token, books, lock, pc, clean>>
  <2>1. mempool # <<>> /\ t = mempool[1] /\ 1 \in DOMAIN mempool /\ t \in Tx
    BY DEF Mine, DataOK
  <2>2. Exists(t.id) /\ t.amt \in Nat
    BY <2>1 DEF DataOK, Tx
  <2>3. mempool' = Tail(mempool) /\ UNCHANGED <<token, books, lock, pc, clean>>
    BY DEF Mine, MineDecrease, MineCollect, MineSwap, MineMint, MineRevert, Mined, storeVars,
           ghostVars
  <2> QED BY <2>1, <2>2, <2>3
<1>2. \A i \in DOMAIN mempool' : i + 1 \in DOMAIN mempool /\ mempool'[i] = mempool[i + 1]
  <2>1. mempool \in Seq(Tx) /\ mempool # <<>> /\ mempool' = Tail(mempool)
    BY <1>1 DEF DataOK
  <2> QED BY <2>1
<1>3. CASE ~clean
  BY <1>1, <1>3 DEF CleanInv
<1>4. CASE clean
  <2>1. /\ c \in Caller /\ pc[c] \in Awaiting /\ j.receipt = "none" /\ OwnTx(t, pc[c], j)
        /\ pc[c] \in Critical /\ lock = c /\ c # NoCaller
    <3>1. c \in Caller
      BY <1>1, <1>4 DEF CleanInv
    <3>2. pc[c] \in Awaiting /\ j.receipt = "none" /\ OwnTx(t, pc[c], j)
      BY <1>1, <3>1 DEF CallerOK, OneWaiter, FundsInv
    <3>3. pc[c] \in Critical
      BY <3>2 DEF Critical
    <3> QED BY <3>1, <3>2, <3>3, CallerAssumption DEF LockInv, OneMover
  <2>2. /\ HolderFunds(pc[c], j, position, token)
        /\ HolderFees(pc[c], j, position, FeesIn(books), swept)
        /\ OthersOwe(j, position) /\ FeesIn(books) <= swept
        /\ j \in Job /\ j.tok \in 1..Len(position)
        /\ \A i \in DOMAIN mempool : mempool[i].by \in Caller
    BY <1>4, <2>1, HolderKnows DEF Exists
  <2>3. /\ \A i \in 1..Len(position) : position[i] \in Nft
        /\ position \in Seq(Nft) /\ DOMAIN position = 1..Len(position) /\ Len(position) \in Nat
    BY DEF DataOK
  <2>4. /\ \A i \in 1..Len(position) : /\ position[i].liq \in Nat /\ position[i].owed \in Nat
                                       /\ position[i].fees \in Nat
        /\ j.fees \in Nat /\ FeesIn(books) \in Nat /\ swept \in Nat
    <3>1. j.fees \in Nat
      BY <2>2 DEF Job
    <3>2. FeesIn(books) \in Nat /\ swept \in Nat
      BY FeesAreNat DEF DataOK
    <3> QED BY <2>3, <3>1, <3>2, NftAmounts
  <2>5. ASSUME NEW outcome, NEW id, Mined(outcome, id)
        PROVE  LET l == job'[c]
               IN  l.tok = j.tok /\ l.fees = j.fees /\ l.receipt = outcome /\ l.new = id
    BY <2>1, <2>2, <2>5 DEF Mined, Job
  <2>6. ASSUME HolderFunds(pc[c], job'[c], position', token),
               HolderFees(pc[c], job'[c], position', FeesIn(books), swept'),
               OthersOwe(job'[c], position'), FeesIn(books) <= swept'
        PROVE  CleanInv'
    BY <1>1, <1>2, <2>1, <2>2, <2>6 DEF CleanInv
  <2>7. CASE MineDecrease(t)
    <3>1. /\ t.kind = "decrease" /\ UNCHANGED swept /\ Mined("ok", 0)
          /\ position' = [position EXCEPT ![t.id] = [position[t.id] EXCEPT
               !.liq = position[t.id].liq - t.amt, !.owed = position[t.id].owed + t.amt]]
      BY <1>1, <2>3, <2>7 DEF MineDecrease, Nft, Exists
    <3>2. pc[c] = "decreasing" /\ t.id = j.tok
      BY <2>1, <3>1 DEF OwnTx, Awaiting
    <3>3. /\ Len(position') = Len(position) /\ position'[j.tok].fees = position[j.tok].fees
          /\ \A i \in 1..Len(position) : i # j.tok => position'[i] = position[i]
      <4>1. /\ Len(position') = Len(position)
            /\ \A i \in 1..Len(position) : i # j.tok => position'[i] = position[i]
        BY <2>2, <2>3, <3>1, <3>2
      <4>2. position[j.tok] \in Nft /\ position'[j.tok] = [position[j.tok] EXCEPT
               !.liq = position[t.id].liq - t.amt, !.owed = position[t.id].owed + t.amt]
        BY <2>2, <2>3, <3>1, <3>2
      <4>3. position'[j.tok].fees = position[j.tok].fees
        BY <4>2 DEF Nft
      <4> QED BY <4>1, <4>3
    <3>4. job'[c].tok = j.tok /\ job'[c].fees = j.fees /\ job'[c].receipt = "ok"
      BY <2>5, <3>1
    <3>5. /\ HolderFunds(pc[c], job'[c], position', token)
          /\ HolderFees(pc[c], job'[c], position', FeesIn(books), swept')
      BY <2>2, <3>1, <3>2, <3>3, <3>4 DEF HolderFunds, HolderFees, Unbooked, Collected, Late, Rows, Written
    <3>6. OthersOwe(job'[c], position')
      BY <2>2, <3>3, <3>4 DEF OthersOwe
    <3> QED BY <2>2, <2>6, <3>1, <3>5, <3>6
  <2>8. CASE MineCollect(t)
    <3>1. /\ t.kind = "collect" /\ swept' = swept + position[t.id].fees /\ Mined("ok", 0)
          /\ position' = [position EXCEPT ![t.id] = [position[t.id] EXCEPT !.owed = 0, !.fees = 0]]
      BY <1>1, <2>3, <2>8 DEF MineCollect, Nft, Exists
    <3>2. pc[c] = "collecting" /\ t.id = j.tok
      BY <2>1, <3>1 DEF OwnTx, Awaiting
    <3>3. /\ Len(position') = Len(position)
          /\ \A i \in 1..Len(position) : i # j.tok => position'[i] = position[i]
      BY <2>2, <2>3, <3>1, <3>2
    <3>4. job'[c].tok = j.tok /\ job'[c].fees = j.fees /\ job'[c].receipt = "ok"
      BY <2>5, <3>1
    <3>5. FeesIn(books) + j.fees <= swept' /\ FeesIn(books) <= swept'
      <4>1. j.fees <= position[j.tok].fees
        BY <2>1, <2>2, <3>2 DEF HolderFees, Unbooked
      <4>2. position[j.tok].fees \in Nat
        BY <2>2, <2>4
      <4>3. swept' = swept + position[j.tok].fees
        BY <3>1, <3>2
      <4>4. j.fees \in Nat /\ FeesIn(books) \in Nat /\ swept \in Nat /\ FeesIn(books) <= swept
        BY <2>2, <2>4
      <4> QED BY <4>1, <4>2, <4>3, <4>4
    <3>6. /\ HolderFunds(pc[c], job'[c], position', token)
          /\ HolderFees(pc[c], job'[c], position', FeesIn(books), swept')
      BY <3>2, <3>4, <3>5 DEF HolderFunds, HolderFees, Unbooked, Collected, Late, Rows, Written
    <3>7. OthersOwe(job'[c], position')
      BY <2>2, <3>3, <3>4 DEF OthersOwe
    <3> QED BY <2>6, <3>5, <3>6, <3>7
  <2>9. CASE MineMint(t)
    <3>1. /\ t.kind = "mint" /\ UNCHANGED swept /\ \E id \in {0, Len(position) + 1} : Mined("ok", id)
      BY <2>9 DEF MineMint
    <3>2. PICK left \in 0..Dust : left < t.amt /\ position' = Append(position,
            [liq |-> t.amt - left, owed |-> 0, fees |-> 0, at |-> t.at])
      BY <2>9 DEF MineMint
    <3> DEFINE nft == [liq |-> t.amt - left, owed |-> 0, fees |-> 0, at |-> t.at]
    <3>3. nft.liq > 0 /\ nft.owed = 0
      BY <1>1, <3>2, ValueAssumption
    <3>4. position' = Append(position, nft)
      BY <3>2
    <3> HIDE DEF nft
    <3>5. /\ Len(position') = Len(position) + 1 /\ position'[Len(position) + 1] = nft
          /\ \A i \in 1..Len(position) : position'[i] = position[i]
      BY <2>3, <3>4
    <3>6. pc[c] = "minting"
      BY <2>1, <3>1 DEF OwnTx, Awaiting
    <3>7. /\ job'[c].tok = j.tok /\ job'[c].fees = j.fees /\ job'[c].receipt = "ok"
          /\ job'[c].new \in {0, Len(position) + 1}
      BY <2>5, <3>1
    <3>8. /\ HolderFunds(pc[c], job'[c], position', token)
          /\ HolderFees(pc[c], job'[c], position', FeesIn(books), swept')
      BY <2>2, <3>1, <3>3, <3>5, <3>6, <3>7
         DEF HolderFunds, HolderFees, Unbooked, Collected, Late, Rows, Written
    <3>9. OthersOwe(job'[c], position')
      BY <2>2, <2>3, <3>3, <3>5, <3>7 DEF OthersOwe
    <3> QED BY <2>2, <2>6, <3>1, <3>8, <3>9
  <2>10. CASE MineSwap(t) \/ MineRevert(t)
    <3>1. UNCHANGED <<position, swept>>
      BY <2>10 DEF MineSwap, MineRevert
    <3>2. /\ job'[c].tok = j.tok /\ job'[c].fees = j.fees
          /\ job'[c].receipt = "reverted" \/ (job'[c].receipt = "ok" /\ t.kind = "swap")
      BY <2>5, <2>10 DEF MineSwap, MineRevert
    <3>3. job'[c].receipt = "ok" => pc[c] = "swapping"
      BY <2>1, <3>2 DEF OwnTx, Awaiting
    <3>4. /\ HolderFunds(pc[c], job'[c], position', token)
          /\ HolderFees(pc[c], job'[c], position', FeesIn(books), swept')
      BY <2>1, <2>2, <3>1, <3>2, <3>3
         DEF HolderFunds, HolderFees, Unbooked, Collected, Late, Rows, Written, Awaiting
    <3>5. OthersOwe(job'[c], position')
      BY <2>2, <3>1, <3>2 DEF OthersOwe
    <3> QED BY <2>2, <2>6, <3>1, <3>4, <3>5
  <2> QED BY <2>7, <2>8, <2>9, <2>10 DEF Mine
<1> QED BY <1>3, <1>4

\* A position earns: there are more fees to sweep, and nothing else changes.
LEMMA EarnClean ==
  ASSUME CleanInv, LockInv, CallerOK, FundsInv, DataOK, EarnFees
  PROVE  CleanInv'
<1>1. PICK id \in 1..Len(position) :
        position' = [position EXCEPT ![id] = [position[id] EXCEPT !.fees = position[id].fees + 1]]
  BY DEF EarnFees
<1>2. /\ position \in Seq(Nft) /\ DOMAIN position = 1..Len(position)
      /\ \A i \in 1..Len(position) : position[i] \in Nft
  BY DEF DataOK
<1>3. UNCHANGED <<mempool, lock, token, books, swept, pc, job, clean>>
  BY DEF EarnFees, storeVars, ghostVars
<1>4. /\ Len(position') = Len(position)
      /\ \A i \in 1..Len(position) : i # id => position'[i] = position[i]
      /\ position'[id] = [position[id] EXCEPT !.fees = position[id].fees + 1]
  BY <1>1, <1>2
<1>5. position[id] \in Nft /\ position[id].fees \in Nat
  BY <1>2, NftAmounts
<1>6. /\ position'[id].liq = position[id].liq /\ position'[id].owed = position[id].owed
      /\ position'[id].fees = position[id].fees + 1
  BY <1>4, <1>5 DEF Nft
<1>7. \A i \in 1..Len(position) : position[i].fees \in Nat
  BY <1>2, NftAmounts
<1>8. \A i \in 1..Len(position) :
        /\ position'[i].liq = position[i].liq /\ position'[i].owed = position[i].owed
        /\ position'[i].fees \in Nat /\ position'[i].fees >= position[i].fees
  <2> SUFFICES ASSUME NEW i \in 1..Len(position)
      PROVE  /\ position'[i].liq = position[i].liq /\ position'[i].owed = position[i].owed
             /\ position'[i].fees \in Nat /\ position'[i].fees >= position[i].fees
    OBVIOUS
  <2>1. CASE i = id
    BY <1>5, <1>6, <2>1
  <2>2. CASE i # id
    BY <1>4, <1>7, <2>2
  <2> QED BY <2>1, <2>2
<1>9. ASSUME NEW c \in Caller, clean, lock = c
      PROVE  /\ HolderFunds(pc[c], job[c], position', token)
             /\ HolderFees(pc[c], job[c], position', FeesIn(books), swept)
             /\ OthersOwe(job[c], position')
  <2>1. /\ pc[c] \in Critical /\ HolderFunds(pc[c], job[c], position, token)
        /\ HolderFees(pc[c], job[c], position, FeesIn(books), swept) /\ OthersOwe(job[c], position)
    BY <1>9 DEF CleanInv
  <2>2. /\ job[c] \in Job /\ job[c].tok \in 1..Len(position)
        /\ job[c].new # 0 => job[c].new \in 1..Len(position)
    BY <2>1 DEF CallerOK, JobOK, Exists, Critical, Awaiting
  <2>3. job[c].fees \in Nat /\ token \in 1..Len(position)
    BY <2>2 DEF Job, DataOK, Exists
  <2>4. HolderFunds(pc[c], job[c], position', token)
    BY <1>8, <2>1, <2>2, <2>3 DEF HolderFunds
  <2>5. OthersOwe(job[c], position')
    BY <1>4, <1>8, <2>1 DEF OthersOwe
  <2>6. position'[job[c].tok].owed = position[job[c].tok].owed
        /\ (job[c].fees <= position[job[c].tok].fees => job[c].fees <= position'[job[c].tok].fees)
    BY <1>7, <1>8, <2>2, <2>3
  <2>7. HolderFees(pc[c], job[c], position', FeesIn(books), swept)
    BY <2>1, <2>6 DEF HolderFees, Unbooked
  <2> QED BY <2>4, <2>5, <2>7
<1>10. token \in 1..Len(position)
  BY DEF DataOK, Exists
<1> QED BY <1>3, <1>4, <1>8, <1>9, <1>10 DEF CleanInv

\* The pass that begins or ends.
LEMMA EndsClean ==
  ASSUME CleanInv, LockInv, CallerOK, FundsInv, DataOK, NEW c \in Caller,
         AcquireLock(c) \/ AppendHistory(c)
  PROVE  CleanInv'
<1>1. pc \in [Caller -> Where] /\ job \in [Caller -> Job] /\ c # NoCaller
  BY CallerAssumption DEF CallerOK
<1>2. CASE AcquireLock(c)
  <2>1. /\ lock = NoCaller /\ lock' = c /\ pc[c] = "lock" /\ pc'[c] = "inspect" /\ job'[c] = job[c]
        /\ UNCHANGED <<position, mempool, token, books, swept, clean>>
    BY <1>1, <1>2 DEF AcquireLock, Step, chainVars, storeVars, ghostVars
  <2>2. Exists(job[c].tok)
    BY <2>1 DEF CallerOK, JobOK
  <2>3. clean => /\ HolderFunds("inspect", job[c], position, token)
                 /\ HolderFees("inspect", job[c], position, FeesIn(books), swept)
                 /\ OthersOwe(job[c], position)
    BY <1>1, <2>1, <2>2 DEF CleanInv, HolderFunds, HolderFees, Unbooked, OthersOwe, Exists, Collected, Late, Rows
  <2> QED BY <1>1, <2>1, <2>3 DEF CleanInv, Critical
<1>3. CASE AppendHistory(c)
  <2>1. /\ pc[c] = "history" /\ lock = c /\ lock' = NoCaller
        /\ UNCHANGED <<position, mempool, token, books, swept, clean>>
    BY <1>3 DEF AppendHistory, Leave, chainVars, ghostVars, LockInv, OneMover, Critical
  <2>2. clean => position[token].liq > 0 /\ \A id \in 1..Len(position) : position[id].owed = 0
    BY <2>1 DEF CleanInv, HolderFunds, HolderFees, Unbooked, OthersOwe, Written
  <2> QED BY <2>1, <2>2, CallerAssumption DEF CleanInv
<1> QED BY <1>2, <1>3

LEMMA CleanStep ==
  ASSUME CleanInv, LockInv, CallerOK, FundsInv, DataOK, BooksInv, [Next]_vars
  PROVE  CleanInv'
<1>1. pc \in [Caller -> Where] /\ job \in [Caller -> Job]
  BY DEF CallerOK
<1>2. ASSUME NEW c \in Caller, ReadToken(c) \/ ReadSummary(c) \/ LockBusy(c) PROVE CleanInv'
  <2>1. /\ pc[c] \notin Critical /\ UNCHANGED <<position, mempool, lock, token, books, swept, clean>>
        /\ \A d \in Caller \ {c} : pc'[d] = pc[d] /\ job'[d] = job[d]
    BY <1>1, <1>2 DEF ReadToken, ReadSummary, LockBusy, Local, Step, chainVars, storeVars, ghostVars,
                      Critical, Awaiting
  <2>2. clean => lock # c
    BY <2>1 DEF CleanInv
  <2>3. CASE clean
    BY <2>1, <2>2, <2>3, BystanderClean
  <2>4. CASE ~clean
    BY <2>1, <2>4 DEF CleanInv
  <2> QED BY <2>3, <2>4
<1>3. ASSUME NEW c \in Caller, Raise(c) PROVE CleanInv'
  <2>1. /\ clean' = (clean /\ lock # c) /\ UNCHANGED <<position, token, books, swept>>
        /\ lock' = IF lock = c THEN NoCaller ELSE lock
        /\ \A d \in Caller \ {c} : pc'[d] = pc[d] /\ job'[d] = job[d]
    BY <1>1, <1>3 DEF Raise, Leave, storeVars
  <2>2. CASE ~clean \/ lock = c
    BY <2>1, <2>2 DEF CleanInv
  <2>3. CASE clean /\ lock # c
    <3>1. pc[c] \notin Awaiting
      BY <2>3 DEF LockInv, OneMover, Critical
    <3>2. \A i \in DOMAIN mempool : mempool[i].by # c
      BY <3>1 DEF CallerOK, OneWaiter
    <3>3. UNCHANGED mempool
      <4>1. \A t \in Tx : t.by # c => [t EXCEPT !.by = IF @ = c THEN NoCaller ELSE @] = t
        BY DEF Tx
      <4>2. \A i \in DOMAIN mempool : mempool[i] \in Tx
        BY DEF DataOK
      <4>3. mempool' = [i \in DOMAIN mempool |-> mempool[i]]
        BY <1>3, <3>2, <4>1, <4>2 DEF Raise
      <4>4. mempool = [i \in DOMAIN mempool |-> mempool[i]]
        BY DEF DataOK
      <4> QED BY <4>3, <4>4
    <3> QED BY <2>1, <2>3, <3>3, BystanderClean
  <2> QED BY <2>2, <2>3
<1>4. ASSUME NEW c \in Caller, ReadToken(c) \/ Progress(c) \/ Abort(c) PROVE CleanInv'
  <2>1. CASE Refused(c) \/ Reverted(c) \/ TimedOut(c) \/ Unreadable(c) \/ Abort(c)
    BY <1>3, <2>1 DEF Refused, Reverted, TimedOut, Unreadable, Abort
  <2> QED BY <1>2, <1>4, <2>1, PassClean, SendClean, EndsClean DEF Progress, WriteTotals
<1>5. CASE PriceMoves \/ UNCHANGED vars
  <2>1. UNCHANGED <<position, mempool, lock, token, books, swept, clean, pc, job>>
    BY <1>5 DEF PriceMoves, vars, chainVars, storeVars, ghostVars
  <2> QED BY <2>1, BystanderClean
<1> QED BY <1>4, <1>5, MineClean, EarnClean DEF Next

LEMMA CleanInit == Init => CleanInv
<1> SUFFICES ASSUME Init PROVE CleanInv
  OBVIOUS
<1>1. PICK p \in Price : position = <<[liq |-> Principal, owed |-> 0, fees |-> 0, at |-> p]>>
  BY DEF Init
<1>2. /\ mempool = <<>> /\ token = 1 /\ books = ZeroBooks /\ lock = NoCaller /\ swept = 0
  BY DEF Init
<1>3. Len(position) = 1 /\ position[1].liq > 0 /\ position[1].owed = 0
  BY <1>1, ValueAssumption
<1>4. DOMAIN mempool = {} /\ FeesIn(books) = 0
  BY <1>2 DEF ZeroBooks, FeesIn
<1> QED BY <1>2, <1>3, <1>4, CallerAssumption DEF CleanInv

\* As long as no pass has failed half way: the managed NFT is funded whenever nobody is
\* rebalancing it (CleanPassLeavesFunded).
THEOREM CleanLeavesFunded == Spec => []CleanPassLeavesFunded
<1>1. Init => LockInv /\ BooksInv /\ FundsInv /\ CleanInv
  BY CallerAssumption, CleanInit, BooksInit
     DEF Init, LockInv, OneMover, FundsInv, FundsOK, Collected, Late, Rows, Where, Critical, Awaiting
<1>2. LockInv /\ DataOK /\ CallerOK /\ BooksInv /\ FundsInv /\ CleanInv /\ [Next]_vars
        => LockInv' /\ DataOK' /\ CallerOK' /\ BooksInv' /\ FundsInv' /\ CleanInv'
  BY LockStep, TypeStep, BooksStep, FundsStep, CleanStep
<1>3. CleanInv => CleanPassLeavesFunded
  BY DEF CleanInv, CleanPassLeavesFunded
<1> QED BY <1>1, <1>2, <1>3, TypeInit, PTL DEF Spec

\* As long as no pass has failed half way: the fees booked are at most those that collect has
\* swept, and no principal among them (CleanFeesNotOverbooked).
THEOREM CleanFeesBooked == Spec => []CleanFeesNotOverbooked
<1>1. Init => LockInv /\ BooksInv /\ FundsInv /\ CleanInv
  BY CallerAssumption, CleanInit, BooksInit
     DEF Init, LockInv, OneMover, FundsInv, FundsOK, Collected, Late, Rows, Where, Critical, Awaiting
<1>2. LockInv /\ DataOK /\ CallerOK /\ BooksInv /\ FundsInv /\ CleanInv /\ [Next]_vars
        => LockInv' /\ DataOK' /\ CallerOK' /\ BooksInv' /\ FundsInv' /\ CleanInv'
  BY LockStep, TypeStep, BooksStep, FundsStep, CleanStep
<1>3. CleanInv => CleanFeesNotOverbooked
  BY DEF CleanInv, CleanFeesNotOverbooked
<1> QED BY <1>1, <1>2, <1>3, TypeInit, PTL DEF Spec
=============================================================================
