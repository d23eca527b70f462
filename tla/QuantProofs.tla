---------------------------- MODULE QuantProofs ----------------------------
(***************************************************************************)
(* Quant for any prices and parameters, though the ledger the loop         *)
(* decides on is written later than the trade and read earlier than the    *)
(* next: two trades keep the minimum hold between them, no day sees more   *)
(* than the cap spent, and the way out of a session leaves the client no   *)
(* more WBNB than the rounding of sales.                                   *)
(***************************************************************************)
EXTENDS Quant, RangeMathProofs, WellFoundedInduction, TLAPS

Places == {"sleep", "job", "impact", "trade", "save"}

\* The records are records, and the ages are counted up to the hold.
Types ==
  /\ loop = [at |-> loop.at, signal |-> loop.signal, order |-> loop.order]
  /\ loop.at \in Places
  /\ ledger = [n |-> ledger.n, u |-> ledger.u, wbnb |-> ledger.wbnb,
               buys |-> ledger.buys, last |-> ledger.last]
  /\ account = [wbnb |-> account.wbnb, left |-> account.left]
  /\ account.left \in Nat
  /\ ledger.last \in 0..MinHold /\ sinceTrade \in 0..MinHold

\* An order is for a time at which it may be traded: since the hold has passed or, for a
\* sale, since the session is ending, and neither goes back.
OrderFits ==
  loop.at \in {"impact", "trade"} =>
    \/ ledger.last = MinHold
    \/ loop.order.side = "sell" /\ Ending

\* The ledger may take a trade for later than it was, never for earlier.
LedgerIsLate == clean /\ loop.at # "save" => ledger.last <= sinceTrade

HoldInv == Types /\ OrderFits /\ LedgerIsLate

-----------------------------------------------------------------------------
\* Nothing was traded yet.
LEMMA InitHold == Init => HoldInv
BY ParameterAssumption
   DEF Init, HoldInv, Types, OrderFits, LedgerIsLate, Asleep, Empty, Places

\* A step inside the pass, or of the world, that neither trades nor turns the clock.
LEMMA QuietStep ==
  ASSUME HoldInv, UNCHANGED <<ledger, account, sinceTrade>>,
         clean' => clean /\ loop.at # "save",
         loop' = [at |-> loop'.at, signal |-> loop'.signal, order |-> loop'.order],
         loop'.at \in Places,
         loop'.at \in {"impact", "trade"} =>
           ledger.last = MinHold \/ (loop'.order.side = "sell" /\ Ending)
  PROVE  HoldInv'
<1>1. Types'
  BY DEF HoldInv, Types
<1>2. OrderFits'
  BY DEF OrderFits, Ending
<1>3. LedgerIsLate'
  BY DEF HoldInv, LedgerIsLate
<1> QED BY <1>1, <1>2, <1>3 DEF HoldInv

\* The invariant is inductive, and a step that trades keeps the hold.
LEMMA HoldStep ==
  ASSUME HoldInv, [Next]_vars
  PROVE  /\ HoldInv'
         /\ clean /\ account'.wbnb # account.wbnb =>
              sinceTrade = MinHold \/ (loop.order.side = "sell" /\ Ending)
<1> DEFINE Kept == clean /\ account'.wbnb # account.wbnb =>
                     sinceTrade = MinHold \/ (loop.order.side = "sell" /\ Ending)
<1>1. Types /\ OrderFits /\ LedgerIsLate /\ MinHold \in Nat
  BY ParameterAssumption DEF HoldInv
<1>2. ASSUME UNCHANGED account PROVE Kept
  BY <1>2
<1>3. CASE UNCHANGED vars
  <2>1. UNCHANGED <<loop, ledger, account, sinceTrade, clean>>
    BY <1>3 DEF vars, ghostVars
  <2> QED BY <1>1, <1>2, <2>1 DEF HoldInv, Types, OrderFits, LedgerIsLate, Ending
<1>4. CASE ReadSignal
  <2>1. /\ loop.at = "sleep" /\ UNCHANGED <<ledger, account, sinceTrade, clean>>
        /\ loop' = [at |-> "job", signal |-> loop'.signal, order |-> loop.order]
    BY <1>1, <1>4 DEF ReadSignal, ghostVars, Types
  <2> QED BY <1>2, <2>1, QuietStep DEF Places
<1>5. CASE PassFails
  <2>1. /\ loop.at # "save" /\ UNCHANGED <<ledger, account, sinceTrade, clean>>
        /\ loop' = [at |-> "sleep", signal |-> NoSignal, order |-> NoOrder]
    BY <1>5 DEF PassFails, ghostVars, Asleep
  <2> QED BY <1>2, <2>1, QuietStep DEF Places
<1>6. CASE Hold
  <2>1. /\ loop.at # "save" /\ UNCHANGED <<ledger, account, sinceTrade, clean>>
        /\ loop' = [at |-> "sleep", signal |-> NoSignal, order |-> NoOrder]
    BY <1>6 DEF Hold, Asleep
  <2> QED BY <1>2, <2>1, QuietStep DEF Places
<1>7. CASE Decide
  <2>1. /\ loop.at = "job" /\ UNCHANGED <<ledger, account, sinceTrade, clean>>
        /\ loop' = [at |-> "impact", signal |-> loop.signal, order |-> loop'.order]
        /\ ~Held \/ (loop'.order.side = "sell" /\ Ending)
    <3>1. loop.at = "job" /\ UNCHANGED <<ledger, account, sinceTrade, clean>>
      BY <1>7 DEF Decide, ghostVars
    <3>2. CASE /\ Sells(loop.signal.utilisation, loop.signal.usable)
               /\ loop' = [loop EXCEPT !.at = "impact",
                    !.order = [side |-> "sell", amount |-> SellSize, quote |-> 0]]
      <4>1. loop' = [at |-> "impact", signal |-> loop.signal,
                     order |-> [side |-> "sell", amount |-> SellSize, quote |-> 0]]
        BY <1>1, <3>2 DEF Types
      <4>2. Ending \/ ~Held
        BY <3>2 DEF Sells
      <4> QED BY <3>1, <4>1, <4>2
    <3>3. CASE /\ Buys(loop.signal.utilisation, loop.signal.usable)
               /\ loop' = [loop EXCEPT !.at = "impact",
                    !.order = [side |-> "buy", amount |-> BuySize, quote |-> 0]]
      <4>1. loop' = [at |-> "impact", signal |-> loop.signal,
                     order |-> [side |-> "buy", amount |-> BuySize, quote |-> 0]]
        BY <1>1, <3>3 DEF Types
      <4>2. ~Held
        BY <3>3 DEF Buys
      <4> QED BY <3>1, <4>1, <4>2
    <3> QED BY <1>7, <3>2, <3>3 DEF Decide
  <2>2. ~Held => ledger.last = MinHold
    BY <1>1 DEF Types, Held
  <2> QED BY <1>2, <2>1, <2>2, QuietStep DEF Places
<1>8. CASE ImpactBelowCeiling
  <2>1. /\ loop.at = "impact" /\ UNCHANGED <<ledger, account, sinceTrade, clean>>
        /\ loop' = [at |-> "trade", signal |-> loop.signal, order |-> loop.order]
    BY <1>1, <1>8 DEF ImpactBelowCeiling, ghostVars, Types
  <2>2. ledger.last = MinHold \/ (loop.order.side = "sell" /\ Ending)
    BY <1>1, <2>1 DEF OrderFits
  <2> QED BY <1>2, <2>1, <2>2, QuietStep DEF Places
<1>9. ASSUME NEW answered \in BOOLEAN, NEW quote, Lands(answered, quote),
             UNCHANGED account.left, loop.at = "trade", ~answered => ~clean',
             NEW wbnb, account' = [account EXCEPT !.wbnb = wbnb]
      PROVE  HoldInv' /\ Kept
  <2>1. UNCHANGED ledger /\ sinceTrade' = 0
    BY <1>9 DEF Lands
  <2>2. CASE answered
    <3>1. /\ loop'.at = "save"
          /\ loop' = [at |-> loop'.at, signal |-> loop'.signal, order |-> loop'.order]
      BY <1>1, <1>9, <2>2 DEF Lands, Types
    <3> QED BY <1>1, <1>9, <2>1, <3>1 DEF HoldInv, Types, OrderFits, LedgerIsLate, Places
  <2>3. CASE ~answered
    <3>1. loop' = Asleep
      BY <1>9, <2>3 DEF Lands
    <3> QED BY <1>1, <1>9, <2>1, <2>3, <3>1
               DEF HoldInv, Types, OrderFits, LedgerIsLate, Places, Asleep
  <2> QED BY <1>1, <1>9, <2>1, <2>2, <2>3 DEF OrderFits, LedgerIsLate, Types
<1>10. CASE \E answered \in BOOLEAN : Sell(answered)
  <2>1. PICK answered \in BOOLEAN : Sell(answered)
    BY <1>10
  <2>2. /\ loop.at = "trade" /\ Lands(answered, 0) /\ (~answered => ~clean')
        /\ account' = [account EXCEPT !.wbnb = account.wbnb - loop.order.amount]
    BY <2>1 DEF Sell
  <2>3. UNCHANGED account.left
    BY <1>1, <2>2 DEF Types
  <2> QED BY <1>9, <2>2, <2>3
<1>11. CASE \E answered \in BOOLEAN : \E short \in 0..1 : Buy(answered, short)
  <2>1. PICK answered \in BOOLEAN, short \in 0..1 : Buy(answered, short)
    BY <1>11
  <2>2. PICK quote : /\ Lands(answered, quote)
                     /\ account' = [account EXCEPT !.wbnb = account.wbnb + quote - short]
    BY <2>1 DEF Buy
  <2>3. loop.at = "trade" /\ (~answered => ~clean')
    BY <2>1 DEF Buy
  <2>4. UNCHANGED account.left
    BY <1>1, <2>2 DEF Types
  <2> QED BY <1>9, <2>2, <2>3, <2>4
<1>12. CASE Save
  <2>1. /\ loop' = Asleep /\ UNCHANGED <<account, sinceTrade, clean>> /\ ledger'.last = 0
        /\ ledger' = [n |-> ledger'.n, u |-> ledger'.u, wbnb |-> ledger'.wbnb,
                      buys |-> ledger'.buys, last |-> ledger'.last]
    BY <1>1, <1>12 DEF Save, Types
  <2>2. Types'
    BY <1>1, <2>1 DEF Types, Asleep, Places
  <2>3. OrderFits' /\ LedgerIsLate'
    BY <1>1, <2>1 DEF Types, OrderFits, LedgerIsLate, Asleep
  <2> QED BY <1>2, <2>1, <2>2, <2>3 DEF HoldInv
<1>13. CASE Crash
  <2>1. /\ UNCHANGED <<ledger, account, sinceTrade>> /\ clean' = (clean /\ loop.at # "save")
        /\ loop' = [at |-> "sleep", signal |-> NoSignal, order |-> NoOrder]
    BY <1>13 DEF Crash, Asleep
  <2> QED BY <1>2, <2>1, QuietStep DEF Places
<1>14. CASE LedgerLost
  <2>1. /\ loop.at = "sleep" /\ ledger' = Empty /\ ~clean'
        /\ UNCHANGED <<loop, account, sinceTrade>>
    BY <1>14 DEF LedgerLost
  <2> QED BY <1>1, <1>2, <2>1 DEF HoldInv, Types, OrderFits, LedgerIsLate, Empty
<1>15. CASE PriceMoves \/ Rerange
  <2>1. UNCHANGED <<loop, ledger, account, sinceTrade, clean>>
    BY <1>15 DEF PriceMoves, Rerange, ghostVars
  <2> QED BY <1>1, <1>2, <2>1 DEF HoldInv, Types, OrderFits, LedgerIsLate, Ending
<1>16. CASE TimePasses
  <2>1. /\ account' = [account EXCEPT !.left = account.left - 1] /\ account.left > 0
        /\ ledger' = [ledger EXCEPT !.buys = Older(@), !.last = Later(ledger.last)]
        /\ sinceTrade' = Later(sinceTrade) /\ UNCHANGED <<loop, clean>>
    BY <1>16 DEF TimePasses
  <2>2. account' = [wbnb |-> account.wbnb, left |-> account.left - 1]
    BY <1>1, <2>1 DEF Types
  <2>3. /\ ledger'.last = Later(ledger.last)
        /\ ledger' = [n |-> ledger'.n, u |-> ledger'.u, wbnb |-> ledger'.wbnb,
                      buys |-> ledger'.buys, last |-> ledger'.last]
    BY <1>1, <2>1 DEF Types
  <2>4. /\ Later(ledger.last) \in 0..MinHold /\ Later(sinceTrade) \in 0..MinHold
        /\ ledger.last = MinHold => Later(ledger.last) = MinHold
        /\ ledger.last <= sinceTrade => Later(ledger.last) <= Later(sinceTrade)
    BY <1>1 DEF Types, Later
  <2>5. account'.left \in Nat /\ (Ending => Ending')
    BY <1>1, <2>1, <2>2, ParameterAssumption DEF Types, Ending
  <2>6. Types'
    BY <1>1, <2>1, <2>2, <2>3, <2>4, <2>5 DEF Types
  <2>7. OrderFits' /\ LedgerIsLate'
    BY <1>1, <2>1, <2>3, <2>4, <2>5 DEF OrderFits, LedgerIsLate
  <2> QED BY <2>2, <2>6, <2>7 DEF HoldInv
<1>17. CASE Revoke
  <2>1. account' = [wbnb |-> account.wbnb, left |-> 0]
        /\ UNCHANGED <<loop, ledger, sinceTrade, clean>>
    BY <1>1, <1>17 DEF Revoke, ghostVars, Types
  <2>2. Ending'
    BY <2>1, ParameterAssumption DEF Ending
  <2> QED BY <1>1, <2>1, <2>2 DEF HoldInv, Types, OrderFits, LedgerIsLate
<1> QED BY <1>3, <1>4, <1>5, <1>6, <1>7, <1>8, <1>10, <1>11, <1>12, <1>13, <1>14, <1>15, <1>16,
           <1>17 DEF Next

\* Two trades on chain keep the minimum hold between them, unless the second flattens an
\* ending session, for as long as the ledger agrees with the account (CleanHoldKept).
THEOREM HoldKept == Spec => CleanHoldKept
<1>1. HoldInv /\ [Next]_vars => HoldInv'
  BY HoldStep
<1>2. HoldInv /\ [Next]_vars =>
        [clean /\ account'.wbnb # account.wbnb =>
           \/ sinceTrade = MinHold
           \/ loop.order.side = "sell" /\ Ending]_vars
  BY HoldStep
<1> QED BY InitHold, <1>1, <1>2, PTL DEF Spec, CleanHoldKept

-----------------------------------------------------------------------------
(* What is spent up to an age. *)

\* A set of numbers with 0, and with n + 1 for each n in it, is all of them.
LEMMA SetInduction ==
  ASSUME NEW P \in SUBSET Nat, 0 \in P, \A n \in Nat : n \in P => n + 1 \in P
  PROVE  P = Nat
<1> DEFINE R == OpToRel(<, Nat)
           T == Nat \ P
<1> SUFFICES ASSUME T # {} PROVE FALSE
  OBVIOUS
<1>1. IsWellFoundedOn(R, Nat)
  BY NatLessThanWellFounded
<1>2. \A x, y \in Nat : <<x, y>> \in R <=> x < y
  BY DEF OpToRel
<1> HIDE DEF R, T
<1>3. PICK x \in T : \A y \in T : ~ (<<y, x>> \in R)
  BY <1>1, WFMin DEF T
<1>4. x \in Nat /\ x \notin P /\ x # 0
  BY <1>3 DEF T
<1>5. x - 1 \in T /\ <<x - 1, x>> \in R
  BY <1>2, <1>4 DEF T
<1> QED BY <1>3, <1>5

\* The sum up to an age is what its recursion says: such a function exists.
LEMMA UptoIs ==
  ASSUME NEW amounts
  PROVE  Upto(amounts) = [age \in Window |->
           amounts[age] + IF age = 0 THEN 0 ELSE Upto(amounts)[age - 1]]
<1> DEFINE Sums(f, n) ==
             f = [age \in 0..n |-> amounts[age] + IF age = 0 THEN 0 ELSE f[age - 1]]
           P == {n \in Nat : \E f : Sums(f, n)}
<1>1. 0 \in P
  <2>1. Sums([age \in 0..0 |-> amounts[age] + 0], 0)
    OBVIOUS
  <2> QED BY <2>1
<1>2. ASSUME NEW n \in Nat, n \in P PROVE n + 1 \in P
  <2>1. PICK f : Sums(f, n)
    BY <1>2
  <2> DEFINE g == [age \in 0..(n + 1) |-> IF age <= n THEN f[age] ELSE amounts[age] + f[age - 1]]
  <2>2. ASSUME NEW age \in 0..(n + 1)
        PROVE  g[age] = amounts[age] + IF age = 0 THEN 0 ELSE g[age - 1]
    <3>1. CASE age <= n
      <4>1. age \in 0..n /\ g[age] = f[age]
        BY <3>1
      <4>2. f[age] = amounts[age] + IF age = 0 THEN 0 ELSE f[age - 1]
        BY <2>1, <4>1
      <4>3. age # 0 => g[age - 1] = f[age - 1]
        BY <3>1
      <4> QED BY <4>1, <4>2, <4>3
    <3>2. CASE age = n + 1
      <4>1. g[age] = amounts[age] + f[age - 1] /\ age # 0 /\ g[age - 1] = f[age - 1]
        BY <3>2
      <4> QED BY <4>1
    <3> QED BY <3>1, <3>2
  <2>3. Sums(g, n + 1)
    BY <2>2
  <2> HIDE DEF g, Sums
  <2> QED BY <2>3
<1>3. P = Nat
  <2> HIDE DEF P
  <2>1. P \in SUBSET Nat
    BY DEF P
  <2> QED BY <1>1, <1>2, <2>1, SetInduction
<1>4. Day \in Nat
  BY ParameterAssumption
<1>5. \E f : Sums(f, Day)
  BY <1>3, <1>4
<1> QED BY <1>5 DEF Upto, Window

Amounts == [Window -> Nat]

\* One age after another.
LEMMA WindowIs == Day \in Nat /\ Window = 0..Day /\ 0 \in Window /\ Day \in Window
BY ParameterAssumption DEF Window

\* What holds at age 0, and at each age if it does at the one before, holds at all.
LEMMA WindowInduction ==
  ASSUME NEW S, 0 \in S, \A age \in Window : age # 0 /\ age - 1 \in S => age \in S
  PROVE  \A age \in Window : age \in S
<1> DEFINE P == {n \in Nat : n \in Window => n \in S}
<1>1. 0 \in P
  OBVIOUS
<1>2. ASSUME NEW n \in Nat, n \in P PROVE n + 1 \in P
  BY <1>2, WindowIs
<1>3. P = Nat
  <2> HIDE DEF P
  <2>1. P \in SUBSET Nat
    BY DEF P
  <2> QED BY <1>1, <1>2, <2>1, SetInduction
<1> QED BY <1>3, WindowIs

\* The two cases of the recursion.
LEMMA UptoAt ==
  ASSUME NEW amounts
  PROVE  /\ amounts[0] \in Nat => Upto(amounts)[0] = amounts[0]
         /\ \A age \in Window : age # 0 => Upto(amounts)[age] = amounts[age] + Upto(amounts)[age - 1]
<1> DEFINE u == Upto(amounts)
<1>1. u = [age \in Window |-> amounts[age] + IF age = 0 THEN 0 ELSE u[age - 1]]
  BY UptoIs
<1> HIDE DEF u
<1>2. u[0] = amounts[0] + 0 /\ \A age \in Window : age # 0 => u[age] = amounts[age] + u[age - 1]
  BY <1>1, WindowIs
<1> QED BY <1>2 DEF u

LEMMA UptoNat ==
  ASSUME NEW amounts \in Amounts
  PROVE  \A age \in Window : Upto(amounts)[age] \in Nat
<1> DEFINE u == Upto(amounts)
           S == {age \in Window : u[age] \in Nat}
<1>1. \A age \in Window : amounts[age] \in Nat
  BY DEF Amounts
<1>2. u[0] = amounts[0] /\ \A age \in Window : age # 0 => u[age] = amounts[age] + u[age - 1]
  BY <1>1, WindowIs, UptoAt
<1> HIDE DEF u
<1>3. 0 \in S
  BY <1>1, <1>2, WindowIs
<1>4. \A age \in Window : age # 0 /\ age - 1 \in S => age \in S
  BY <1>1, <1>2
<1> HIDE DEF S
<1>5. \A age \in Window : age \in S
  BY <1>3, <1>4, WindowInduction
<1> QED BY <1>5 DEF S, u

\* The sums grow with the age.
LEMMA UptoGrows ==
  ASSUME NEW amounts \in Amounts
  PROVE  \A age \in Window : Upto(amounts)[age] <= Total(amounts)
<1> DEFINE u == Upto(amounts)
           S == {n \in 0..Day : u[Day - n] <= u[Day]}
<1>1. \A age \in Window : amounts[age] \in Nat /\ u[age] \in Nat
  BY UptoNat DEF Amounts
<1>2. \A age \in Window : age # 0 => u[age] = amounts[age] + u[age - 1]
  BY UptoAt
<1> HIDE DEF u
<1>3. 0 \in S
  BY <1>1, WindowIs
<1>4. ASSUME NEW n \in Window, n # 0, n - 1 \in S PROVE n \in S
  <2>1. n \in 0..Day /\ Day - n \in Window /\ Day - n + 1 \in Window /\ Day - (n - 1) = Day - n + 1
    BY <1>4, WindowIs
  <2>2. u[Day - n + 1] <= u[Day]
    BY <1>4, <2>1
  <2>3. u[Day - n + 1] = amounts[Day - n + 1] + u[Day - n + 1 - 1] /\ Day - n + 1 # 0
        /\ Day - n + 1 - 1 = Day - n
    BY <1>2, <2>1, WindowIs
  <2>4. u[Day - n] \in Nat /\ u[Day - n + 1] \in Nat /\ amounts[Day - n + 1] \in Nat /\ u[Day] \in Nat
    BY <1>1, <2>1, WindowIs
  <2> QED BY <2>1, <2>2, <2>3, <2>4
<1> HIDE DEF S
<1>5. \A n \in Window : n \in S
  BY <1>3, <1>4, WindowInduction
<1>6. ASSUME NEW age \in Window PROVE u[age] <= u[Day]
  <2>1. Day - age \in Window /\ Day - (Day - age) = age
    BY WindowIs
  <2> QED BY <1>5, <2>1 DEF S
<1> QED BY <1>6 DEF u, Total

\* Nothing was spent.
LEMMA FreshIs == Fresh \in Amounts /\ (\A age \in Window : Upto(Fresh)[age] = 0) /\ Total(Fresh) = 0
<1> DEFINE u == Upto(Fresh)
           S == {age \in Window : u[age] = 0}
<1>1. Fresh \in Amounts /\ \A age \in Window : Fresh[age] = 0
  BY DEF Fresh, Amounts
<1>2. u[0] = 0 /\ \A age \in Window : age # 0 => u[age] = 0 + u[age - 1]
  BY <1>1, WindowIs, UptoAt
<1> HIDE DEF u
<1>3. 0 \in S
  BY <1>2, WindowIs
<1>4. \A age \in Window : age # 0 /\ age - 1 \in S => age \in S
  BY <1>2
<1> HIDE DEF S
<1>5. \A age \in Window : age \in S
  BY <1>3, <1>4, WindowInduction
<1> QED BY <1>1, <1>5, WindowIs DEF S, u, Total

\* An amount more.
Put(amounts, n) == [amounts EXCEPT ![0] = @ + n]
LEMMA PutIs ==
  ASSUME NEW amounts \in Amounts, NEW n \in Nat
  PROVE  /\ Put(amounts, n) \in Amounts
         /\ \A age \in Window : Upto(Put(amounts, n))[age] = Upto(amounts)[age] + n
<1> DEFINE more == Put(amounts, n)
           u == Upto(amounts)
           v == Upto(more)
           S == {age \in Window : v[age] = u[age] + n}
<1>1. /\ \A age \in Window : amounts[age] \in Nat /\ u[age] \in Nat
      /\ more \in Amounts /\ more[0] = amounts[0] + n
      /\ \A age \in Window : age # 0 => more[age] = amounts[age]
  <2>1. \A age \in Window : amounts[age] \in Nat /\ u[age] \in Nat
    BY UptoNat DEF Amounts
  <2>2. more = [amounts EXCEPT ![0] = amounts[0] + n] /\ amounts[0] + n \in Nat
    BY <2>1, WindowIs DEF Put
  <2> HIDE DEF more, u
  <2> QED BY <2>1, <2>2, WindowIs DEF Amounts
<1>2. u[0] = amounts[0] /\ \A age \in Window : age # 0 => u[age] = amounts[age] + u[age - 1]
  BY <1>1, WindowIs, UptoAt
<1> HIDE DEF more
<1>3. \A age \in Window : more[age] \in Nat
  BY <1>1 DEF Amounts
<1>4. v[0] = more[0] /\ \A age \in Window : age # 0 => v[age] = more[age] + v[age - 1]
  BY <1>3, WindowIs, UptoAt
<1> HIDE DEF u, v
<1>5. 0 \in S
  BY <1>1, <1>2, <1>4, WindowIs
<1>6. ASSUME NEW age \in Window, age # 0, age - 1 \in S PROVE age \in S
  <2>1. v[age] = amounts[age] + v[age - 1] /\ u[age] = amounts[age] + u[age - 1]
    BY <1>1, <1>2, <1>4, <1>6
  <2>2. v[age - 1] = u[age - 1] + n /\ u[age - 1] \in Nat /\ amounts[age] \in Nat
    BY <1>1, <1>6
  <2> QED BY <2>1, <2>2
<1> HIDE DEF S
<1>7. \A age \in Window : age \in S
  BY <1>5, <1>6, WindowInduction
<1> QED BY <1>1, <1>7 DEF S, u, v, more

\* An hour later: what was spent up to an age is what was up to the one before.
LEMMA OlderIs ==
  ASSUME NEW amounts \in Amounts
  PROVE  /\ Older(amounts) \in Amounts
         /\ Upto(Older(amounts))[0] = 0
         /\ \A age \in Window : age # 0 => Upto(Older(amounts))[age] = Upto(amounts)[age - 1]
<1> DEFINE older == Older(amounts)
           u == Upto(amounts)
           v == Upto(older)
           S == {age \in Window : age # 0 => v[age] = u[age - 1]}
<1>1. /\ \A age \in Window : amounts[age] \in Nat /\ u[age] \in Nat
      /\ older \in Amounts /\ older[0] = 0
      /\ \A age \in Window : age # 0 => older[age] = amounts[age - 1]
  BY WindowIs, UptoNat DEF Amounts, Older
<1>2. u[0] = amounts[0] /\ \A age \in Window : age # 0 => u[age] = amounts[age] + u[age - 1]
  BY <1>1, WindowIs, UptoAt
<1> HIDE DEF older
<1>3. \A age \in Window : older[age] \in Nat
  BY <1>1 DEF Amounts
<1>4. v[0] = 0 /\ \A age \in Window : age # 0 => v[age] = older[age] + v[age - 1]
  BY <1>1, <1>3, WindowIs, UptoAt
<1> HIDE DEF u, v
<1>5. 0 \in S
  BY WindowIs
<1>6. ASSUME NEW age \in Window, age # 0, age - 1 \in S PROVE age \in S
  <2>1. v[age] = amounts[age - 1] + v[age - 1] /\ age - 1 \in Window
    BY <1>1, <1>4, <1>6, WindowIs
  <2>2. CASE age = 1
    <3>1. age - 1 = 0 /\ v[0] = 0 /\ u[0] = amounts[0] /\ amounts[0] \in Nat
      BY <1>1, <1>2, <1>4, <2>2, WindowIs
    <3>2. v[age] = amounts[0] + v[0]
      BY <2>1, <3>1
    <3> QED BY <2>1, <3>1, <3>2
  <2>3. CASE age # 1
    <3>1. age - 1 # 0 /\ age - 1 - 1 \in Window
      BY <1>6, <2>3, WindowIs
    <3>2. v[age - 1] = u[age - 1 - 1] /\ u[age - 1] = amounts[age - 1] + u[age - 1 - 1]
      BY <1>2, <1>6, <2>1, <3>1
    <3> QED BY <2>1, <3>2
  <2> QED BY <2>2, <2>3
<1> HIDE DEF S
<1>7. \A age \in Window : age \in S
  BY <1>5, <1>6, WindowInduction
<1> QED BY <1>1, <1>4, <1>7 DEF S, u, v, older

-----------------------------------------------------------------------------
(* The types, with the orders that fit the ledger. *)

Ordered == loop.at \in {"impact", "trade", "save"}
Buying == loop.order.side = "buy"

\* The LP band is one that the agent made.
Ranged == band \in {BandAt[t] : t \in Live}

\* An order is for no more than is left of the allocation, of the entries and of the day's cap,
\* or for all that the ledger holds: nothing but the order's own record changes the ledger.
Sized ==
  /\ Ordered => loop.order.side \in {"buy", "sell"}
  /\ Ordered /\ Buying => /\ loop.order.amount >= MinEntry /\ ledger.n < MaxEntries
                          /\ ledger.u + loop.order.amount <= Allocation
                          /\ Total(ledger.buys) + loop.order.amount <= DailyCap
  /\ Ordered /\ ~Buying => loop.order.amount = SellSize /\ ledger.n > 0
  /\ Total(ledger.buys) <= DailyCap

Sane == TypeOK /\ Ranged /\ Sized

Signals == [utilisation : Nat, usable : BOOLEAN]
Orders == [side : {"none", "buy", "sell"}, amount : Nat, quote : Nat]
Loops == [at : Places, signal : Signals, order : Orders]
Ledgers == [n : 0..MaxEntries, u : 0..Allocation, wbnb : Nat, buys : Amounts, last : 0..MinHold]
Accounts == [wbnb : Nat, left : 0..Term]

LEMMA Parameters ==
  /\ Term \in Nat /\ MaxFaults \in Nat /\ MinHold \in Nat \ {0} /\ ExitBuffer \in Nat
  /\ MinEntry \in Nat \ {0} /\ MaxEntries \in Nat \ {0} /\ Allocation \in Nat \ {0}
  /\ DailyCap \in Nat \ {0} /\ Rate \in Nat \ {0} /\ Grain \in Nat \ {0} /\ ExitBuffer < Term
BY ParameterAssumption

LEMMA SaneTypes ==
  ASSUME TypeOK
  PROVE  /\ tick \in Live /\ band \in [lower : Tick, upper : Tick]
         /\ loop \in Loops /\ ledger \in Ledgers /\ account \in Accounts
         /\ faults \in 0..MaxFaults /\ bought \in Amounts /\ sinceTrade \in 0..MinHold
         /\ clean \in BOOLEAN /\ closed \in BOOLEAN
BY DEF TypeOK, Loops, Places, Signals, Orders, Ledgers, Amounts, Accounts

LEMMA TypesAre ==
  ASSUME tick' \in Live, band' \in [lower : Tick, upper : Tick], loop' \in Loops,
         ledger' \in Ledgers, account' \in Accounts, faults' \in 0..MaxFaults,
         bought' \in Amounts, sinceTrade' \in 0..MinHold, clean' \in BOOLEAN, closed' \in BOOLEAN
  PROVE  TypeOK'
BY DEF TypeOK, Loops, Places, Signals, Orders, Ledgers, Amounts, Accounts

\* The bands the agent makes have a width.
LEMMA BandIs ==
  ASSUME NEW b \in {BandAt[t] : t \in Live}
  PROVE  /\ b \in [lower : Tick, upper : Tick]
         /\ LowerPrice(b) \in Nat /\ UpperPrice(b) \in Nat /\ Width(b) \in Nat \ {0}
<1>1. PICK t \in Live : b = FreshBand(t)
  BY DEF BandAt
<1>2. b \in [lower : Tick, upper : Tick] /\ ~(b.lower >= b.upper)
  BY <1>1, BandAssumption DEF Collapsed
<1>3. b.lower \in Int /\ b.upper \in Int /\ b.lower \in Tick /\ b.upper \in Tick /\ b.lower < b.upper
  BY <1>2, PriceAssumption
<1>4. PriceAt[b.upper] \in Nat /\ PriceAt[b.lower] \in Nat /\ PriceAt[b.upper] < PriceAt[b.lower]
  BY <1>3, PriceAssumption
<1> QED BY <1>2, <1>4 DEF LowerPrice, UpperPrice, Width

\* The signal is a number.
LEMMA SignalIs ==
  ASSUME TypeOK, Ranged
  PROVE  [utilisation |-> RangeUtilizationPct(PriceAt[tick], band),
          usable |-> InRange(PriceAt[tick], band)] \in Signals
<1> DEFINE p == PriceAt[tick]
           low == LowerPrice(band)
           high == UpperPrice(band)
           w == Width(band)
<1>1. low \in Nat /\ high \in Nat /\ w \in Nat \ {0}
  BY BandIs DEF Ranged
<1>2. p \in Nat
  BY SaneTypes, LiveAssumption, PriceAssumption
<1> HIDE DEF p, low, high, w
<1>3. 100 * Abs(2 * p - low - high) \in Nat
  BY <1>1, <1>2 DEF Abs
<1>4. (100 * Abs(2 * p - low - high)) \div w \in Nat
  BY <1>1, <1>3, DivNat
<1>5. (low <= p /\ p <= high) \in BOOLEAN
  OBVIOUS
<1> QED BY <1>4, <1>5
    DEF Signals, RangeUtilizationPct, InRange, p, low, high, w

\* The least of three numbers is one of them, and no more than any.
LEMMA LeastOf ==
  ASSUME NEW a \in Int, NEW b \in Int, NEW c \in Int
  PROVE  LET n == Least({a, b, c}) IN n \in Int /\ n <= a /\ n <= b /\ n <= c
<1>1. \E n \in {a, b, c} : \A k \in {a, b, c} : n <= k
  <2>1. CASE a <= b /\ a <= c
    BY <2>1
  <2>2. CASE b <= a /\ b <= c
    BY <2>2
  <2>3. CASE c <= a /\ c <= b
    BY <2>3
  <2> QED BY <2>1, <2>2, <2>3
<1> QED BY <1>1 DEF Least

\* What is decided to be bought or sold.
LEMMA SizesAre ==
  ASSUME Sane
  PROVE  /\ BuySize \in Int /\ ledger.u + BuySize <= Allocation
         /\ Total(ledger.buys) + BuySize <= DailyCap
         /\ SellSize \in Nat /\ 2 * ledger.wbnb <= 2 * SellSize + Grain
<1>1. ledger \in Ledgers
  BY SaneTypes DEF Sane
<1>2. ledger.u \in Nat /\ ledger.wbnb \in Nat /\ ledger.buys \in Amounts
  BY <1>1, Parameters DEF Ledgers
<1>3. Total(ledger.buys) \in Nat
  BY <1>2, UptoNat, WindowIs DEF Total
<1>4. Allocation \div MaxEntries \in Int
  BY Parameters, DivBounds
<1>5. /\ BuySize \in Int /\ BuySize <= DailyCap - Total(ledger.buys)
      /\ BuySize <= Allocation - ledger.u
  <2> DEFINE a == Allocation \div MaxEntries
             b == DailyCap - Total(ledger.buys)
             c == Allocation - ledger.u
  <2>1. a \in Int /\ b \in Int /\ c \in Int
    BY <1>2, <1>3, <1>4, Parameters
  <2>2. BuySize = Least({a, b, c})
    BY DEF BuySize
  <2> HIDE DEF a, b, c
  <2>3. BuySize \in Int /\ BuySize <= b /\ BuySize <= c
    BY <2>1, <2>2, LeastOf
  <2> QED BY <2>3 DEF b, c
<1>6. SellSize \in Nat /\ 2 * ledger.wbnb <= 2 * SellSize + Grain
  <2> DEFINE a == 2 * ledger.wbnb + Grain
             d == 2 * Grain
             q == a \div d
  <2>1. a \in Nat /\ d \in Nat \ {0} /\ Grain \in Nat
    BY <1>2, Parameters
  <2>2. SellSize = q * Grain
    BY DEF SellSize
  <2>3. a = 2 * ledger.wbnb + Grain /\ d = 2 * Grain
    OBVIOUS
  <2> HIDE DEF a, d
  <2>4. q \in Nat /\ q * d <= a /\ a < q * d + d
    BY <2>1, DivBounds, DivNat
  <2> HIDE DEF q
  <2>5. q * d = 2 * (q * Grain)
    BY <2>1, <2>3, <2>4
  <2>6. q * Grain \in Nat
    BY <2>1, <2>4, MulNat
  <2> QED BY <1>2, <2>1, <2>2, <2>3, <2>4, <2>5, <2>6
<1> QED BY <1>2, <1>3, <1>5, <1>6, Parameters

\* A step that leaves the ledger and the account alone, and the order if it is still one.
LEMMA SaneQuiet ==
  ASSUME Sane, ledger' = ledger, account' = account, bought' = bought, sinceTrade' = sinceTrade,
         tick' \in Live, Ranged', faults' \in 0..MaxFaults, clean' \in BOOLEAN, closed' \in BOOLEAN,
         loop' \in Loops, Ordered' => Ordered /\ loop'.order = loop.order
  PROVE  Sane'
<1>1. TypeOK /\ Ranged /\ Sized
  BY DEF Sane
<1>2. TypeOK'
  <2>1. band' \in [lower : Tick, upper : Tick]
    BY BandIs DEF Ranged
  <2> QED BY <1>1, <2>1, SaneTypes, TypesAre
<1>3. Sized'
  <2>1. SellSize' = SellSize /\ Total(ledger.buys)' = Total(ledger.buys)
    BY DEF SellSize
  <2>2. Ordered' => (Buying' <=> Buying)
    BY DEF Buying
  <2> QED BY <1>1, <2>1, <2>2 DEF Sized
<1> QED BY <1>2, <1>3 DEF Sane

LEMMA AsleepIs == Asleep \in Loops /\ Asleep.at = "sleep"
BY DEF Asleep, NoSignal, NoOrder, Loops, Places, Signals, Orders

\* What a decision is: nothing is decided once there is nothing to sell in an ending session.
LEMMA DecideIs ==
  ASSUME Sane, Decide
  PROVE  /\ Sane' /\ loop.at = "job" /\ loop'.at = "impact"
         /\ UNCHANGED <<poolVars, ledger, account, faults, ghostVars>>
         /\ ledger.n = 0 \/ SellSize = 0 => ~Ending
<1>1. /\ loop.at = "job" /\ UNCHANGED <<poolVars, ledger, account, faults, ghostVars>>
      /\ tick' = tick /\ band' = band /\ bought' = bought /\ sinceTrade' = sinceTrade
      /\ clean' = clean /\ closed' = closed
  BY DEF Decide, poolVars, ghostVars
<1>2. TypeOK /\ Ranged /\ Sized /\ loop \in Loops
  BY SaneTypes DEF Sane
<1>3. Ranged' /\ SellSize' = SellSize /\ Total(ledger.buys)' = Total(ledger.buys)
  BY <1>1, <1>2 DEF Ranged, SellSize
<1>4. CASE /\ Sells(loop.signal.utilisation, loop.signal.usable) /\ SellSize > 0
           /\ loop' = [loop EXCEPT !.at = "impact",
                !.order = [side |-> "sell", amount |-> SellSize, quote |-> 0]]
  <2>1. /\ loop'.at = "impact" /\ loop'.order = [side |-> "sell", amount |-> SellSize, quote |-> 0]
        /\ loop' \in Loops
    BY <1>2, <1>4, SizesAre DEF Loops, Places, Orders
  <2>2. ledger.n > 0 /\ SellSize > 0
    BY <1>4 DEF Sells
  <2>3. Sized'
    BY <1>1, <1>2, <1>3, <2>1, <2>2 DEF Sized, Buying
  <2>4. TypeOK'
    BY <1>1, <1>2, <2>1, SaneTypes, TypesAre
  <2>5. ~(ledger.n = 0 \/ SellSize = 0)
    BY <1>2, <2>2, SaneTypes, SizesAre
  <2> QED BY <1>1, <1>3, <2>1, <2>3, <2>4, <2>5 DEF Sane
<1>5. CASE /\ Buys(loop.signal.utilisation, loop.signal.usable) /\ BuySize >= MinEntry
           /\ loop' = [loop EXCEPT !.at = "impact",
                !.order = [side |-> "buy", amount |-> BuySize, quote |-> 0]]
  <2>1. BuySize \in Nat
    BY <1>5, SizesAre, Parameters
  <2>2. /\ loop'.at = "impact" /\ loop'.order = [side |-> "buy", amount |-> BuySize, quote |-> 0]
        /\ loop' \in Loops
    BY <1>2, <1>5, <2>1 DEF Loops, Places, Orders
  <2>3. ledger.n < MaxEntries /\ ~Ending
    BY <1>5 DEF Buys
  <2>4. Sized'
    BY <1>1, <1>2, <1>3, <1>5, <2>2, <2>3, SizesAre DEF Sized, Buying
  <2>5. TypeOK'
    BY <1>1, <1>2, <2>2, SaneTypes, TypesAre
  <2> QED BY <1>1, <1>3, <2>2, <2>3, <2>4, <2>5 DEF Sane
<1> QED BY <1>4, <1>5 DEF Decide

\* A trade that lands: its order fits the ledger, which stays as it is.
LEMMA LandsIs ==
  ASSUME Sane, NEW answered \in BOOLEAN, NEW quote \in Nat, Lands(answered, quote),
         loop.at = "trade", faults' \in 0..MaxFaults, clean' \in BOOLEAN,
         account' \in Accounts, bought' \in Amounts
  PROVE  /\ Sane' /\ ledger' = ledger /\ closed' = closed
         /\ ~answered => loop' = Asleep
         /\ answered => /\ loop'.at = "save" /\ loop'.order.side = loop.order.side
                        /\ loop'.order.amount = loop.order.amount /\ loop'.order.quote = quote
<1>1. /\ tick' = tick /\ band' = band /\ ledger' = ledger /\ closed' = closed /\ sinceTrade' = 0
      /\ loop' = IF answered THEN [loop EXCEPT !.at = "save", !.order.quote = quote] ELSE Asleep
  BY DEF Lands, poolVars
<1>2. TypeOK /\ Ranged /\ Sized /\ loop \in Loops
  BY SaneTypes DEF Sane
<1>3. answered => /\ loop'.at = "save" /\ loop'.order.side = loop.order.side
                  /\ loop'.order.amount = loop.order.amount /\ loop'.order.quote = quote
                  /\ loop' \in Loops
  <2> SUFFICES ASSUME answered
               PROVE  /\ loop'.at = "save" /\ loop'.order.side = loop.order.side
                      /\ loop'.order.amount = loop.order.amount /\ loop'.order.quote = quote
                      /\ loop' \in Loops
    OBVIOUS
  <2>1. loop' = [loop EXCEPT !.at = "save", !.order.quote = quote]
    BY <1>1
  <2> QED BY <1>2, <2>1 DEF Loops, Places, Orders
<1>4. ~answered => loop' = Asleep
  BY <1>1
<1>5. loop' \in Loops
  BY <1>3, <1>4, AsleepIs
<1>6. TypeOK' /\ Ranged'
  <2>1. 0 \in 0..MinHold
    BY Parameters
  <2> QED BY <1>1, <1>2, <1>5, <2>1, SaneTypes, TypesAre DEF Ranged
<1>7. Sized'
  <2>1. SellSize' = SellSize /\ Total(ledger.buys)' = Total(ledger.buys)
    BY <1>1 DEF SellSize
  <2>2. CASE answered
    <3>1. Ordered /\ Ordered' /\ (Buying' <=> Buying) /\ loop'.order.side = loop.order.side
          /\ loop'.order.amount = loop.order.amount
      BY <1>3, <2>2 DEF Ordered, Buying
    <3> QED BY <1>1, <1>2, <2>1, <3>1 DEF Sized
  <2>3. CASE ~answered
    <3>1. ~Ordered'
      BY <1>4, <2>3, AsleepIs DEF Ordered
    <3> QED BY <1>1, <1>2, <2>1, <3>1 DEF Sized
  <2> QED BY <2>2, <2>3
<1> QED BY <1>1, <1>3, <1>4, <1>6, <1>7 DEF Sane

\* A buy: what the account gets is what was quoted, while the ledger agrees with it.
LEMMA BuyIs ==
  ASSUME Sane, NEW answered \in BOOLEAN, NEW short \in 0..1, Buy(answered, short)
  PROVE  /\ Sane' /\ ledger' = ledger /\ closed' = closed /\ (clean' => clean)
         /\ loop.at = "trade" /\ Buying /\ account'.left = account.left
         /\ bought' = Put(bought, loop.order.amount)
         /\ loop' = Asleep \/ (loop'.at = "save" /\ loop'.order.side = loop.order.side
                                /\ loop'.order.amount = loop.order.amount)
         /\ clean' => loop'.at = "save" /\ account'.wbnb = account.wbnb + loop'.order.quote
<1>1. PICK quote \in {Rate * loop.order.amount + d : d \in 0..1} :
        /\ account' = [account EXCEPT !.wbnb = account.wbnb + quote - short]
        /\ Lands(answered, quote)
  BY DEF Buy
<1>2. /\ loop.at = "trade" /\ loop.order.side = "buy"
      /\ bought' = [bought EXCEPT ![0] = @ + loop.order.amount]
      /\ IF answered /\ short = 0 THEN UNCHANGED <<faults, clean>> ELSE Fault /\ clean' = FALSE
  BY DEF Buy
<1>3. TypeOK /\ Sized /\ loop \in Loops /\ account \in Accounts /\ bought \in Amounts
      /\ faults \in 0..MaxFaults /\ clean \in BOOLEAN
  BY SaneTypes DEF Sane
<1>4. Buying /\ loop.order.amount \in Nat \ {0}
  <2>1. Ordered /\ Buying
    BY <1>2 DEF Ordered, Buying
  <2>2. loop.order.amount >= MinEntry /\ loop.order.amount \in Nat
    BY <1>3, <2>1 DEF Sized, Loops, Orders
  <2> QED BY <2>1, <2>2, Parameters
<1>5. quote \in Nat \ {0}
  <2>1. Rate * loop.order.amount \in Nat \ {0}
    BY <1>4, Parameters, MulNat
  <2>2. PICK d \in 0..1 : quote = Rate * loop.order.amount + d
    OBVIOUS
  <2> QED BY <2>1, <2>2
<1>6. bought' = Put(bought, loop.order.amount) /\ bought' \in Amounts
  BY <1>2, <1>3, <1>4, PutIs DEF Put
<1>7. /\ account'.wbnb = account.wbnb + quote - short /\ account'.left = account.left
      /\ account' \in Accounts
  <2>1. account.wbnb + quote - short \in Nat
    BY <1>3, <1>5 DEF Accounts
  <2> QED BY <1>1, <1>3, <2>1 DEF Accounts
<1>8. /\ faults' \in 0..MaxFaults /\ clean' \in BOOLEAN /\ (clean' => clean /\ answered /\ short = 0)
  <2>1. CASE answered /\ short = 0
    BY <1>2, <1>3, <2>1
  <2>2. CASE ~(answered /\ short = 0)
    <3>1. faults < MaxFaults /\ faults' = faults + 1 /\ clean' = FALSE
      BY <1>2, <2>2 DEF Fault
    <3>2. faults' \in 0..MaxFaults
      BY <1>3, <3>1, Parameters
    <3>3. clean' \in BOOLEAN /\ ~clean'
      BY <3>1
    <3> QED BY <3>2, <3>3
  <2> QED BY <2>1, <2>2
<1>9. /\ Sane' /\ ledger' = ledger /\ closed' = closed
      /\ ~answered => loop' = Asleep
      /\ answered => /\ loop'.at = "save" /\ loop'.order.side = loop.order.side
                     /\ loop'.order.amount = loop.order.amount /\ loop'.order.quote = quote
  BY <1>1, <1>2, <1>5, <1>6, <1>7, <1>8, LandsIs
<1>10. short = 0 => account.wbnb + quote - short = account.wbnb + quote
  BY <1>3, <1>5 DEF Accounts
<1> QED BY <1>2, <1>4, <1>6, <1>7, <1>8, <1>9, <1>10

\* A sale: never of more than the account holds.
LEMMA SellIs ==
  ASSUME Sane, NEW answered \in BOOLEAN, Sell(answered)
  PROVE  /\ Sane' /\ ledger' = ledger /\ closed' = closed /\ (clean' => clean)
         /\ loop.at = "trade" /\ ~Buying /\ account'.left = account.left /\ Running
         /\ bought' = bought /\ account'.wbnb = account.wbnb - loop.order.amount
         /\ loop' = Asleep \/ (loop'.at = "save" /\ loop'.order.side = loop.order.side)
         /\ clean' => loop'.at = "save"
<1>1. /\ loop.at = "trade" /\ loop.order.side = "sell" /\ Running
      /\ loop.order.amount <= account.wbnb /\ bought' = bought
      /\ IF answered THEN UNCHANGED <<faults, clean>> ELSE Fault /\ clean' = FALSE
      /\ account' = [account EXCEPT !.wbnb = account.wbnb - loop.order.amount]
      /\ Lands(answered, 0)
  BY DEF Sell
<1>2. TypeOK /\ Sized /\ loop \in Loops /\ account \in Accounts /\ bought \in Amounts
      /\ faults \in 0..MaxFaults /\ clean \in BOOLEAN
  BY SaneTypes DEF Sane
<1>3. /\ account'.wbnb = account.wbnb - loop.order.amount /\ account'.left = account.left
      /\ account' \in Accounts
  <2>1. account.wbnb - loop.order.amount \in Nat
    BY <1>1, <1>2 DEF Accounts, Loops, Orders
  <2> QED BY <1>1, <1>2, <2>1 DEF Accounts
<1>4. /\ faults' \in 0..MaxFaults /\ clean' \in BOOLEAN /\ (clean' => clean /\ answered)
  <2>1. CASE answered
    BY <1>1, <1>2, <2>1
  <2>2. CASE ~answered
    <3>1. faults < MaxFaults /\ faults' = faults + 1 /\ clean' = FALSE
      BY <1>1, <2>2 DEF Fault
    <3>2. faults' \in 0..MaxFaults
      BY <1>2, <3>1, Parameters
    <3>3. clean' \in BOOLEAN /\ ~clean'
      BY <3>1
    <3> QED BY <3>2, <3>3
  <2> QED BY <2>1, <2>2
<1>5. bought' \in Amounts
  BY <1>1, <1>2
<1>6. /\ Sane' /\ ledger' = ledger /\ closed' = closed
      /\ ~answered => loop' = Asleep
      /\ answered => loop'.at = "save" /\ loop'.order.side = loop.order.side
  BY <1>1, <1>3, <1>4, <1>5, LandsIs
<1> QED BY <1>1, <1>3, <1>4, <1>6 DEF Buying

\* The record of a trade, which the order fitted all along.
LEMMA SaveIs ==
  ASSUME Sane, Save
  PROVE  /\ Sane' /\ loop.at = "save" /\ loop' = Asleep /\ account' = account /\ bought' = bought
         /\ clean' = clean /\ closed' = (closed \/ (Ending /\ loop.order.side = "sell"))
         /\ ledger'.last = 0
         /\ Buying => /\ ledger'.n = ledger.n + 1 /\ ledger'.wbnb = ledger.wbnb + loop.order.quote
                      /\ ledger'.buys = Put(ledger.buys, loop.order.amount)
         /\ ~Buying => ledger'.n = 0 /\ ledger'.buys = ledger.buys
<1>1. /\ loop.at = "save" /\ loop' = Asleep /\ account' = account /\ bought' = bought
      /\ tick' = tick /\ band' = band /\ faults' = faults /\ sinceTrade' = sinceTrade
      /\ clean' = clean /\ closed' = (closed \/ (Ending /\ loop.order.side = "sell"))
      /\ ledger' = IF loop.order.side = "buy"
                   THEN [ledger EXCEPT !.n = ledger.n + 1, !.u = ledger.u + loop.order.amount,
                           !.wbnb = ledger.wbnb + loop.order.quote,
                           !.buys[0] = @ + loop.order.amount, !.last = 0]
                   ELSE [ledger EXCEPT !.n = 0, !.u = 0, !.wbnb = 0, !.last = 0]
  BY DEF Save, poolVars
<1>2. TypeOK /\ Sized /\ Ranged /\ loop \in Loops /\ ledger \in Ledgers /\ Ordered
      /\ closed \in BOOLEAN
  BY <1>1, SaneTypes DEF Sane, Ordered
<1>3. ~Ordered'
  BY <1>1, AsleepIs DEF Ordered
<1>4. closed' \in BOOLEAN /\ Ranged' /\ 0 \in 0..MinHold /\ 0 \in 0..MaxEntries /\ 0 \in 0..Allocation
  BY <1>1, <1>2, Parameters DEF Ranged
<1>5. CASE Buying
  <2>1. ledger' = [ledger EXCEPT !.n = ledger.n + 1, !.u = ledger.u + loop.order.amount,
                     !.wbnb = ledger.wbnb + loop.order.quote,
                     !.buys = Put(ledger.buys, loop.order.amount), !.last = 0]
    BY <1>1, <1>2, <1>5 DEF Buying, Put, Ledgers
  <2>2. ledger.n + 1 \in 0..MaxEntries /\ ledger.u + loop.order.amount \in 0..Allocation
        /\ ledger.wbnb + loop.order.quote \in Nat
        /\ Total(ledger.buys) + loop.order.amount <= DailyCap
    BY <1>2, <1>5, Parameters DEF Sized, Ledgers, Loops, Orders
  <2>3. /\ Put(ledger.buys, loop.order.amount) \in Amounts
        /\ Total(Put(ledger.buys, loop.order.amount)) = Total(ledger.buys) + loop.order.amount
    <3>1. ledger.buys \in Amounts /\ loop.order.amount \in Nat
      BY <1>2 DEF Ledgers, Loops, Orders
    <3> QED BY <3>1, PutIs, WindowIs DEF Total
  <2>4. /\ ledger'.n = ledger.n + 1 /\ ledger'.wbnb = ledger.wbnb + loop.order.quote
        /\ ledger'.buys = Put(ledger.buys, loop.order.amount) /\ ledger'.last = 0
        /\ ledger' \in Ledgers
    BY <1>2, <1>4, <2>1, <2>2, <2>3 DEF Ledgers
  <2>5. TypeOK'
    BY <1>1, <1>2, <1>4, <2>4, SaneTypes, TypesAre, AsleepIs
  <2>6. Sized'
    BY <1>3, <2>2, <2>3, <2>4 DEF Sized
  <2> QED BY <1>1, <1>4, <1>5, <2>4, <2>5, <2>6 DEF Sane
<1>6. CASE ~Buying
  <2>1. ledger' = [ledger EXCEPT !.n = 0, !.u = 0, !.wbnb = 0, !.last = 0]
    BY <1>1, <1>6 DEF Buying
  <2>2. ledger'.n = 0 /\ ledger'.buys = ledger.buys /\ ledger'.last = 0 /\ ledger' \in Ledgers
    BY <1>2, <1>4, <2>1 DEF Ledgers
  <2>3. TypeOK'
    BY <1>1, <1>2, <1>4, <2>2, SaneTypes, TypesAre, AsleepIs
  <2>4. Sized'
    BY <1>2, <1>3, <2>2 DEF Sized
  <2> QED BY <1>1, <1>4, <1>6, <2>2, <2>3, <2>4 DEF Sane
<1> QED BY <1>5, <1>6

\* An hour passes.
LEMMA ClockIs ==
  ASSUME Sane, TimePasses
  PROVE  /\ Sane' /\ loop' = loop /\ clean' = clean /\ closed' = closed
         /\ account.left > 0 /\ account'.left = account.left - 1 /\ account'.wbnb = account.wbnb
         /\ ledger'.n = ledger.n /\ ledger'.wbnb = ledger.wbnb /\ SellSize' = SellSize
         /\ ledger'.buys = Older(ledger.buys) /\ bought' = Older(bought)
         /\ ledger'.last \in 0..(ledger.last + 1)
<1>1. /\ account.left > 0 /\ account' = [account EXCEPT !.left = account.left - 1]
      /\ ledger' = [ledger EXCEPT !.buys = Older(ledger.buys), !.last = Later(ledger.last)]
      /\ bought' = Older(bought) /\ sinceTrade' = Later(sinceTrade) /\ tick' = tick /\ band' = band
      /\ loop' = loop /\ faults' = faults /\ clean' = clean /\ closed' = closed
  BY DEF TimePasses, poolVars
<1>2. TypeOK /\ Sized /\ Ranged /\ ledger \in Ledgers /\ account \in Accounts /\ bought \in Amounts
      /\ sinceTrade \in 0..MinHold /\ loop \in Loops
  BY SaneTypes DEF Sane
<1>3. \A age \in 0..MinHold : Later(age) \in 0..MinHold /\ Later(age) \in 0..(age + 1)
  BY Parameters DEF Later
<1>4. Older(bought) \in Amounts /\ Older(ledger.buys) \in Amounts
      /\ Total(Older(ledger.buys)) <= Total(ledger.buys)
  <2>1. ledger.buys \in Amounts
    BY <1>2 DEF Ledgers
  <2>2. Older(bought) \in Amounts /\ Older(ledger.buys) \in Amounts
    BY <1>2, <2>1, OlderIs
  <2>3. CASE Day = 0
    <3>1. Total(Older(ledger.buys)) = 0 /\ Total(ledger.buys) \in Nat
      BY <2>1, <2>3, OlderIs, UptoNat, WindowIs DEF Total
    <3> QED BY <2>2, <3>1
  <2>4. CASE Day # 0
    <3>1. Total(Older(ledger.buys)) = Upto(ledger.buys)[Day - 1] /\ Day - 1 \in Window
      BY <2>1, <2>4, OlderIs, WindowIs DEF Total
    <3> QED BY <2>1, <2>2, <3>1, UptoGrows
  <2> QED BY <2>3, <2>4
<1>5. /\ ledger'.n = ledger.n /\ ledger'.u = ledger.u /\ ledger'.wbnb = ledger.wbnb
      /\ ledger'.buys = Older(ledger.buys)
      /\ ledger'.last = Later(ledger.last) /\ ledger' \in Ledgers
  BY <1>1, <1>2, <1>3, <1>4 DEF Ledgers
<1>6. account'.left = account.left - 1 /\ account'.wbnb = account.wbnb /\ account' \in Accounts
  BY <1>1, <1>2, Parameters DEF Accounts
<1>7. TypeOK' /\ Ranged' /\ SellSize' = SellSize
  BY <1>1, <1>2, <1>3, <1>4, <1>5, <1>6, SaneTypes, TypesAre DEF Ranged, SellSize
<1>8. Sized'
  <2>1. (Ordered' <=> Ordered) /\ (Buying' <=> Buying)
    BY <1>1 DEF Ordered, Buying
  <2>2. /\ Total(ledger.buys) \in Nat /\ Total(ledger.buys)' \in Nat
        /\ Total(ledger.buys)' <= Total(ledger.buys)
    BY <1>2, <1>4, <1>5, UptoNat, WindowIs DEF Total, Ledgers
  <2>3. loop.order.amount \in Nat /\ DailyCap \in Nat
    BY <1>2, Parameters DEF Loops, Orders
  <2> QED BY <1>1, <1>2, <1>5, <1>7, <2>1, <2>2, <2>3 DEF Sized
<1>9. ledger'.last \in 0..(ledger.last + 1)
  BY <1>2, <1>3, <1>5 DEF Ledgers
<1> QED BY <1>1, <1>5, <1>6, <1>7, <1>8, <1>9 DEF Sane

\* The steps that neither trade nor record: of an order that is dropped nothing remains.
LEMMA QuietIs ==
  ASSUME Sane, \/ ReadSignal \/ PassFails \/ Hold \/ ImpactBelowCeiling \/ Crash
               \/ PriceMoves \/ Rerange
  PROVE  /\ Sane' /\ ledger' = ledger /\ account' = account /\ bought' = bought
         /\ clean' => clean /\ (loop' = loop \/ (loop.at # "save" /\ loop'.at # "save"))
         /\ loop'.at \in {"impact", "trade"} => loop.at \in {"impact", "trade"}
         /\ loop.at \in {"sleep", "job"} => loop'.at \in {"sleep", "job"}
         /\ closed' => closed \/ (/\ Running /\ Ending /\ loop.at = "job" /\ loop'.at = "sleep"
                                  /\ ledger.n = 0 \/ SellSize = 0)
<1>1. /\ TypeOK /\ Ranged /\ loop \in Loops /\ tick \in Live /\ faults \in 0..MaxFaults
      /\ clean \in BOOLEAN /\ closed \in BOOLEAN /\ ledger \in Ledgers
  BY SaneTypes DEF Sane
<1>2. tick' = tick /\ band' = band => tick' \in Live /\ Ranged'
  BY <1>1 DEF Ranged
<1>3. CASE ReadSignal
  <2>1. /\ loop.at = "sleep" /\ UNCHANGED <<tick, band, ledger, account, faults, bought, sinceTrade>>
        /\ clean' = clean /\ closed' = closed
        /\ loop' = [loop EXCEPT !.at = "job", !.signal =
             [utilisation |-> RangeUtilizationPct(PriceAt[tick], band),
              usable |-> InRange(PriceAt[tick], band)]]
    BY <1>3 DEF ReadSignal, poolVars, ghostVars
  <2>2. loop' \in Loops /\ loop'.at = "job"
    BY <1>1, <2>1, SignalIs DEF Loops, Places
  <2>3. Sane'
    BY <1>1, <1>2, <2>1, <2>2, SaneQuiet DEF Ordered
  <2> QED BY <2>1, <2>2, <2>3
<1>4. CASE PassFails \/ Crash
  <2>1. /\ UNCHANGED <<tick, band, ledger, account, bought, sinceTrade>> /\ loop' = Asleep
        /\ faults' = faults \/ (faults < MaxFaults /\ faults' = faults + 1)
        /\ closed' = closed
        /\ (clean' = clean /\ loop.at # "save") \/ clean' = (clean /\ loop.at # "save")
    BY <1>4 DEF PassFails, Crash, Fault, poolVars, ghostVars
  <2>2. faults' \in 0..MaxFaults
    BY <1>1, <2>1, Parameters
  <2>3. clean' \in BOOLEAN /\ (clean' => clean /\ loop.at # "save")
    <3>1. CASE clean' = clean /\ loop.at # "save"
      BY <1>1, <3>1
    <3>2. CASE clean' = (clean /\ loop.at # "save")
      BY <3>2
    <3> QED BY <2>1, <3>1, <3>2
  <2>4. Sane'
    BY <1>1, <1>2, <2>1, <2>2, <2>3, SaneQuiet, AsleepIs DEF Ordered
  <2> QED BY <2>1, <2>3, <2>4, AsleepIs
<1>5. CASE Hold
  <2>1. /\ UNCHANGED <<tick, band, ledger, account, faults, bought, sinceTrade>> /\ loop' = Asleep
        /\ clean' = clean /\ closed' = (closed \/ (Running /\ Ending)) /\ loop.at = "job"
        /\ ~Sells(loop.signal.utilisation, loop.signal.usable) \/ SellSize = 0
    BY <1>5 DEF Hold, poolVars
  <2>2. Running /\ Ending => ledger.n = 0 \/ SellSize = 0
    BY <1>1, <2>1, Parameters DEF Sells, Ledgers
  <2>3. closed' \in BOOLEAN /\ (closed' => closed \/ (Running /\ Ending))
    BY <1>1, <2>1
  <2>4. Sane'
    BY <1>1, <1>2, <2>1, <2>3, SaneQuiet, AsleepIs DEF Ordered
  <2> QED BY <2>1, <2>2, <2>3, <2>4, AsleepIs
<1>6. CASE ImpactBelowCeiling
  <2>1. /\ UNCHANGED <<tick, band, ledger, account, faults, bought, sinceTrade>>
        /\ clean' = clean /\ closed' = closed /\ loop.at = "impact"
        /\ loop' = [loop EXCEPT !.at = "trade"]
    BY <1>6 DEF ImpactBelowCeiling, poolVars, ghostVars
  <2>2. loop' \in Loops /\ loop'.at = "trade" /\ loop'.order = loop.order
    BY <1>1, <2>1 DEF Loops, Places
  <2>3. Sane'
    BY <1>1, <1>2, <2>1, <2>2, SaneQuiet DEF Ordered
  <2> QED BY <2>1, <2>2, <2>3
<1>7. CASE PriceMoves \/ Rerange
  <2>1. /\ UNCHANGED <<loop, ledger, account, faults, bought, sinceTrade>>
        /\ clean' = clean /\ closed' = closed
    BY <1>7 DEF PriceMoves, Rerange, ghostVars
  <2>2. tick' \in Live /\ Ranged'
    BY <1>1, <1>7 DEF PriceMoves, Rerange, Ranged
  <2>3. Sane'
    BY <1>1, <2>1, <2>2, SaneQuiet DEF Ordered
  <2> QED BY <2>1, <2>3
<1> QED BY <1>3, <1>4, <1>5, <1>6, <1>7

LEMMA EmptyIs == Empty \in Ledgers /\ Empty.buys = Fresh /\ Total(Empty.buys) = 0
BY FreshIs, Parameters DEF Empty, Ledgers

\* The ledger starts again: what it forgot is not owed to it.
LEMMA LostIs ==
  ASSUME Sane, LedgerLost
  PROVE  Sane' /\ ~clean'
<1>1. /\ loop.at = "sleep" /\ ledger' = Empty /\ clean' = FALSE /\ faults < MaxFaults
      /\ faults' = faults + 1 /\ UNCHANGED <<tick, band, loop, account, bought, sinceTrade, closed>>
  BY DEF LedgerLost, Fault, poolVars
<1>2. TypeOK /\ Ranged
  BY DEF Sane
<1>3. faults' \in 0..MaxFaults
  BY <1>1, <1>2, SaneTypes, Parameters
<1>4. clean' \in BOOLEAN /\ ~clean'
  BY <1>1
<1>5. TypeOK' /\ Ranged'
  BY <1>1, <1>2, <1>3, <1>4, SaneTypes, TypesAre, EmptyIs DEF Ranged
<1>6. Sized'
  <2>1. ~Ordered' /\ Total(ledger.buys)' = 0
    BY <1>1, EmptyIs DEF Ordered
  <2> QED BY <2>1, Parameters DEF Sized
<1> QED BY <1>4, <1>5, <1>6 DEF Sane

LEMMA RevokeIs ==
  ASSUME Sane, Revoke
  PROVE  /\ Sane' /\ account'.left = 0 /\ account'.wbnb = account.wbnb
         /\ UNCHANGED <<loop, ledger, bought, clean, closed>>
<1>1. /\ account' = [account EXCEPT !.left = 0]
      /\ UNCHANGED <<tick, band, loop, ledger, faults, bought, sinceTrade, clean, closed>>
  BY DEF Revoke, poolVars, ghostVars
<1>2. TypeOK /\ Ranged /\ Sized /\ account \in Accounts
  BY SaneTypes DEF Sane
<1>3. account'.left = 0 /\ account'.wbnb = account.wbnb /\ account' \in Accounts
  BY <1>1, <1>2, Parameters DEF Accounts
<1>4. TypeOK' /\ Ranged'
  BY <1>1, <1>2, <1>3, SaneTypes, TypesAre DEF Ranged
<1>5. Sized'
  BY <1>1, <1>2 DEF Sized, Ordered, Buying, SellSize
<1> QED BY <1>1, <1>3, <1>4, <1>5 DEF Sane

LEMMA InitSane == Init => Sane
<1> SUFFICES ASSUME Init PROVE Sane
  OBVIOUS
<1>1. /\ tick = 0 /\ band = BandAt[0] /\ loop = Asleep /\ ledger = Empty
      /\ account = [wbnb |-> 0, left |-> Term] /\ faults = 0 /\ bought = Fresh
      /\ sinceTrade = MinHold /\ clean = TRUE /\ closed = FALSE
  BY DEF Init
<1>2. Ranged /\ tick \in Live /\ band \in [lower : Tick, upper : Tick]
  BY <1>1, LiveAssumption, BandIs DEF Ranged
<1>3. /\ account \in Accounts /\ faults \in 0..MaxFaults /\ sinceTrade \in 0..MinHold
      /\ bought \in Amounts /\ loop \in Loops /\ ledger \in Ledgers
  BY <1>1, Parameters, AsleepIs, EmptyIs, FreshIs DEF Accounts
<1>4. clean \in BOOLEAN /\ closed \in BOOLEAN
  BY <1>1
<1>5. TypeOK
  BY <1>2, <1>3, <1>4 DEF TypeOK, Loops, Places, Signals, Orders, Ledgers, Amounts, Accounts
<1>6. Sized
  BY <1>1, AsleepIs, EmptyIs, Parameters DEF Sized, Ordered
<1> QED BY <1>2, <1>5, <1>6 DEF Sane

LEMMA SaneStep == Sane /\ [Next]_vars => Sane'
<1> SUFFICES ASSUME Sane, [Next]_vars PROVE Sane'
  OBVIOUS
<1>1. CASE \/ ReadSignal \/ PassFails \/ Hold \/ ImpactBelowCeiling \/ Crash \/ PriceMoves \/ Rerange
  BY <1>1, QuietIs
<1>2. CASE \E answered \in BOOLEAN : Sell(answered)
  BY <1>2, SellIs
<1>3. CASE \E answered \in BOOLEAN : \E short \in 0..1 : Buy(answered, short)
  BY <1>3, BuyIs
<1>4. CASE Decide \/ Save \/ LedgerLost \/ TimePasses \/ Revoke
  BY <1>4, DecideIs, SaveIs, LostIs, ClockIs, RevokeIs
<1>5. CASE UNCHANGED vars
  <2>1. UNCHANGED <<tick, band, loop, ledger, account, faults, bought, sinceTrade, clean, closed>>
    BY <1>5 DEF vars, poolVars, ghostVars
  <2> QED BY <2>1 DEF Sane, TypeOK, Ranged, Sized, Ordered, Buying, SellSize
<1> QED BY <1>1, <1>2, <1>3, <1>4, <1>5 DEF Next

\* The loop, the ledger and the account always hold what the orders fit: no entry beyond the
\* ladder or the allocation is recorded, and no sale takes more than the account holds.
THEOREM SaneAlways == Spec => []Sane
BY InitSane, SaneStep, PTL DEF Spec

\* The types of the state, among them: the entries and what they cost stay inside the ladder
\* and the allocation, and the account is never overdrawn.
THEOREM TypeCorrect == Spec => []TypeOK
<1>1. Sane => TypeOK
  BY DEF Sane
<1> QED BY <1>1, SaneAlways, PTL

\* A band just made around the price covers the range asked for and leaves the price outside
\* both trigger margins, so that the agent does not rebalance twice at one price.
THEOREM BandSettles == Spec => []FreshBandSettles
<1> DEFINE b == FreshBand(tick)
           asked == RebalanceRange(PriceAt[tick])
<1>1. ASSUME TypeOK, band = BandAt[tick] PROVE /\ tick \in Live /\ tick \in Tick /\ band = b
                                               /\ b.lower \in Tick /\ b.upper \in Tick
  BY <1>1, LiveAssumption, BandAssumption DEF TypeOK, BandAt
<1>2. ASSUME TypeOK, band = BandAt[tick]
      PROVE  band.lower <= TickOf(asked.upper) /\ TickOf(asked.lower) <= band.upper
  <2>1. /\ TickOf(asked.upper) \in Int /\ TickOf(asked.lower) \in Int
        /\ TickOf(asked.upper) <= TickOf(asked.lower)
    BY <1>1, <1>2, TableAssumption, RangeOrder
  <2> QED BY <1>1, <1>2, <2>1, BandCoversRange DEF FreshBand
<1>3. ASSUME TypeOK, band = BandAt[tick] PROVE ~RebalanceRequired(PriceAt[tick], band)
  <2>1. PICK slip \in 0..RangePct :
          /\ Close(slip)
          /\ (RangePct + slip) * TriggerPct < (RangePct - slip) * (100 - TriggerPct)
    BY TableAssumption
  <2>2. /\ \A s, t \in Tick : s..t \subseteq Tick
        /\ \E s \in Tick : Nearest(asked.upper, s)
        /\ \E s \in Tick : Nearest(asked.lower, s)
        /\ b.lower - 1 \in Tick /\ b.upper + 1 \in Tick
    BY <1>1, <1>3, TableAssumption
  <2> QED BY <1>1, <1>3, <2>1, <2>2, FreshBandIsNotRequired
<1>4. TypeOK => FreshBandSettles
  BY <1>2, <1>3 DEF FreshBandSettles
<1> QED BY <1>4, TypeCorrect, PTL

-----------------------------------------------------------------------------
(* The day's cap. *)

\* A trade that landed and is not recorded yet.
Pending == IF loop.at = "save" /\ Buying THEN loop.order.amount ELSE 0

\* The ledger dates a buy later than it landed, so at no age has it counted less than was
\* spent on chain, but for the buy it is about to record.
Recorded == clean => \A age \in Window : Upto(bought)[age] <= Upto(ledger.buys)[age] + Pending

LEMMA SumsAre ==
  ASSUME Sane
  PROVE  /\ ledger.buys \in Amounts /\ bought \in Amounts /\ loop.order.amount \in Nat
         /\ Pending \in Nat
         /\ \A age \in Window : Upto(bought)[age] \in Nat /\ Upto(ledger.buys)[age] \in Nat
<1>1. ledger.buys \in Amounts /\ bought \in Amounts /\ loop.order.amount \in Nat
  BY SaneTypes DEF Sane, Ledgers, Loops, Orders
<1> QED BY <1>1, UptoNat DEF Pending

LEMMA RecordedStep == Sane /\ Recorded /\ [Next]_vars => Recorded'
<1> SUFFICES ASSUME Sane, Recorded, [Next]_vars, clean' PROVE Recorded'
  BY DEF Recorded
<1> DEFINE spent(age) == Upto(bought)[age]
           known(age) == Upto(ledger.buys)[age]
<1>1. clean => \A age \in Window : spent(age) <= known(age) + Pending
  BY DEF Recorded
<1>2. \A age \in Window : spent(age) \in Nat /\ known(age) \in Nat
  BY SumsAre
<1>3. Pending \in Nat /\ loop.order.amount \in Nat /\ ledger.buys \in Amounts /\ bought \in Amounts
  BY SumsAre
<1>4. ASSUME clean, bought' = bought, ledger'.buys = ledger.buys, Pending' = Pending
      PROVE  Recorded'
  BY <1>1, <1>4 DEF Recorded
<1>5. CASE \/ ReadSignal \/ PassFails \/ Hold \/ ImpactBelowCeiling \/ Crash \/ PriceMoves \/ Rerange
  <2>1. /\ clean /\ ledger' = ledger /\ bought' = bought
        /\ loop' = loop \/ (loop.at # "save" /\ loop'.at # "save")
    BY <1>5, QuietIs
  <2>2. Pending' = Pending
    BY <2>1 DEF Pending, Buying
  <2> QED BY <1>4, <2>1, <2>2
<1>6. CASE Decide
  <2>1. clean' = clean /\ ledger' = ledger /\ bought' = bought /\ loop.at = "job" /\ loop'.at = "impact"
    BY <1>6, DecideIs DEF ghostVars
  <2>2. Pending' = Pending
    BY <2>1 DEF Pending
  <2> QED BY <1>4, <2>1, <2>2
<1>7. CASE \E answered \in BOOLEAN : Sell(answered)
  <2>1. /\ clean /\ ledger' = ledger /\ bought' = bought /\ loop.at = "trade" /\ ~Buying
        /\ loop'.at = "save" /\ loop'.order.side = loop.order.side
    BY <1>7, SellIs, AsleepIs
  <2>2. Pending' = Pending
    BY <2>1 DEF Pending, Buying
  <2> QED BY <1>4, <2>1, <2>2
<1>8. CASE \E answered \in BOOLEAN : \E short \in 0..1 : Buy(answered, short)
  <2>1. /\ clean /\ ledger' = ledger /\ bought' = Put(bought, loop.order.amount)
        /\ loop.at = "trade" /\ Buying /\ loop'.at = "save"
        /\ loop'.order.side = loop.order.side /\ loop'.order.amount = loop.order.amount
    BY <1>8, BuyIs, AsleepIs
  <2>2. Pending = 0 /\ Pending' = loop.order.amount
    BY <2>1 DEF Pending, Buying
  <2>3. \A age \in Window : Upto(Put(bought, loop.order.amount))[age] = spent(age) + loop.order.amount
    BY <1>3, PutIs
  <2> HIDE DEF spent, known
  <2>4. \A age \in Window : spent(age) + loop.order.amount <= known(age) + loop.order.amount
    BY <1>1, <1>2, <1>3, <2>1, <2>2
  <2> QED BY <2>1, <2>2, <2>3, <2>4 DEF Recorded, known
<1>9. CASE Save
  <2>1. /\ clean /\ loop.at = "save" /\ loop'.at = "sleep" /\ bought' = bought
        /\ Buying => ledger'.buys = Put(ledger.buys, loop.order.amount)
        /\ ~Buying => ledger'.buys = ledger.buys
    BY <1>9, SaveIs, AsleepIs
  <2>2. Pending' = 0 /\ (Buying => Pending = loop.order.amount) /\ (~Buying => Pending = 0)
    BY <2>1 DEF Pending
  <2>3. CASE Buying
    <3>1. \A age \in Window :
            Upto(Put(ledger.buys, loop.order.amount))[age] = known(age) + loop.order.amount
      BY <1>3, PutIs
    <3> HIDE DEF spent, known
    <3>2. \A age \in Window : spent(age) <= known(age) + loop.order.amount + 0
      BY <1>1, <1>2, <1>3, <2>1, <2>2, <2>3
    <3> QED BY <2>1, <2>2, <2>3, <3>1, <3>2 DEF Recorded, spent
  <2>4. CASE ~Buying
    BY <1>4, <2>1, <2>2, <2>4
  <2> QED BY <2>3, <2>4
<1>10. CASE TimePasses
  <2>1. /\ clean /\ loop' = loop /\ ledger'.buys = Older(ledger.buys) /\ bought' = Older(bought)
    BY <1>10, ClockIs
  <2>2. Pending' = Pending
    BY <2>1 DEF Pending, Buying
  <2>3. /\ Upto(Older(bought))[0] = 0 /\ Upto(Older(ledger.buys))[0] = 0
        /\ \A age \in Window : age # 0 => /\ Upto(Older(bought))[age] = spent(age - 1)
                                          /\ Upto(Older(ledger.buys))[age] = known(age - 1)
    BY <1>3, OlderIs
  <2> HIDE DEF spent, known
  <2>4. \A age \in Window : Upto(Older(bought))[age] <= Upto(Older(ledger.buys))[age] + Pending
    <3> TAKE age \in Window
    <3>1. CASE age = 0
      BY <1>3, <2>3, <3>1
    <3>2. CASE age # 0
      <4>1. age - 1 \in Window
        BY <3>2, WindowIs
      <4> QED BY <1>1, <2>1, <2>3, <3>2, <4>1
    <3> QED BY <3>1, <3>2
  <2> QED BY <2>1, <2>2, <2>4 DEF Recorded
<1>11. CASE LedgerLost
  BY <1>11, LostIs
<1>12. CASE Revoke
  <2>1. clean /\ loop' = loop /\ ledger' = ledger /\ bought' = bought
    BY <1>12, RevokeIs
  <2>2. Pending' = Pending
    BY <2>1 DEF Pending, Buying
  <2> QED BY <1>4, <2>1, <2>2
<1>13. CASE UNCHANGED vars
  <2>1. clean' = clean /\ loop' = loop /\ ledger' = ledger /\ bought' = bought
    BY <1>13 DEF vars, ghostVars
  <2>2. Pending' = Pending
    BY <2>1 DEF Pending, Buying
  <2> QED BY <1>4, <2>1, <2>2
<1> QED BY <1>5, <1>6, <1>7, <1>8, <1>9, <1>10, <1>11, <1>12, <1>13 DEF Next

\* While the ledger agrees with the account, no more than the cap is spent in any day.
THEOREM CapKept == Spec => []CleanCapKept
<1>1. Init => Recorded
  <2> SUFFICES ASSUME Init PROVE Recorded
    OBVIOUS
  <2>1. bought = Fresh /\ ledger.buys = Fresh /\ loop.at = "sleep"
    BY EmptyIs, AsleepIs DEF Init
  <2>2. Pending = 0
    BY <2>1 DEF Pending
  <2>3. \A age \in Window : Upto(Fresh)[age] <= Upto(Fresh)[age] + 0
    BY FreshIs
  <2> QED BY <2>1, <2>2, <2>3 DEF Recorded
<1>2. Sane /\ Recorded => CleanCapKept
  <2> SUFFICES ASSUME Sane, Recorded, clean PROVE Total(bought) <= DailyCap
    BY DEF CleanCapKept
  <2>1. Total(bought) <= Total(ledger.buys) + Pending
    BY WindowIs DEF Recorded, Total
  <2>2. Total(ledger.buys) + Pending <= DailyCap
    <3>1. Sized /\ Total(ledger.buys) \in Nat
      BY SumsAre, WindowIs DEF Sane, Total
    <3> QED BY <3>1 DEF Sized, Pending, Ordered
  <2>3. Total(bought) \in Nat /\ Total(ledger.buys) \in Nat /\ Pending \in Nat /\ DailyCap \in Nat
    BY SumsAre, WindowIs, Parameters DEF Total
  <2> QED BY <2>1, <2>2, <2>3
<1> QED BY <1>1, <1>2, SaneAlways, RecordedStep, PTL DEF Spec

-----------------------------------------------------------------------------
(* The way out: what the rounding of sales leaves behind. *)

Elapsed == Term - account.left
Grains(n) == Grain * n

\* What is left when the ledger shows nothing: half a grain a sale.  A sale comes at least an
\* hour after the entry before it, but for the last one, of an ending session, which has no
\* entry after it.
Flat ==
  \/ 2 * account.wbnb <= Grains(Elapsed)
  \/ /\ Ending /\ loop.at \notin {"impact", "trade"}
     /\ 2 * account.wbnb <= Grains(Term)

\* The account holds no more than the ledger shows and what the rounding left; the hours since
\* the last trade are in hand for the next sale.
Drift ==
  clean =>
    /\ (loop.at # "save" /\ ledger.n > 0) =>
         2 * account.wbnb + Grains(ledger.last) <= 2 * ledger.wbnb + Grains(Elapsed)
    /\ (loop.at # "save" /\ ledger.n = 0) => Flat
    /\ (loop.at = "save" /\ Buying) =>
         2 * account.wbnb <= 2 * (ledger.wbnb + loop.order.quote) + Grains(Elapsed)
    /\ (loop.at = "save" /\ ~Buying) => Flat

\* A pass went through the ending session: nothing is ordered any more.
Closed ==
  (clean /\ closed) =>
    /\ Ending /\ loop.at \in {"sleep", "job"}
    /\ 2 * account.wbnb <= Grains(Term)
    /\ ledger.n = 0 \/ SellSize = 0

Way == Drift /\ Closed

LEMMA GrainsAre ==
  /\ \A n \in Nat : Grains(n) \in Nat /\ Grains(n + 1) = Grains(n) + Grain
  /\ \A m, n \in Nat : m <= n => Grains(m) <= Grains(n)
  /\ \A m, n \in Nat : Grains(m + n) = Grains(m) + Grains(n)
  /\ Grains(0) = 0 /\ Grain \in Nat \ {0}
<1>1. Grain \in Nat \ {0}
  BY Parameters
<1>2. ASSUME NEW n \in Nat PROVE Grains(n) \in Nat /\ Grains(n + 1) = Grains(n) + Grain
  BY <1>1 DEF Grains
<1>3. ASSUME NEW m \in Nat, NEW n \in Nat, m <= n PROVE Grains(m) <= Grains(n)
  BY <1>1, <1>3, MulMono DEF Grains
<1>4. ASSUME NEW m \in Nat, NEW n \in Nat PROVE Grains(m + n) = Grains(m) + Grains(n)
  BY <1>1, <1>4 DEF Grains
<1>5. Grains(0) = 0
  BY <1>1 DEF Grains
<1> QED BY <1>1, <1>2, <1>3, <1>4, <1>5

LEMMA NumbersAre ==
  ASSUME Sane
  PROVE  /\ account.wbnb \in Nat /\ account.left \in 0..Term /\ Elapsed \in 0..Term
         /\ ledger.wbnb \in Nat /\ ledger.n \in Nat /\ ledger.last \in 0..MinHold
         /\ loop.order.quote \in Nat /\ loop.order.amount \in Nat /\ SellSize \in Nat
         /\ Grains(Elapsed) \in Nat /\ Grains(ledger.last) \in Nat /\ Grains(Term) \in Nat
         /\ Grains(Elapsed) <= Grains(Term) /\ Grain \in Nat
<1>1. loop \in Loops /\ ledger \in Ledgers /\ account \in Accounts
  BY SaneTypes DEF Sane
<1>2. account.wbnb \in Nat /\ account.left \in 0..Term /\ ledger.wbnb \in Nat /\ ledger.n \in Nat
      /\ ledger.last \in 0..MinHold /\ loop.order.quote \in Nat /\ loop.order.amount \in Nat
  BY <1>1, Parameters DEF Loops, Orders, Ledgers, Accounts
<1>3. Elapsed \in 0..Term /\ ledger.last \in Nat /\ Elapsed \in Nat /\ Term \in Nat
  BY <1>2, Parameters DEF Elapsed
<1>4. Grains(Elapsed) \in Nat /\ Grains(ledger.last) \in Nat /\ Grains(Term) \in Nat
  BY <1>3, GrainsAre
<1>5. Grains(Elapsed) <= Grains(Term)
  <2>1. Elapsed <= Term
    BY <1>3
  <2> QED BY <1>3, <2>1, GrainsAre
<1>6. SellSize \in Nat
  BY SizesAre
<1> QED BY <1>2, <1>3, <1>4, <1>5, <1>6, Parameters

\* A step that changes neither the ledger nor the account, nor what is about to be recorded.
LEMMA WayQuiet ==
  ASSUME Sane, Way, ledger' = ledger, account' = account,
         clean' => clean /\ (loop' = loop \/ (loop.at # "save" /\ loop'.at # "save")),
         loop'.at \in {"impact", "trade"} =>
           loop.at \in {"impact", "trade"} \/ ((ledger.n = 0 \/ SellSize = 0) => ~Ending),
         (closed /\ loop.at \in {"sleep", "job"} /\ Ending /\ (ledger.n = 0 \/ SellSize = 0))
           => loop'.at \in {"sleep", "job"},
         closed' => closed \/ (/\ Running /\ Ending /\ loop'.at = "sleep" /\ loop.at # "save"
                               /\ ledger.n = 0 \/ SellSize = 0)
  PROVE  Way'
<1>1. /\ Elapsed' = Elapsed /\ SellSize' = SellSize /\ (Ending' <=> Ending)
      /\ Grains(Elapsed)' = Grains(Elapsed) /\ Grains(Term)' = Grains(Term)
      /\ Grains(ledger.last)' = Grains(ledger.last)
  BY DEF Elapsed, SellSize, Ending, Grains
<1>2. Drift'
  <2> SUFFICES ASSUME clean' PROVE Drift'
    BY DEF Drift
  <2>1. clean /\ (loop' = loop \/ (loop.at # "save" /\ loop'.at # "save"))
    OBVIOUS
  <2>2. CASE loop' = loop
    BY <1>1, <2>1, <2>2 DEF Way, Drift, Flat, Buying
  <2>3. CASE loop.at # "save" /\ loop'.at # "save"
    <3>1. ledger.n = 0 => Flat'
      <4> SUFFICES ASSUME ledger.n = 0 PROVE Flat'
        OBVIOUS
      <4>1. Flat
        BY <2>1, <2>3 DEF Way, Drift
      <4>2. ~Ending \/ loop.at \in {"impact", "trade"} \/ loop'.at \notin {"impact", "trade"}
        OBVIOUS
      <4> QED BY <1>1, <4>1, <4>2 DEF Flat
    <3>2. ledger.n > 0 =>
            2 * account.wbnb + Grains(ledger.last) <= 2 * ledger.wbnb + Grains(Elapsed)
      BY <2>1, <2>3 DEF Way, Drift
    <3> QED BY <1>1, <2>1, <2>3, <3>1, <3>2 DEF Drift
  <2> QED BY <2>1, <2>2, <2>3
<1>3. Closed'
  <2> SUFFICES ASSUME clean', closed' PROVE Closed'
    BY DEF Closed
  <2>1. CASE closed
    <3>1. /\ Ending /\ loop.at \in {"sleep", "job"} /\ 2 * account.wbnb <= Grains(Term)
          /\ ledger.n = 0 \/ SellSize = 0
      BY <2>1 DEF Way, Closed
    <3>2. loop'.at \in {"sleep", "job"}
      BY <2>1, <3>1
    <3> QED BY <1>1, <3>1, <3>2 DEF Closed
  <2>2. CASE ~closed
    <3>1. /\ Running /\ Ending /\ loop'.at = "sleep" /\ loop.at # "save" /\ clean
          /\ ledger.n = 0 \/ SellSize = 0
      BY <2>2
    <3>2. 2 * account.wbnb <= Grains(Term)
      <4>1. CASE ledger.n = 0
        <5>1. Flat
          BY <3>1, <4>1 DEF Way, Drift
        <5> QED BY <5>1, NumbersAre DEF Flat
      <4>2. CASE ledger.n > 0
        <5>1. 2 * account.wbnb + Grains(ledger.last) <= 2 * ledger.wbnb + Grains(Elapsed)
          BY <3>1, <4>2 DEF Way, Drift
        <5>2. SellSize = 0 /\ 2 * ledger.wbnb <= 2 * SellSize + Grain
          BY <3>1, <4>2, SizesAre, NumbersAre
        <5>3. Grains(Elapsed) + Grain <= Grains(Term)
          <6>1. Elapsed + 1 \in Nat /\ Elapsed \in Nat /\ Term \in Nat /\ Elapsed + 1 <= Term
            BY <3>1, NumbersAre, Parameters DEF Running, Elapsed
          <6>2. Grains(Elapsed + 1) = Grains(Elapsed) + Grain
            BY <6>1, GrainsAre
          <6>3. Grains(Elapsed + 1) <= Grains(Term)
            BY <6>1, GrainsAre
          <6> QED BY <6>2, <6>3
        <5> QED BY <5>1, <5>2, <5>3, NumbersAre
      <4> QED BY <4>1, <4>2, NumbersAre
    <3> QED BY <1>1, <3>1, <3>2 DEF Closed
  <2> QED BY <2>1, <2>2
<1> QED BY <1>2, <1>3 DEF Way

\* A sale: half a grain more is left than before, in the hour that the hold has taken or in
\* the last of the session.
LEMMA WaySell ==
  ASSUME Sane, OrderFits, Way, NEW answered \in BOOLEAN, Sell(answered)
  PROVE  Way'
<1> SUFFICES ASSUME clean' PROVE Way'
  BY DEF Way, Drift, Closed
<1>1. /\ ledger' = ledger /\ closed' = closed /\ clean /\ loop.at = "trade" /\ ~Buying
      /\ account'.left = account.left /\ Running
      /\ account'.wbnb = account.wbnb - loop.order.amount
      /\ loop'.at = "save" /\ loop'.order.side = loop.order.side
  BY SellIs, AsleepIs
<1>2. ~closed
  BY <1>1 DEF Way, Closed
<1>3. ledger.n > 0 /\ loop.order.amount = SellSize /\ 2 * ledger.wbnb <= 2 * SellSize + Grain
  BY <1>1, SizesAre DEF Sane, Sized, Ordered
<1>4. 2 * account.wbnb + Grains(ledger.last) <= 2 * ledger.wbnb + Grains(Elapsed)
  BY <1>1, <1>3 DEF Way, Drift
<1>5. 2 * account'.wbnb + Grains(ledger.last) <= Grain + Grains(Elapsed)
  BY <1>1, <1>3, <1>4, NumbersAre
<1>6. /\ Grains(Elapsed)' = Grains(Elapsed) /\ Grains(Term)' = Grains(Term) /\ (Ending' <=> Ending)
      /\ ~Buying'
  BY <1>1 DEF Grains, Elapsed, Ending, Buying
<1>7. account'.wbnb \in Nat
  <2>1. Sane'
    BY SellIs
  <2> QED BY <2>1 DEF Sane, TypeOK
<1>8. CASE ledger.last = MinHold
  <2>1. Grain <= Grains(ledger.last)
    <3>1. 1 \in Nat /\ 0 \in Nat /\ ledger.last \in Nat /\ 1 <= ledger.last /\ 0 + 1 = 1
      BY <1>8, Parameters
    <3>2. Grains(1) = Grain /\ Grains(1) <= Grains(ledger.last)
      BY <3>1, GrainsAre, Parameters DEF Grains
    <3> QED BY <3>2
  <2>2. 2 * account'.wbnb <= Grains(Elapsed)
    BY <1>5, <1>7, <2>1, NumbersAre
  <2> QED BY <1>1, <1>2, <1>6, <2>2 DEF Way, Drift, Closed, Flat
<1>9. CASE Ending
  <2>1. Grains(Elapsed) + Grain <= Grains(Term)
    <3>1. Elapsed + 1 \in Nat /\ Elapsed \in Nat /\ Term \in Nat /\ Elapsed + 1 <= Term
      BY <1>1, NumbersAre, Parameters DEF Running, Elapsed
    <3>2. Grains(Elapsed + 1) = Grains(Elapsed) + Grain /\ Grains(Elapsed + 1) <= Grains(Term)
      BY <3>1, GrainsAre
    <3> QED BY <3>2
  <2>2. 2 * account'.wbnb <= Grains(Term)
    BY <1>5, <1>7, <2>1, NumbersAre
  <2> QED BY <1>1, <1>2, <1>6, <1>9, <2>2 DEF Way, Drift, Closed, Flat
<1> QED BY <1>1, <1>8, <1>9 DEF OrderFits

\* A buy: the account gets what the ledger will show.
LEMMA WayBuy ==
  ASSUME Sane, Way, NEW answered \in BOOLEAN, NEW short \in 0..1, Buy(answered, short)
  PROVE  Way'
<1> SUFFICES ASSUME clean' PROVE Way'
  BY DEF Way, Drift, Closed
<1>1. /\ ledger' = ledger /\ closed' = closed /\ clean /\ loop.at = "trade" /\ Buying
      /\ account'.left = account.left /\ account'.wbnb = account.wbnb + loop'.order.quote
      /\ loop'.at = "save" /\ loop'.order.side = loop.order.side
  BY BuyIs, AsleepIs
<1>2. ~closed
  BY <1>1 DEF Way, Closed
<1>3. Grains(Elapsed)' = Grains(Elapsed) /\ Buying'
  BY <1>1 DEF Grains, Elapsed, Buying
<1>4. loop'.order.quote \in Nat
  <2>1. Sane'
    BY BuyIs
  <2> QED BY <2>1 DEF Sane, TypeOK
<1>5. 2 * account.wbnb <= 2 * ledger.wbnb + Grains(Elapsed)
  <2>1. CASE ledger.n > 0
    <3>1. 2 * account.wbnb + Grains(ledger.last) <= 2 * ledger.wbnb + Grains(Elapsed)
      BY <1>1, <2>1 DEF Way, Drift
    <3> QED BY <3>1, NumbersAre
  <2>2. CASE ledger.n = 0
    <3>1. 2 * account.wbnb <= Grains(Elapsed)
      BY <1>1, <2>2 DEF Way, Drift, Flat
    <3> QED BY <3>1, NumbersAre
  <2> QED BY <2>1, <2>2, NumbersAre
<1>6. 2 * account'.wbnb <= 2 * (ledger.wbnb + loop'.order.quote) + Grains(Elapsed)
  BY <1>1, <1>4, <1>5, NumbersAre
<1> QED BY <1>1, <1>2, <1>3, <1>6 DEF Way, Drift, Closed

\* A record, after which the hours are counted anew.
LEMMA WaySave ==
  ASSUME Sane, Way, Save
  PROVE  Way'
<1> SUFFICES ASSUME clean' PROVE Way'
  BY DEF Way, Drift, Closed
<1>1. /\ loop.at = "save" /\ loop'.at = "sleep" /\ account' = account /\ clean
      /\ closed' = (closed \/ (Ending /\ loop.order.side = "sell")) /\ ledger'.last = 0
      /\ Buying => ledger'.n = ledger.n + 1 /\ ledger'.wbnb = ledger.wbnb + loop.order.quote
      /\ ~Buying => ledger'.n = 0
  BY SaveIs, AsleepIs
<1>2. ~closed
  BY <1>1 DEF Way, Closed
<1>3. /\ Grains(Elapsed)' = Grains(Elapsed) /\ Grains(Term)' = Grains(Term) /\ (Ending' <=> Ending)
      /\ Grains(ledger.last)' = Grains(0)
  BY <1>1 DEF Grains, Elapsed, Ending
<1>4. CASE Buying
  <2>1. ~closed'
    BY <1>1, <1>2, <1>4 DEF Buying
  <2>2. 2 * account.wbnb <= 2 * (ledger.wbnb + loop.order.quote) + Grains(Elapsed)
    BY <1>1, <1>4 DEF Way, Drift
  <2>3. 2 * account.wbnb + Grains(0) <= 2 * ledger'.wbnb + Grains(Elapsed)
    <3>1. Grains(0) = 0 /\ ledger'.wbnb = ledger.wbnb + loop.order.quote
      BY <1>1, <1>4, GrainsAre
    <3>2. 2 * account.wbnb + 0 <= 2 * (ledger.wbnb + loop.order.quote) + Grains(Elapsed)
      BY <2>2, NumbersAre
    <3> QED BY <3>1, <3>2
  <2>4. ledger'.n > 0
    BY <1>1, <1>4, NumbersAre
  <2> QED BY <1>1, <1>3, <2>1, <2>3, <2>4 DEF Way, Drift, Closed
<1>5. CASE ~Buying
  <2>1. Flat
    BY <1>1, <1>5 DEF Way, Drift
  <2>2. Flat' /\ 2 * account.wbnb <= Grains(Term)
    BY <1>1, <1>3, <2>1, NumbersAre DEF Flat
  <2>3. closed' => Ending
    BY <1>1, <1>2
  <2> QED BY <1>1, <1>3, <1>5, <2>2, <2>3 DEF Way, Drift, Closed
<1> QED BY <1>4, <1>5

\* An hour more, or the end of the session: what the sales may leave only grows.
LEMMA WayTime ==
  ASSUME Sane, Way, TimePasses \/ Revoke
  PROVE  Way'
<1> SUFFICES ASSUME clean' PROVE Way'
  BY DEF Way, Drift, Closed
<1>1. /\ loop' = loop /\ closed' = closed /\ clean /\ account'.wbnb = account.wbnb
      /\ ledger'.n = ledger.n /\ ledger'.wbnb = ledger.wbnb /\ SellSize' = SellSize
      /\ Ending => Ending'
      /\ \/ ledger'.last \in 0..(ledger.last + 1) /\ Elapsed' = Elapsed + 1
         \/ ledger'.last = ledger.last /\ Elapsed' = Term
  <2>1. CASE TimePasses
    <3>1. /\ loop' = loop /\ closed' = closed /\ clean /\ account'.wbnb = account.wbnb
          /\ ledger'.n = ledger.n /\ ledger'.wbnb = ledger.wbnb /\ SellSize' = SellSize
          /\ ledger'.last \in 0..(ledger.last + 1) /\ account'.left = account.left - 1
      BY <2>1, ClockIs
    <3>2. (Ending => Ending') /\ Elapsed' = Elapsed + 1
      BY <3>1, NumbersAre, Parameters DEF Ending, Elapsed
    <3> QED BY <3>1, <3>2
  <2>2. CASE Revoke
    <3>1. /\ UNCHANGED <<loop, ledger, clean, closed>> /\ account'.wbnb = account.wbnb
          /\ account'.left = 0
      BY <2>2, RevokeIs
    <3>2. Ending' /\ Elapsed' = Term
      BY <3>1, Parameters DEF Ending, Elapsed
    <3> QED BY <3>1, <3>2 DEF SellSize
  <2> QED BY <2>1, <2>2
<1>2. /\ Grains(Elapsed) <= Grains(Elapsed') /\ Grains(Elapsed') \in Nat
      /\ Grains(ledger'.last) \in Nat
      /\ Grains(ledger'.last) + Grains(Elapsed) <= Grains(ledger.last) + Grains(Elapsed')
  <2>1. Elapsed \in Nat /\ ledger.last \in Nat /\ Term \in Nat /\ Elapsed <= Term
        /\ Elapsed + 1 \in Nat /\ ledger.last + 1 \in Nat /\ Elapsed <= Elapsed + 1
    BY NumbersAre, Parameters
  <2>2. /\ Grains(ledger.last + 1) = Grains(ledger.last) + Grain
        /\ Grains(Elapsed + 1) = Grains(Elapsed) + Grain
        /\ Grains(Elapsed) <= Grains(Elapsed + 1) /\ Grains(Elapsed) <= Grains(Term)
        /\ Grains(Elapsed + 1) \in Nat /\ Grains(Term) \in Nat
    BY <2>1, GrainsAre
  <2>3. CASE ledger'.last \in 0..(ledger.last + 1) /\ Elapsed' = Elapsed + 1
    <3>1. ledger'.last \in Nat /\ ledger'.last <= ledger.last + 1
      BY <2>1, <2>3
    <3>2. Grains(ledger'.last) <= Grains(ledger.last + 1) /\ Grains(ledger'.last) \in Nat
      BY <2>1, <3>1, GrainsAre
    <3> QED BY <2>2, <2>3, <3>2, NumbersAre
  <2>4. CASE ledger'.last = ledger.last /\ Elapsed' = Term
    BY <2>2, <2>4, NumbersAre
  <2> QED BY <1>1, <2>3, <2>4
<1>3. /\ Grains(Elapsed)' = Grains(Elapsed') /\ Grains(ledger.last)' = Grains(ledger'.last)
      /\ Grains(Term)' = Grains(Term) /\ (Buying' <=> Buying)
  BY <1>1 DEF Grains, Buying
<1>4. Flat => Flat'
  <2>1. 2 * account.wbnb <= Grains(Elapsed) => 2 * account.wbnb <= Grains(Elapsed')
    BY <1>2, NumbersAre
  <2> QED BY <1>1, <1>3, <2>1 DEF Flat
<1>5. 2 * account.wbnb + Grains(ledger.last) <= 2 * ledger.wbnb + Grains(Elapsed) =>
        2 * account.wbnb + Grains(ledger'.last) <= 2 * ledger.wbnb + Grains(Elapsed')
  BY <1>2, NumbersAre
<1>6. 2 * account.wbnb <= 2 * (ledger.wbnb + loop.order.quote) + Grains(Elapsed) =>
        2 * account.wbnb <= 2 * (ledger.wbnb + loop.order.quote) + Grains(Elapsed')
  BY <1>2, NumbersAre
<1>7. Drift'
  BY <1>1, <1>3, <1>4, <1>5, <1>6 DEF Way, Drift
<1>8. Closed'
  BY <1>1, <1>3 DEF Way, Closed
<1> QED BY <1>7, <1>8 DEF Way

LEMMA WayStep == Sane /\ HoldInv /\ Way /\ [Next]_vars => Way'
<1> SUFFICES ASSUME Sane, HoldInv, Way, [Next]_vars PROVE Way'
  OBVIOUS
<1>1. CASE \/ ReadSignal \/ PassFails \/ Hold \/ ImpactBelowCeiling \/ Crash \/ PriceMoves \/ Rerange
  <2>1. /\ ledger' = ledger /\ account' = account
        /\ clean' => clean /\ (loop' = loop \/ (loop.at # "save" /\ loop'.at # "save"))
        /\ loop'.at \in {"impact", "trade"} => loop.at \in {"impact", "trade"}
        /\ loop.at \in {"sleep", "job"} => loop'.at \in {"sleep", "job"}
        /\ closed' => closed \/ (/\ Running /\ Ending /\ loop.at = "job" /\ loop'.at = "sleep"
                                 /\ ledger.n = 0 \/ SellSize = 0)
    BY <1>1, QuietIs
  <2> QED BY <2>1, WayQuiet
<1>2. CASE Decide
  <2>1. /\ loop.at = "job" /\ loop'.at = "impact" /\ ledger' = ledger /\ account' = account
        /\ clean' = clean /\ closed' = closed /\ (ledger.n = 0 \/ SellSize = 0 => ~Ending)
    BY <1>2, DecideIs DEF ghostVars
  <2> QED BY <2>1, WayQuiet
<1>3. CASE \E answered \in BOOLEAN : Sell(answered)
  BY <1>3, WaySell DEF HoldInv
<1>4. CASE \E answered \in BOOLEAN : \E short \in 0..1 : Buy(answered, short)
  BY <1>4, WayBuy
<1>5. CASE Save
  BY <1>5, WaySave
<1>6. CASE LedgerLost
  <2>1. ~clean'
    BY <1>6, LostIs
  <2> QED BY <2>1 DEF Way, Drift, Closed
<1>7. CASE TimePasses \/ Revoke
  BY <1>7, WayTime
<1>8. CASE UNCHANGED vars
  <2>1. /\ ledger' = ledger /\ account' = account /\ loop' = loop /\ clean' = clean /\ closed' = closed
    BY <1>8 DEF vars, ghostVars
  <2> QED BY <2>1, WayQuiet
<1> QED BY <1>1, <1>2, <1>3, <1>4, <1>5, <1>6, <1>7, <1>8 DEF Next

\* While the ledger agrees with the account: once a pass went through the session inside its
\* exit buffer, the client holds no more than the rounding of sales left, up to the expiry and
\* after it, however the passes, the failures and the hours fell.
THEOREM ClosedIsFlat == Spec => []CleanClosedIsFlat
<1>1. Init => Way
  <2> SUFFICES ASSUME Init PROVE Way
    OBVIOUS
  <2>1. /\ loop.at = "sleep" /\ ledger.n = 0 /\ closed = FALSE /\ account.wbnb = 0
        /\ account.left = Term
    BY AsleepIs DEF Init, Empty
  <2>2. Elapsed = 0
    BY <2>1, Parameters DEF Elapsed
  <2>3. Flat
    BY <2>1, <2>2, GrainsAre DEF Flat
  <2> QED BY <2>1, <2>3 DEF Way, Drift, Closed
<1>2. Way => CleanClosedIsFlat
  BY DEF Way, Closed, CleanClosedIsFlat, Grains
<1>3. HoldInv /\ [Next]_vars => HoldInv'
  BY HoldStep
<1> QED BY <1>1, <1>2, <1>3, InitHold, SaneAlways, WayStep, PTL DEF Spec
=============================================================================
