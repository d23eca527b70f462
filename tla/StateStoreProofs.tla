--------------------------- MODULE StateStoreProofs ---------------------------
(***************************************************************************)
(* StateStore for every set of processes and every bound: what survives    *)
(* the interleaving of statements that commit one by one.                  *)
(***************************************************************************)
EXTENDS StateStore, TLAPS

Status == {"active", "paused"}
Token == Current["token_id"]
Count == Current["rebalance_count"]

\* What a recording, or an import after its first statement, has left.
Recording(id, n) == <<Set("token_id", id), Set("rebalance_count", n), Add(id)>>
Counting(id, n) == <<Set("rebalance_count", n), Add(id)>>
Listing(id) == <<Add(id)>>
Commanding(status) == <<Set("status", status)>>

Types ==
  /\ DOMAIN scalars \subseteq Key
  /\ Current["status"] \in Status /\ Token \in Nat /\ Count \in Nat
  /\ history \in Seq(Nat)
  /\ mode \in [Proc -> {"down", "importing", "ready"}]
  /\ todo = [p \in Proc |-> todo[p]]
  /\ flock \in Proc \cup {Nobody}
  /\ view \in [Proc -> [count : Nat, rows : Nat \cup {-1}]]
  /\ records \in Nat /\ commands \in Nat /\ faults \in Nat
  /\ commanded \in Status /\ clean \in BOOLEAN

\* The statements a process may have left.
Shape(p) ==
  /\ mode[p] = "down" => todo[p] = <<>>
  /\ flock = p => mode[p] = "ready"
  /\ mode[p] = "importing" =>
       /\ HasLegacy
       /\ todo[p] = Import \/ todo[p] \in {Recording(1, 1), Counting(1, 1), Listing(1)}
  /\ mode[p] = "ready" /\ flock = p =>
       \E id, n \in Nat : todo[p] \in {Recording(id, n), Counting(id, n), Listing(id)}
  /\ mode[p] = "ready" /\ flock # p =>
       todo[p] = <<>> \/ \E status \in Status : todo[p] = Commanding(status)
Shapes == \A p \in Proc : Shape(p)

(* While no import was cut short or overlapped: *)

\* whoever imports is alone, on a database that was empty,
Alone == \A p, q \in Proc : mode[p] = "importing" /\ q # p => mode[q] = "down"
Filling ==
  \A p \in Proc : mode[p] = "importing" =>
    /\ history = <<>> /\ commanded = "active"
    /\ IF todo[p] = Import THEN DOMAIN scalars = {}
       ELSE DOMAIN scalars # {} /\ Current["status"] = "active"
    /\ todo[p] = Listing(1) => Count >= 1
Unopened ==
  HasLegacy /\ DOMAIN scalars = {} =>
    /\ history = <<>> /\ commanded = "active"
    /\ \A p \in Proc : mode[p] # "ready"
Filled ==
  HasLegacy /\ Importing = {} /\ DOMAIN scalars # {} =>
    /\ history # <<>> /\ history[1] = 1
    /\ \A i \in DOMAIN history : history[i] = 1 => i = 1
    /\ Token >= 1 /\ Count >= 1

\* what is left to write follows from what is in the database,
Exact ==
  \A p \in Proc, id, n \in Nat :
    /\ todo[p] = Recording(id, n) => id = Token + 1 /\ n = Count + 1
    /\ todo[p] = Counting(id, n) => id = Token /\ n = Count + 1
    /\ todo[p] = Listing(id) => id = Token
    /\ flock = p /\ HasLegacy /\ todo[p] \in {Recording(id, n), Counting(id, n), Listing(id)}
         => id > 1

\* and the tables agree with the commands, with one another, and with what was read.
Obeyed == Importing = {} /\ (HasLegacy => DOMAIN scalars # {}) => Current["status"] = commanded
Ordered == \A i \in DOMAIN history : history[i] <= Token
Unlisted == \E p \in Proc, id \in Nat : todo[p] = Listing(id)
Listed ==
  /\ Count <= Len(history) + faults + 1
  /\ ~Unlisted => Count <= Len(history) + faults
Viewed ==
  \A p \in Proc :
    view[p].count <= (IF view[p].rows = -1 THEN Len(history) ELSE view[p].rows) + faults + 1

CleanInv ==
  clean => /\ Alone /\ Filling /\ Unopened /\ Filled
           /\ Exact /\ Obeyed /\ Ordered /\ Listed /\ Viewed

Inv == Types /\ Shapes /\ CleanInv

-----------------------------------------------------------------------------
(* Tuples and updates. *)

\* What a process has left tells which operation it is in, and with which values.
LEMMA Apart ==
  /\ <<>> # Import
  /\ \A id, n : <<>> \notin {Recording(id, n), Counting(id, n), Listing(id)}
  /\ \A id, n : Import \notin {Recording(id, n), Counting(id, n), Listing(id)}
  /\ \A status : Commanding(status) \notin {<<>>, Import}
  /\ \A status, id, n : Commanding(status) \notin {Recording(id, n), Counting(id, n), Listing(id)}
  /\ \A id, n, i, k : /\ Recording(id, n) \notin {Counting(i, k), Listing(i)}
                      /\ Counting(id, n) # Listing(i)
                      /\ Recording(id, n) = Recording(i, k) => id = i /\ n = k
                      /\ Counting(id, n) = Counting(i, k) => id = i /\ n = k
  /\ \A id, i : Listing(id) = Listing(i) => id = i
  /\ \A s1, s2 : Commanding(s1) = Commanding(s2) => s1 = s2
BY DEF Import, Recording, Counting, Listing, Commanding, Set, Add

\* The first statement of each, and the rest.
LEMMA Heads ==
  /\ Head(Import) = Set("status", "active") /\ Tail(Import) = Recording(1, 1)
  /\ \A id, n : /\ Head(Recording(id, n)) = Set("token_id", id)
                /\ Tail(Recording(id, n)) = Counting(id, n)
                /\ Head(Counting(id, n)) = Set("rebalance_count", n)
                /\ Tail(Counting(id, n)) = Listing(id)
  /\ \A id : Head(Listing(id)) = Add(id) /\ Tail(Listing(id)) = <<>>
  /\ \A status : /\ Head(Commanding(status)) = Set("status", status)
                 /\ Tail(Commanding(status)) = <<>>
BY DEF Import, Legacy, Recording, Counting, Listing, Commanding

\* An upsert changes its row and no other.
LEMMA SetStep ==
  ASSUME NEW k \in Key, NEW v,
         scalars' = [i \in DOMAIN scalars \cup {k} |-> IF i = k THEN v ELSE scalars[i]]
  PROVE  /\ DOMAIN scalars' = DOMAIN scalars \cup {k}
         /\ Current'[k] = v
         /\ \A i \in Key \ {k} : Current'[i] = Current[i]
BY DEF Current

\* Sequences and appending.
LEMMA EmptySeq == ASSUME NEW h \in Seq(Nat), Len(h) = 0 PROVE h = <<>>
OBVIOUS

\* Appending keeps every entry in its place.
LEMMA AddStep ==
  ASSUME NEW h \in Seq(Nat), NEW n \in Nat
  PROVE  /\ Append(h, n) \in Seq(Nat) /\ Append(h, n) # <<>>
         /\ Len(h) \in Nat /\ Len(Append(h, n)) = Len(h) + 1
         /\ \A i \in DOMAIN Append(h, n) :
              \/ i \in DOMAIN h /\ Append(h, n)[i] = h[i]
              \/ i = Len(h) + 1 /\ Append(h, n)[i] = n
         /\ \A i \in DOMAIN h : Append(h, n)[i] = h[i]
         /\ h # <<>> => 1 \in DOMAIN h
         /\ h = <<>> => DOMAIN Append(h, n) = {1} /\ Append(h, n)[1] = n
<1>1. /\ Append(h, n) \in Seq(Nat) /\ Len(h) \in Nat /\ Len(Append(h, n)) = Len(h) + 1
      /\ DOMAIN h = 1..Len(h) /\ DOMAIN Append(h, n) = 1..(Len(h) + 1)
      /\ \A i \in DOMAIN h : Append(h, n)[i] = h[i]
      /\ Append(h, n)[Len(h) + 1] = n
  OBVIOUS
<1>2. h # <<>> => Len(h) > 0
  BY <1>1, EmptySeq
<1>3. h = <<>> => Len(h) = 0
  OBVIOUS
<1>4. Append(h, n) # <<>>
  BY <1>1
<1> QED BY <1>1, <1>2, <1>3, <1>4

\* Without a write the scalars read as before.
LEMMA KeepCurrent ==
  ASSUME UNCHANGED scalars
  PROVE  Current' = Current /\ Token' = Token /\ Count' = Count
BY DEF Current, Token, Count

-----------------------------------------------------------------------------
\* Nothing is stored yet.
LEMMA InitInv == Init => Inv
<1> SUFFICES ASSUME Init PROVE Inv
  OBVIOUS
<1>1. DOMAIN scalars = {}
  BY DEF Init
<1>2. Current["status"] = "paused" /\ Token = 0 /\ Count = 0
  BY <1>1 DEF Current, Default, Key, Token, Count
<1>3. Types
  BY <1>1, <1>2 DEF Types, Init, NoView, Status, Legacy, Default
<1>4. Shapes
  BY ProcAssumption DEF Init, Shapes, Shape
<1>5. Alone /\ Filling /\ Unopened /\ Filled
  BY <1>1 DEF Init, Alone, Filling, Unopened, Filled, Legacy
<1>6. Exact
  BY Apart DEF Init, Exact
<1>7. Obeyed /\ Ordered
  BY <1>1, <1>2 DEF Init, Obeyed, Ordered, Default
<1>8. Listed /\ Viewed
  BY <1>2 DEF Init, Listed, Viewed, NoView
<1> QED BY <1>3, <1>4, <1>5, <1>6, <1>7, <1>8 DEF Inv, CleanInv

\* load() only reads.
LEMMA LoadStep ==
  ASSUME Inv, NEW p \in Proc, LoadScalars(p) \/ LoadHistory(p)
  PROVE  Inv'
<1>1. UNCHANGED <<scalars, history, mode, todo, flock, records, commands, faults, commanded, clean>>
  BY DEF LoadScalars, LoadHistory, countVars
<1>2. Current' = Current /\ Token' = Token /\ Count' = Count
  BY <1>1, KeepCurrent
<1>3. Types
  BY DEF Inv
<1>4. Token \in Nat /\ Count \in Nat /\ Len(history) \in Nat /\ faults \in Nat
  BY <1>3 DEF Types
<1>5. view' \in [Proc -> [count : Nat, rows : Nat \cup {-1}]]
  <2>1. view \in [Proc -> [count : Nat, rows : Nat \cup {-1}]]
    BY <1>3 DEF Types
  <2>2. CASE LoadScalars(p)
    <3>1. [count |-> Count, rows |-> -1] \in [count : Nat, rows : Nat \cup {-1}]
      BY <1>4
    <3>2. view' = [view EXCEPT ![p] = [count |-> Count, rows |-> -1]]
      BY <2>2 DEF LoadScalars, Count
    <3> QED BY <2>1, <3>1, <3>2
  <2>3. CASE LoadHistory(p)
    <3>1. view' = [view EXCEPT ![p].rows = Len(history)]
      BY <2>3 DEF LoadHistory
    <3> QED BY <1>4, <2>1, <3>1
  <2> QED BY <2>2, <2>3
<1>6. Types'
  BY <1>1, <1>2, <1>3, <1>5 DEF Types
<1>7. Shapes'
  BY <1>1 DEF Inv, Shapes, Shape
<1>8. ASSUME clean PROVE (Alone /\ Filling /\ Unopened /\ Filled /\ Exact /\ Obeyed /\ Ordered /\ Listed)'
  BY <1>1, <1>2, <1>8 DEF Inv, CleanInv, Alone, Filling, Unopened, Filled, Exact, Obeyed,
                          Ordered, Listed, Unlisted, Importing
<1>9. ASSUME clean PROVE Viewed'
  <2> SUFFICES ASSUME NEW q \in Proc
      PROVE  view'[q].count <= (IF view'[q].rows = -1 THEN Len(history) ELSE view'[q].rows) + faults + 1
    BY <1>1 DEF Viewed
  <2>1. Count <= Len(history) + faults + 1
    BY <1>9 DEF Inv, CleanInv, Listed
  <2>2. \A r \in Proc :
          view[r].count <= (IF view[r].rows = -1 THEN Len(history) ELSE view[r].rows) + faults + 1
    BY <1>9 DEF Inv, CleanInv, Viewed
  <2>3. CASE q # p
    BY <1>3, <2>2, <2>3 DEF LoadScalars, LoadHistory, Types
  <2>4. CASE q = p /\ LoadScalars(p)
    BY <1>3, <2>1, <2>4 DEF LoadScalars, Types, Count
  <2>5. CASE q = p /\ LoadHistory(p)
    BY <1>3, <1>4, <2>2, <2>5 DEF LoadHistory, Types
  <2> QED BY <2>3, <2>4, <2>5
<1> QED BY <1>1, <1>6, <1>7, <1>8, <1>9 DEF Inv, CleanInv

\* A process that opens the store imports into an empty one that nobody has opened.
LEMMA OpenStep ==
  ASSUME Inv, NEW p \in Proc, Open(p)
  PROVE  Inv'
<1> DEFINE imports == HasLegacy /\ DOMAIN scalars = {}
<1>1. /\ UNCHANGED <<scalars, history, flock, view, records, commands, faults, commanded>>
      /\ mode[p] = "down" /\ clean' = (clean /\ Importing = {})
  BY DEF Open, countVars
<1>2. Current' = Current /\ Token' = Token /\ Count' = Count
  BY <1>1, KeepCurrent
<1>3. Types /\ Shapes
  BY DEF Inv
<1>4. /\ mode \in [Proc -> {"down", "importing", "ready"}] /\ todo = [q \in Proc |-> todo[q]]
      /\ todo[p] = <<>> /\ flock # p
  BY <1>1, <1>3 DEF Types, Shapes, Shape
<1>5. /\ mode' = [mode EXCEPT ![p] = IF imports THEN "importing" ELSE "ready"]
      /\ todo' = [todo EXCEPT ![p] = IF imports THEN Import ELSE <<>>]
  <2>1. CASE imports
    BY <2>1 DEF Open
  <2>2. CASE ~imports
    BY <1>4, <2>2 DEF Open
  <2> QED BY <2>1, <2>2
<1>6. mode'[p] = (IF imports THEN "importing" ELSE "ready")
      /\ todo'[p] = (IF imports THEN Import ELSE <<>>)
      /\ \A q \in Proc \ {p} : mode'[q] = mode[q] /\ todo'[q] = todo[q]
  BY <1>4, <1>5
<1>7. Types'
  BY <1>1, <1>2, <1>3, <1>5 DEF Types
<1>8. Shapes'
  BY <1>1, <1>3, <1>4, <1>6 DEF Shapes, Shape
<1>9. ASSUME clean' PROVE CleanInv'
  <2>1. /\ Importing = {} /\ clean
        /\ Alone /\ Filling /\ Unopened /\ Filled /\ Exact /\ Obeyed /\ Ordered /\ Listed /\ Viewed
    BY <1>1, <1>9 DEF Inv, CleanInv
  <2>2. \A q \in Proc : mode[q] # "importing"
    BY <2>1 DEF Importing
  <2>3. Alone'
    BY <1>4, <1>6, <2>1, <2>2 DEF Alone, Unopened
  <2>4. Filling'
    BY <1>1, <1>2, <1>4, <1>6, <2>1, <2>2, Apart DEF Filling, Unopened
  <2>5. Unopened'
    BY <1>1, <1>6, <2>1 DEF Unopened
  <2>6. Filled' /\ Obeyed'
    <3>1. HasLegacy => imports \/ DOMAIN scalars # {}
      OBVIOUS
    <3> QED BY <1>1, <1>2, <2>1, <3>1 DEF Filled, Obeyed
  <2>7. Exact'
    <3>1. \A id, n \in Nat : todo'[p] \notin {Recording(id, n), Counting(id, n), Listing(id)}
      BY <1>6, Apart
    <3> QED BY <1>1, <1>2, <1>6, <2>1, <3>1 DEF Exact
  <2>8. Listed'
    <3>1. \A id \in Nat : todo[p] # Listing(id)
      BY <1>4, Apart
    <3>2. Unlisted => Unlisted'
      BY <1>6, <3>1 DEF Unlisted
    <3> QED BY <1>1, <1>2, <2>1, <3>2 DEF Listed
  <2>9. Ordered' /\ Viewed'
    BY <1>1, <1>2, <2>1 DEF Ordered, Viewed
  <2> QED BY <2>3, <2>4, <2>5, <2>6, <2>7, <2>8, <2>9 DEF CleanInv
<1> QED BY <1>7, <1>8, <1>9 DEF Inv, CleanInv

\* What an interruption drops costs the history an entry, or the database its import.
LEMMA InterruptStep ==
  ASSUME Inv, NEW p \in Proc, Interrupt(p), NEW m \in {"down", "ready"},
         mode' = [mode EXCEPT ![p] = m], mode[p] # "down", m = "ready" => mode[p] = "ready",
         view' = view \/ view' = [view EXCEPT ![p] = NoView]
  PROVE  Inv'
<1>1. /\ UNCHANGED <<scalars, history, records, commands, commanded>>
      /\ faults' = faults + 1 /\ clean' = (clean /\ p \notin Importing)
      /\ todo' = [todo EXCEPT ![p] = <<>>]
      /\ flock' = IF flock = p THEN Nobody ELSE flock
  BY DEF Interrupt
<1>2. Current' = Current /\ Token' = Token /\ Count' = Count
  BY <1>1, KeepCurrent
<1>3. Types /\ Shapes
  BY DEF Inv
<1>4. /\ mode'[p] = m /\ todo'[p] = <<>> /\ flock' # p
      /\ \A q \in Proc \ {p} : /\ mode'[q] = mode[q] /\ todo'[q] = todo[q]
                               /\ flock' = q <=> flock = q
  <2>1. mode \in [Proc -> {"down", "importing", "ready"}] /\ todo = [q \in Proc |-> todo[q]]
    BY <1>3 DEF Types
  <2> QED BY <1>1, <2>1, ProcAssumption
<1>5. faults \in Nat /\ Len(history) \in Nat /\ Count \in Nat
  BY <1>3 DEF Types
<1>6. Types'
  <2>1. view' \in [Proc -> [count : Nat, rows : Nat \cup {-1}]]
    <3>1. NoView \in [count : Nat, rows : Nat \cup {-1}]
      BY DEF NoView
    <3> QED BY <1>3, <3>1 DEF Types
  <2>2. mode' \in [Proc -> {"down", "importing", "ready"}] /\ todo' = [q \in Proc |-> todo'[q]]
    BY <1>1, <1>3 DEF Types
  <2>3. faults' \in Nat /\ flock' \in Proc \cup {Nobody} /\ clean' \in BOOLEAN
    BY <1>1, <1>3 DEF Types
  <2> QED BY <1>1, <1>2, <1>3, <2>1, <2>2, <2>3 DEF Types
<1>7. Shapes'
  <2>1. Shape(p)'
    BY <1>4 DEF Shape
  <2>2. ASSUME NEW q \in Proc \ {p} PROVE Shape(q)'
    BY <1>3, <1>4, <2>2 DEF Shapes, Shape
  <2> QED BY <2>1, <2>2 DEF Shapes
<1>8. ASSUME clean' PROVE CleanInv'
  <2>1. /\ mode[p] # "importing" /\ clean
        /\ Alone /\ Filling /\ Unopened /\ Filled /\ Exact /\ Obeyed /\ Ordered /\ Listed /\ Viewed
    BY <1>1, <1>8 DEF Inv, CleanInv, Importing
  <2>2. Alone' /\ Filling' /\ Unopened'
    BY <1>1, <1>2, <1>4, <2>1 DEF Alone, Filling, Unopened
  <2>3. Importing' = Importing
    BY <1>4, <2>1 DEF Importing
  <2>4. Filled' /\ Obeyed' /\ Ordered'
    BY <1>1, <1>2, <2>1, <2>3 DEF Filled, Obeyed, Ordered
  <2>5. Exact'
    <3>1. \A id, n \in Nat : todo'[p] \notin {Recording(id, n), Counting(id, n), Listing(id)}
      BY <1>4, Apart
    <3> QED BY <1>2, <1>4, <2>1, <3>1 DEF Exact
  <2>6. Listed'
    BY <1>1, <1>2, <1>5, <2>1 DEF Listed
  <2>7. Viewed'
    <3> SUFFICES ASSUME NEW q \in Proc
        PROVE  view'[q].count
                 <= (IF view'[q].rows = -1 THEN Len(history) ELSE view'[q].rows) + faults' + 1
      BY <1>1 DEF Viewed
    <3>1. view \in [Proc -> [count : Nat, rows : Nat \cup {-1}]]
      BY <1>3 DEF Types
    <3>2. view[q].count <= (IF view[q].rows = -1 THEN Len(history) ELSE view[q].rows) + faults + 1
      BY <2>1 DEF Viewed
    <3>3. view'[q] = view[q] \/ view'[q] = NoView
      BY <3>1
    <3>4. view[q].count \in Nat /\ view[q].rows \in Nat \cup {-1}
      BY <3>1
    <3> QED BY <1>1, <1>5, <3>2, <3>3, <3>4 DEF NoView
  <2> QED BY <2>2, <2>4, <2>5, <2>6, <2>7 DEF CleanInv
<1> QED BY <1>6, <1>7, <1>8 DEF Inv, CleanInv

\* A command and a recording only decide what is to be written.
LEMMA BeginStep ==
  ASSUME Inv, NEW p \in Proc, Idle(p), NEW statements,
         \/ flock' = flock /\ flock # p /\ \E status \in Status : statements = Commanding(status)
         \/ flock = Nobody /\ flock' = p /\ statements = Recording(Token + 1, Count + 1),
         Do(p, statements), records' \in Nat, commands' \in Nat,
         UNCHANGED <<scalars, history, mode, view, faults, commanded, clean>>
  PROVE  Inv'
<1>1. Types /\ Shapes /\ mode[p] = "ready" /\ todo[p] = <<>>
  BY DEF Inv, Idle
<1>2. Current' = Current /\ Token' = Token /\ Count' = Count
  BY KeepCurrent
<1>3. /\ todo' = [todo EXCEPT ![p] = statements] /\ todo'[p] = statements
      /\ \A q \in Proc \ {p} : todo'[q] = todo[q]
      /\ \A q \in Proc \ {p} : flock' = q <=> flock = q
  BY <1>1, ProcAssumption DEF Do, Types
<1>4. Token \in Nat /\ Count \in Nat
  BY <1>1 DEF Types
<1>5. \A id \in Nat : todo[p] # Listing(id) /\ todo'[p] # Listing(id)
  BY <1>1, <1>3, Apart
<1>6. Types'
  BY <1>1, <1>2, <1>3 DEF Types
<1>7. Shapes'
  <2>1. Shape(p)'
    <3>1. CASE flock' = p
      BY <1>1, <1>3, <1>4, <3>1 DEF Shape
    <3>2. CASE flock' # p
      BY <1>1, <1>3, <3>2 DEF Shape
    <3> QED BY <3>1, <3>2
  <2>2. ASSUME NEW q \in Proc \ {p} PROVE Shape(q)'
    BY <1>1, <1>3, <2>2 DEF Shapes, Shape
  <2> QED BY <2>1, <2>2 DEF Shapes
<1>8. ASSUME clean PROVE CleanInv'
  <2>1. Alone /\ Filling /\ Unopened /\ Filled /\ Exact /\ Obeyed /\ Ordered /\ Listed /\ Viewed
    BY <1>8 DEF Inv, CleanInv
  <2>2. Alone' /\ Filling' /\ Unopened' /\ Filled' /\ Obeyed' /\ Ordered' /\ Viewed'
    BY <1>1, <1>2, <1>3, <2>1 DEF Alone, Filling, Unopened, Filled, Obeyed, Ordered, Viewed,
                                  Importing
  <2>3. Listed'
    BY <1>2, <1>3, <1>5, <2>1 DEF Listed, Unlisted
  <2>4. HasLegacy => Token >= 1
    BY <1>1, <2>1 DEF Alone, Unopened, Filled, Importing
  <2>5. Exact'
    <3> SUFFICES ASSUME NEW q \in Proc, NEW id \in Nat, NEW n \in Nat
        PROVE  /\ todo'[q] = Recording(id, n) => id = Token + 1 /\ n = Count + 1
               /\ todo'[q] = Counting(id, n) => id = Token /\ n = Count + 1
               /\ todo'[q] = Listing(id) => id = Token
               /\ flock' = q /\ HasLegacy
                  /\ todo'[q] \in {Recording(id, n), Counting(id, n), Listing(id)} => id > 1
      BY <1>2 DEF Exact
    <3>1. CASE q # p
      BY <1>3, <2>1, <3>1 DEF Exact
    <3>2. CASE q = p /\ \E status \in Status : statements = Commanding(status)
      BY <1>3, <3>2, Apart
    <3>3. CASE q = p /\ statements = Recording(Token + 1, Count + 1)
      <4>1. todo'[q] \notin {Counting(id, n), Listing(id)}
        BY <1>3, <3>3, Apart
      <4>2. todo'[q] = Recording(id, n) => id = Token + 1 /\ n = Count + 1
        BY <1>3, <3>3, Apart
      <4> QED BY <1>4, <2>4, <4>1, <4>2
    <3> QED BY <3>1, <3>2, <3>3
  <2> QED BY <2>2, <2>3, <2>5 DEF CleanInv
<1> QED BY <1>6, <1>7, <1>8 DEF Inv, CleanInv

\* activate() and pause().
LEMMA CommandStep ==
  ASSUME Inv, NEW p \in Proc, NEW status \in Status, Command(p, status)
  PROVE  Inv'
<1>1. Idle(p) /\ Do(p, Commanding(status)) /\ commands' = commands + 1
      /\ UNCHANGED <<scalars, history, mode, flock, view, records, faults, commanded, clean>>
  BY DEF Command, Commanding
<1>2. commands' \in Nat /\ records' \in Nat
  BY <1>1 DEF Inv, Types
<1>3. flock # p
  <2> SUFFICES ASSUME flock = p PROVE FALSE
    OBVIOUS
  <2>1. \E id, n \in Nat : todo[p] \in {Recording(id, n), Counting(id, n), Listing(id)}
    BY <1>1 DEF Inv, Shapes, Shape, Idle
  <2> QED BY <1>1, <2>1, Apart DEF Idle
<1> QED BY <1>1, <1>2, <1>3, BeginStep

\* A rebalance records what it minted.
LEMMA RecordStep ==
  ASSUME Inv, NEW p \in Proc, Record(p)
  PROVE  Inv'
<1>1. Idle(p) /\ Do(p, Recording(Token + 1, Count + 1)) /\ records' = records + 1
      /\ flock = Nobody /\ flock' = p
      /\ UNCHANGED <<scalars, history, mode, view, commands, faults, commanded, clean>>
  BY DEF Record, Recording, Minted, Token, Count
<1>2. commands' \in Nat /\ records' \in Nat
  BY <1>1 DEF Inv, Types
<1> QED BY <1>1, <1>2, BeginStep

-----------------------------------------------------------------------------
(* A statement executes. *)

\* Neither the managed NFT nor the count goes back.
Forward == Token' >= Token /\ Count' >= Count

\* Whoever writes more than a status: it imports or holds the flock.
Writer(p) == mode[p] = "importing" \/ flock = p

\* A writer is the only process with an import or a recording under way.
LEMMA Sole ==
  ASSUME Inv, clean, NEW p \in Proc, Writer(p), NEW q \in Proc \ {p}
  PROVE  /\ mode[q] # "importing"
         /\ \A id, n \in Nat : todo[q] \notin {Recording(id, n), Counting(id, n), Listing(id)}
<1>1. Shape(p) /\ Shape(q) /\ Alone /\ mode[q] \in {"down", "importing", "ready"}
  BY DEF Inv, Types, Shapes, CleanInv
<1>2. mode[q] # "importing"
  BY <1>1 DEF Alone, Writer, Shape
<1>3. CASE mode[p] = "importing"
  BY <1>1, <1>3, Apart DEF Alone, Shape
<1>4. CASE flock = p
  <2>1. todo[q] = <<>> \/ \E status \in Status : todo[q] = Commanding(status)
    BY <1>1, <1>2, <1>4 DEF Shape
  <2> QED BY <1>2, <2>1, Apart
<1> QED BY <1>3, <1>4 DEF Writer

\* A statement on the table of scalars.
LEMMA ExecuteSet ==
  ASSUME NEW p \in Proc, NEW k \in Key, NEW v, Execute(p),
         Head(todo[p]) = Set(k, v)
  PROVE  /\ DOMAIN scalars' = DOMAIN scalars \cup {k}
         /\ Current'[k] = v /\ \A i \in Key \ {k} : Current'[i] = Current[i]
         /\ UNCHANGED <<history, view, records, commands, faults, clean>>
<1>1. /\ Head(todo[p]).table = "scalars" /\ Head(todo[p]).key = k /\ Head(todo[p]).val = v
  BY DEF Set
<1>2. scalars' = [i \in DOMAIN scalars \cup {k} |-> IF i = k THEN v ELSE scalars[i]]
  BY <1>1 DEF Execute
<1>4. UNCHANGED <<history, view, records, commands, faults, clean>>
  BY <1>1 DEF Execute, countVars
<1> QED BY <1>2, <1>4, SetStep

\* The first statement of an import.
LEMMA ImportStep ==
  ASSUME Inv, NEW p \in Proc, Execute(p), todo[p] = Import
  PROVE  Inv' /\ Forward
<1>1. Types /\ Shapes
  BY DEF Inv
<1>2. mode[p] = "importing" /\ flock # p /\ HasLegacy
  <2>1. /\ todo[p] # <<>> /\ \A status : todo[p] # Commanding(status)
        /\ \A id, n : todo[p] \notin {Recording(id, n), Counting(id, n), Listing(id)}
    BY Apart
  <2>2. Shape(p) /\ mode[p] \in {"down", "importing", "ready"}
    BY <1>1 DEF Types, Shapes
  <2> QED BY <2>1, <2>2 DEF Shape
<1>3. /\ Head(todo[p]) = Set("status", "active") /\ Tail(todo[p]) = Recording(1, 1)
      /\ todo[p] # <<>> /\ Recording(1, 1) # <<>>
  BY Heads, Apart
<1>4. /\ DOMAIN scalars' = DOMAIN scalars \cup {"status"} /\ Current'["status"] = "active"
      /\ \A i \in Key \ {"status"} : Current'[i] = Current[i]
      /\ todo' = [todo EXCEPT ![p] = Recording(1, 1)]
      /\ UNCHANGED <<history, mode, flock, view, records, commands, faults, clean>>
  <2>1. "status" \in Key
    BY DEF Key
  <2>2. /\ DOMAIN scalars' = DOMAIN scalars \cup {"status"} /\ Current'["status"] = "active"
        /\ \A i \in Key \ {"status"} : Current'[i] = Current[i]
        /\ UNCHANGED <<history, view, records, commands, faults, clean>>
    BY <1>3, <2>1, ExecuteSet
  <2>3. todo' = [todo EXCEPT ![p] = Recording(1, 1)] /\ UNCHANGED <<mode, flock>>
    BY <1>3 DEF Execute
  <2> QED BY <1>3, <2>2, <2>3
<1>5. Token' = Token /\ Count' = Count /\ commanded' = commanded
  BY <1>2, <1>4 DEF Key, Token, Count, Execute
<1>6. todo'[p] = Recording(1, 1) /\ \A q \in Proc \ {p} : todo'[q] = todo[q]
  BY <1>1, <1>4 DEF Types
<1>7. Types'
  BY <1>1, <1>4, <1>5 DEF Types, Key, Status
<1>8. Shapes'
  BY <1>1, <1>2, <1>4, <1>6 DEF Shapes, Shape
<1>9. ASSUME clean PROVE CleanInv'
  <2>1. Alone /\ Filling /\ Unopened /\ Filled /\ Exact /\ Obeyed /\ Ordered /\ Listed /\ Viewed
    BY <1>9 DEF Inv, CleanInv
  <2>2. /\ DOMAIN scalars = {} /\ history = <<>> /\ commanded = "active"
        /\ p \in Importing
    BY <1>2, <2>1 DEF Filling, Importing
  <2>3. Token = 0 /\ Count = 0
    BY <2>2 DEF Token, Count, Current, Default, Key
  <2>4. Alone' /\ Importing' = Importing
    BY <1>4, <2>1 DEF Alone, Importing
  <2>5. Filling'
    <3>1. \A q \in Proc \ {p} : mode[q] # "importing"
      BY <1>2, <2>1 DEF Alone
    <3>2. todo'[p] # Import /\ todo'[p] # Listing(1)
      BY <1>6, Apart
    <3> QED BY <1>4, <1>5, <2>2, <3>1, <3>2 DEF Filling
  <2>6. Unopened' /\ Filled' /\ Obeyed'
    BY <1>4, <2>2, <2>4 DEF Unopened, Filled, Obeyed
  <2>7. Exact'
    <3>1. \A id, n \in Nat : /\ todo'[p] \notin {Counting(id, n), Listing(id)}
                             /\ todo'[p] = Recording(id, n) => id = 1 /\ n = 1
      BY <1>6, Apart
    <3> QED BY <1>2, <1>4, <1>5, <1>6, <2>1, <2>3, <3>1 DEF Exact
  <2>8. Ordered' /\ Viewed'
    BY <1>4, <1>5, <2>1 DEF Ordered, Viewed
  <2>9. Listed'
    <3>1. \A id \in Nat : todo[p] # Listing(id)
      BY Apart
    <3>2. Unlisted => Unlisted'
      BY <1>6, <3>1 DEF Unlisted
    <3> QED BY <1>4, <1>5, <2>1, <3>2 DEF Listed
  <2> QED BY <2>4, <2>5, <2>6, <2>7, <2>8, <2>9 DEF CleanInv
<1>10. Forward
  BY <1>1, <1>5 DEF Types, Forward
<1> QED BY <1>4, <1>7, <1>8, <1>9, <1>10 DEF Inv, CleanInv

\* The token id is written.
LEMMA TokenStep ==
  ASSUME Inv, NEW p \in Proc, NEW id \in Nat, NEW n \in Nat, Execute(p), Writer(p),
         todo[p] = Recording(id, n), mode[p] = "importing" => id = 1 /\ n = 1
  PROVE  Inv' /\ (clean' => Forward)
<1>1. Types /\ Shapes
  BY DEF Inv
<1>2. /\ Head(todo[p]) = Set("token_id", id) /\ Tail(todo[p]) = Counting(id, n)
      /\ todo[p] # <<>> /\ Counting(id, n) # <<>>
  <2>1. /\ Head(Recording(id, n)) = Set("token_id", id)
        /\ Tail(Recording(id, n)) = Counting(id, n)
    BY Heads
  <2>2. Recording(id, n) # <<>> /\ Counting(id, n) # <<>>
    BY Apart
  <2> QED BY <2>1, <2>2
<1>3. /\ DOMAIN scalars' = DOMAIN scalars \cup {"token_id"} /\ Current'["token_id"] = id
      /\ \A i \in Key \ {"token_id"} : Current'[i] = Current[i]
      /\ todo' = [todo EXCEPT ![p] = Counting(id, n)]
      /\ UNCHANGED <<history, mode, flock, view, records, commands, faults, clean>>
  <2>1. "token_id" \in Key
    BY DEF Key
  <2>2. /\ DOMAIN scalars' = DOMAIN scalars \cup {"token_id"} /\ Current'["token_id"] = id
        /\ \A i \in Key \ {"token_id"} : Current'[i] = Current[i]
        /\ UNCHANGED <<history, view, records, commands, faults, clean>>
    BY <1>2, <2>1, ExecuteSet
  <2>3. todo' = [todo EXCEPT ![p] = Counting(id, n)] /\ UNCHANGED <<mode, flock>>
    BY <1>2 DEF Execute
  <2> QED BY <1>2, <2>2, <2>3
<1>4. /\ Token' = id /\ Current'["status"] = Current["status"] /\ Count' = Count
      /\ commanded' = commanded
  BY <1>2, <1>3 DEF Key, Token, Count, Execute, Set
<1>5. todo'[p] = Counting(id, n) /\ \A q \in Proc \ {p} : todo'[q] = todo[q]
  BY <1>1, <1>3 DEF Types
<1>6. Types'
  BY <1>1, <1>3, <1>4 DEF Types, Key
<1>7. Shapes'
  <2>1. Shape(p)'
    <3>1. mode[p] # "down"
      BY <1>1, Apart DEF Shapes, Shape
    <3> QED BY <1>1, <1>3, <1>5, <3>1 DEF Shapes, Shape, Writer
  <2>2. ASSUME NEW q \in Proc \ {p} PROVE Shape(q)'
    BY <1>1, <1>3, <1>5, <2>2 DEF Shapes, Shape
  <2> QED BY <2>1, <2>2 DEF Shapes
<1>8. ASSUME clean PROVE CleanInv'
  <2>1. Alone /\ Filling /\ Unopened /\ Filled /\ Exact /\ Obeyed /\ Ordered /\ Listed /\ Viewed
    BY <1>8 DEF Inv, CleanInv
  <2>2. id = Token + 1 /\ n = Count + 1 /\ Token \in Nat /\ Count \in Nat
    BY <1>1, <2>1 DEF Exact, Types
  <2>3. \A q \in Proc \ {p} : /\ mode[q] # "importing"
                              /\ \A k, j \in Nat : todo[q] \notin {Recording(k, j), Counting(k, j),
                                                                   Listing(k)}
    BY <1>8, Sole
  <2>4. mode[p] = "importing" \/ mode[p] = "ready"
    BY <1>1 DEF Writer, Shapes, Shape
  <2>5. HasLegacy => DOMAIN scalars # {}
    <3>1. CASE mode[p] = "importing"
      BY <2>1, <3>1, Apart DEF Filling
    <3>2. CASE mode[p] = "ready"
      BY <2>1, <3>2 DEF Unopened
    <3> QED BY <2>4, <3>1, <3>2
  <2>6. Alone' /\ Importing' = Importing
    BY <1>3, <2>1 DEF Alone, Importing
  <2>7. Filling'
    <3>1. todo'[p] # Import /\ todo'[p] # Listing(1) /\ todo[p] # Import
      BY <1>5, Apart
    <3> QED BY <1>3, <1>4, <2>1, <2>3, <3>1 DEF Filling
  <2>8. Unopened' /\ Obeyed'
    BY <1>3, <1>4, <2>1, <2>5, <2>6 DEF Unopened, Obeyed
  <2>9. Filled'
    BY <1>3, <1>4, <2>1, <2>2, <2>5, <2>6 DEF Filled
  <2>10. Exact'
    <3>1. \A k, j \in Nat : /\ todo'[p] \notin {Recording(k, j), Listing(k)}
                            /\ todo'[p] = Counting(k, j) => k = id /\ j = n
      BY <1>5, Apart
    <3>2. flock = p /\ HasLegacy => id > 1
      BY <2>1 DEF Exact
    <3> QED BY <1>3, <1>4, <1>5, <2>2, <2>3, <3>1, <3>2 DEF Exact
  <2>11. Ordered'
    BY <1>1, <1>3, <1>4, <2>1, <2>2 DEF Ordered, Types
  <2>12. Viewed'
    BY <1>3, <2>1 DEF Viewed
  <2>13. Listed'
    <3>1. \A k \in Nat : todo[p] # Listing(k)
      BY Apart
    <3>2. Unlisted => Unlisted'
      BY <1>5, <3>1 DEF Unlisted
    <3> QED BY <1>3, <1>4, <2>1, <3>2 DEF Listed
  <2> QED BY <2>6, <2>7, <2>8, <2>9, <2>10, <2>11, <2>12, <2>13 DEF CleanInv
<1>9. ASSUME clean' PROVE Forward
  <2>1. id = Token + 1
    BY <1>3, <1>9 DEF Inv, CleanInv, Exact
  <2> QED BY <1>1, <1>4, <2>1 DEF Types, Forward
<1> QED BY <1>3, <1>4, <1>6, <1>7, <1>8, <1>9 DEF Inv, CleanInv


\* The count is written.
LEMMA CountStep ==
  ASSUME Inv, NEW p \in Proc, NEW id \in Nat, NEW n \in Nat, Execute(p), Writer(p),
         todo[p] = Counting(id, n), mode[p] = "importing" => id = 1 /\ n = 1
  PROVE  Inv' /\ (clean' => Forward)
<1>1. Types /\ Shapes
  BY DEF Inv
<1>2. /\ Head(todo[p]) = Set("rebalance_count", n) /\ Tail(todo[p]) = Listing(id)
      /\ todo[p] # <<>> /\ Listing(id) # <<>>
  <2>1. /\ Head(Counting(id, n)) = Set("rebalance_count", n)
        /\ Tail(Counting(id, n)) = Listing(id)
    BY Heads
  <2>2. Counting(id, n) # <<>> /\ Listing(id) # <<>>
    BY Apart
  <2> QED BY <2>1, <2>2
<1>3. /\ DOMAIN scalars' = DOMAIN scalars \cup {"rebalance_count"}
      /\ Current'["rebalance_count"] = n
      /\ \A i \in Key \ {"rebalance_count"} : Current'[i] = Current[i]
      /\ todo' = [todo EXCEPT ![p] = Listing(id)]
      /\ UNCHANGED <<history, mode, flock, view, records, commands, faults, clean>>
  <2>1. "rebalance_count" \in Key
    BY DEF Key
  <2>2. /\ DOMAIN scalars' = DOMAIN scalars \cup {"rebalance_count"}
        /\ Current'["rebalance_count"] = n
        /\ \A i \in Key \ {"rebalance_count"} : Current'[i] = Current[i]
        /\ UNCHANGED <<history, view, records, commands, faults, clean>>
    BY <1>2, <2>1, ExecuteSet
  <2>3. todo' = [todo EXCEPT ![p] = Listing(id)] /\ UNCHANGED <<mode, flock>>
    BY <1>2 DEF Execute
  <2> QED BY <2>2, <2>3
<1>4. /\ Token' = Token /\ Current'["status"] = Current["status"] /\ Count' = n
      /\ commanded' = commanded
  BY <1>2, <1>3 DEF Key, Token, Count, Execute, Set
<1>5. todo'[p] = Listing(id) /\ \A q \in Proc \ {p} : todo'[q] = todo[q]
  BY <1>1, <1>3 DEF Types
<1>6. Types'
  BY <1>1, <1>3, <1>4 DEF Types, Key
<1>7. Shapes'
  <2>1. Shape(p)'
    <3>1. mode[p] # "down"
      BY <1>1, Apart DEF Shapes, Shape
    <3> QED BY <1>1, <1>3, <1>5, <3>1 DEF Shapes, Shape, Writer
  <2>2. ASSUME NEW q \in Proc \ {p} PROVE Shape(q)'
    BY <1>1, <1>3, <1>5, <2>2 DEF Shapes, Shape
  <2> QED BY <2>1, <2>2 DEF Shapes
<1>8. ASSUME clean PROVE CleanInv' /\ Forward
  <2>1. Alone /\ Filling /\ Unopened /\ Filled /\ Exact /\ Obeyed /\ Ordered /\ Listed /\ Viewed
    BY <1>8 DEF Inv, CleanInv
  <2>2. id = Token /\ n = Count + 1 /\ Token \in Nat /\ Count \in Nat
    BY <1>1, <2>1 DEF Exact, Types
  <2>3. \A q \in Proc \ {p} : /\ mode[q] # "importing"
                              /\ \A k, j \in Nat : todo[q] \notin {Recording(k, j), Counting(k, j),
                                                                   Listing(k)}
    BY <1>8, Sole
  <2>4. HasLegacy => DOMAIN scalars # {}
    <3>1. CASE mode[p] = "importing"
      BY <2>1, <3>1, Apart DEF Filling
    <3>2. CASE mode[p] = "ready"
      BY <2>1, <3>2 DEF Unopened
    <3> QED BY <1>1, <3>1, <3>2 DEF Writer, Shapes, Shape
  <2>5. Alone' /\ Importing' = Importing
    BY <1>3, <2>1 DEF Alone, Importing
  <2>6. Filling'
    <3>1. todo'[p] # Import /\ todo[p] # Import
      BY <1>5, Apart
    <3> QED BY <1>3, <1>4, <2>1, <2>2, <2>3, <3>1 DEF Filling
  <2>7. Unopened' /\ Obeyed'
    BY <1>3, <1>4, <2>1, <2>4, <2>5 DEF Unopened, Obeyed
  <2>8. Filled'
    BY <1>3, <1>4, <2>1, <2>2, <2>4, <2>5 DEF Filled
  <2>9. Exact'
    <3>1. \A k, j \in Nat : /\ todo'[p] \notin {Recording(k, j), Counting(k, j)}
                            /\ todo'[p] = Listing(k) => k = id
      BY <1>5, Apart
    <3>2. flock = p /\ HasLegacy => id > 1
      BY <2>1 DEF Exact
    <3> QED BY <1>3, <1>4, <1>5, <2>2, <2>3, <3>1, <3>2 DEF Exact
  <2>10. Ordered' /\ Viewed'
    BY <1>3, <1>4, <2>1 DEF Ordered, Viewed
  <2>11. Listed'
    <3>1. ~Unlisted
      <4>1. \A k \in Nat : todo[p] # Listing(k)
        BY Apart
      <4> QED BY <2>3, <4>1 DEF Unlisted
    <3>2. Unlisted'
      BY <1>5 DEF Unlisted
    <3>3. Count <= Len(history) + faults /\ Len(history) \in Nat /\ faults \in Nat
      BY <1>1, <2>1, <3>1 DEF Listed, Types
    <3> QED BY <1>3, <1>4, <2>2, <3>2, <3>3 DEF Listed
  <2>12. Forward
    BY <1>4, <2>2 DEF Forward
  <2> QED BY <2>5, <2>6, <2>7, <2>8, <2>9, <2>10, <2>11, <2>12 DEF CleanInv
<1> QED BY <1>3, <1>6, <1>7, <1>8 DEF Inv, CleanInv

\* The entry is appended: the import or the recording is complete.
LEMMA ListStep ==
  ASSUME Inv, NEW p \in Proc, NEW id \in Nat, Execute(p), Writer(p),
         todo[p] = Listing(id), mode[p] = "importing" => id = 1
  PROVE  Inv' /\ (clean' => Forward)
<1>1. Types /\ Shapes
  BY DEF Inv
<1>2. Head(todo[p]) = Add(id) /\ Tail(todo[p]) = <<>>
  BY Heads
<1>3. /\ history' = Append(history, id) /\ todo' = [todo EXCEPT ![p] = <<>>]
      /\ mode' = [mode EXCEPT ![p] = "ready"]
      /\ flock' = IF flock = p THEN Nobody ELSE flock
      /\ UNCHANGED <<scalars, view, records, commands, faults, commanded, clean>>
  <2>1. /\ Head(todo[p]).table = "history" /\ Head(todo[p]).key = "entry"
        /\ Head(todo[p]).val = id
    BY <1>2 DEF Add
  <2>2. todo' = [todo EXCEPT ![p] = <<>>] /\ mode' = [mode EXCEPT ![p] = "ready"]
        /\ flock' = IF flock = p THEN Nobody ELSE flock
    BY <1>2 DEF Execute
  <2>3. history' = Append(history, id)
        /\ UNCHANGED <<scalars, view, records, commands, faults, commanded, clean>>
    BY <2>1 DEF Execute, countVars
  <2> QED BY <2>2, <2>3
<1>4. Current' = Current /\ Token' = Token /\ Count' = Count
  BY <1>3, KeepCurrent
<1>5. /\ todo'[p] = <<>> /\ mode'[p] = "ready" /\ flock' # p /\ flock' \in Proc \cup {Nobody}
      /\ \A q \in Proc \ {p} : /\ todo'[q] = todo[q] /\ mode'[q] = mode[q]
                               /\ flock' = q <=> flock = q
  BY <1>1, <1>3, ProcAssumption DEF Types
<1>6. /\ history' \in Seq(Nat) /\ Len(history) \in Nat /\ Len(history') = Len(history) + 1
      /\ \A i \in DOMAIN history' : \/ i \in DOMAIN history /\ history'[i] = history[i]
                                    \/ i = Len(history) + 1 /\ history'[i] = id
      /\ \A i \in DOMAIN history : history'[i] = history[i]
      /\ history # <<>> => 1 \in DOMAIN history
      /\ history = <<>> => DOMAIN history' = {1} /\ history'[1] = id
      /\ history' # <<>>
  <2>1. history \in Seq(Nat)
    BY <1>1 DEF Types
  <2> QED BY <1>3, <2>1, AddStep
<1>7. Types'
  <2>1. /\ mode' \in [Proc -> {"down", "importing", "ready"}]
        /\ todo' = [q \in Proc |-> todo'[q]]
    BY <1>1, <1>3 DEF Types
  <2> QED BY <1>1, <1>3, <1>4, <1>5, <1>6, <2>1 DEF Types
<1>8. Shapes'
  <2>1. Shape(p)'
    BY <1>5 DEF Shape
  <2>2. ASSUME NEW q \in Proc \ {p} PROVE Shape(q)'
    BY <1>1, <1>5, <2>2 DEF Shapes, Shape
  <2> QED BY <2>1, <2>2 DEF Shapes
<1>9. ASSUME clean PROVE CleanInv'
  <2>1. Alone /\ Filling /\ Unopened /\ Filled /\ Exact /\ Obeyed /\ Ordered /\ Listed /\ Viewed
    BY <1>9 DEF Inv, CleanInv
  <2>2. id = Token /\ Token \in Nat /\ Count \in Nat /\ faults \in Nat
    <3>1. Token \in Nat /\ Count \in Nat /\ faults \in Nat
      BY <1>1 DEF Types
    <3>2. todo[p] = Listing(id) => id = Token
      BY <2>1, <3>1 DEF Exact
    <3> QED BY <3>1, <3>2
  <2>3. \A q \in Proc \ {p} : /\ mode[q] # "importing"
                              /\ \A k, j \in Nat : todo[q] \notin {Recording(k, j), Counting(k, j),
                                                                   Listing(k)}
    BY <1>9, Sole
  <2>4. mode[p] = "importing" \/ (mode[p] = "ready" /\ flock = p /\ Importing = {})
    BY <1>1, <2>3 DEF Writer, Shapes, Shape, Importing
  <2>5. Importing' = {}
    BY <1>5, <2>3 DEF Importing
  <2>6. Alone' /\ Filling'
    BY <2>5 DEF Importing, Alone, Filling
  <2>7. HasLegacy => DOMAIN scalars # {}
    <3>1. CASE mode[p] = "importing"
      BY <2>1, <3>1, Apart DEF Filling
    <3>2. CASE mode[p] = "ready"
      BY <2>1, <3>2 DEF Unopened
    <3> QED BY <2>4, <3>1, <3>2
  <2>8. Unopened'
    BY <1>3, <2>7 DEF Unopened
  <2>9. ASSUME HasLegacy
        PROVE  /\ history' # <<>> /\ history'[1] = 1
               /\ \A i \in DOMAIN history' : history'[i] = 1 => i = 1
               /\ Token >= 1 /\ Count >= 1
    <3>1. CASE mode[p] = "importing"
      <4>1. history = <<>> /\ id = 1 /\ Count >= 1
        BY <2>1, <3>1 DEF Filling
      <4> QED BY <1>6, <2>2, <4>1
    <3>2. CASE mode[p] = "ready" /\ flock = p /\ Importing = {}
      <4>1. id > 1
        <5>1. flock = p /\ HasLegacy /\ todo[p] = Listing(id)
          BY <2>9, <3>2
        <5> QED BY <2>1, <2>2, <5>1 DEF Exact
      <4>2. /\ history # <<>> /\ history[1] = 1
            /\ \A i \in DOMAIN history : history[i] = 1 => i = 1
            /\ Token >= 1 /\ Count >= 1
        BY <2>1, <2>7, <2>9, <3>2 DEF Filled
      <4> QED BY <1>6, <4>1, <4>2
    <3> QED BY <2>4, <3>1, <3>2
  <2>10. Filled'
    BY <1>4, <2>9 DEF Filled
  <2>11. Exact'
    <3>1. \A k, j \in Nat : todo'[p] \notin {Recording(k, j), Counting(k, j), Listing(k)}
      BY <1>5, Apart
    <3> QED BY <1>5, <2>3, <3>1 DEF Exact
  <2>12. Obeyed'
    <3>1. CASE mode[p] = "importing"
      <4>1. Current["status"] = "active" /\ commanded = "active"
        BY <2>1, <3>1, Apart DEF Filling
      <4> QED BY <1>3, <1>4, <4>1 DEF Obeyed
    <3>2. CASE Importing = {}
      BY <1>3, <1>4, <2>1, <2>7, <3>2 DEF Obeyed
    <3> QED BY <2>4, <3>1, <3>2
  <2>13. Ordered'
    BY <1>4, <1>6, <2>1, <2>2 DEF Ordered
  <2>14. Listed'
    BY <1>3, <1>4, <1>6, <2>1, <2>2 DEF Listed
  <2>15. Viewed'
    <3> SUFFICES ASSUME NEW q \in Proc
        PROVE  view[q].count
                 <= (IF view[q].rows = -1 THEN Len(history') ELSE view[q].rows) + faults + 1
      BY <1>3 DEF Viewed
    <3>1. view[q].count <= (IF view[q].rows = -1 THEN Len(history) ELSE view[q].rows) + faults + 1
      BY <2>1 DEF Viewed
    <3>2. view[q].count \in Nat /\ view[q].rows \in Nat \cup {-1}
      BY <1>1 DEF Types
    <3> QED BY <1>6, <2>2, <3>1, <3>2
  <2> QED BY <2>6, <2>8, <2>10, <2>11, <2>12, <2>13, <2>14, <2>15 DEF CleanInv
<1>10. Forward
  BY <1>1, <1>4 DEF Types, Forward
<1> QED BY <1>3, <1>7, <1>8, <1>9, <1>10 DEF Inv, CleanInv

\* A command's statement.
LEMMA StatusStep ==
  ASSUME Inv, NEW p \in Proc, NEW status \in Status, Execute(p), todo[p] = Commanding(status)
  PROVE  Inv' /\ Forward
<1>1. Types /\ Shapes
  BY DEF Inv
<1>2. mode[p] = "ready" /\ flock # p
  <2>1. /\ todo[p] # <<>> /\ todo[p] # Import
        /\ \A id, n : todo[p] \notin {Recording(id, n), Counting(id, n), Listing(id)}
    BY Apart
  <2>2. Shape(p) /\ mode[p] \in {"down", "importing", "ready"}
    BY <1>1 DEF Types, Shapes
  <2> QED BY <2>1, <2>2 DEF Shape
<1>3. Head(todo[p]) = Set("status", status) /\ Tail(todo[p]) = <<>>
  BY Heads
<1>4. /\ DOMAIN scalars' = DOMAIN scalars \cup {"status"} /\ Current'["status"] = status
      /\ \A i \in Key \ {"status"} : Current'[i] = Current[i]
      /\ UNCHANGED <<history, view, records, commands, faults, clean>>
  <2>1. "status" \in Key
    BY DEF Key
  <2> QED BY <1>3, <2>1, ExecuteSet
<1>5. /\ todo' = [todo EXCEPT ![p] = <<>>] /\ UNCHANGED <<mode, flock>>
      /\ commanded' = status
  <2>1. /\ todo' = [todo EXCEPT ![p] = <<>>] /\ mode' = [mode EXCEPT ![p] = "ready"]
        /\ UNCHANGED flock
    BY <1>2, <1>3 DEF Execute
  <2>2. mode' = mode
    BY <1>1, <1>2, <2>1 DEF Types
  <2>3. Head(todo[p]).key = "status" /\ Head(todo[p]).val = status
    BY <1>3 DEF Set
  <2>4. commanded' = status
    BY <1>2, <2>3 DEF Execute
  <2> QED BY <2>1, <2>2, <2>4
<1>6. Token' = Token /\ Count' = Count
  BY <1>4 DEF Key, Token, Count
<1>7. todo'[p] = <<>> /\ \A q \in Proc \ {p} : todo'[q] = todo[q]
  BY <1>1, <1>5 DEF Types
<1>8. Types'
  BY <1>1, <1>4, <1>5, <1>6 DEF Types, Key
<1>9. Shapes'
  BY <1>1, <1>2, <1>5, <1>7 DEF Shapes, Shape
<1>10. ASSUME clean PROVE CleanInv'
  <2>1. Alone /\ Filling /\ Unopened /\ Filled /\ Exact /\ Obeyed /\ Ordered /\ Listed /\ Viewed
    BY <1>10 DEF Inv, CleanInv
  <2>2. \A q \in Proc : mode[q] # "importing"
    BY <1>2, <2>1 DEF Alone
  <2>3. HasLegacy => DOMAIN scalars # {}
    BY <1>2, <2>1 DEF Unopened
  <2>4. Alone' /\ Filling'
    BY <1>5, <2>2 DEF Alone, Filling
  <2>5. Unopened' /\ Obeyed'
    BY <1>4, <1>5 DEF Unopened, Obeyed
  <2>6. Filled'
    BY <1>4, <1>5, <1>6, <2>1, <2>3 DEF Filled, Importing
  <2>7. Exact'
    <3>1. \A id, n \in Nat : todo'[p] \notin {Recording(id, n), Counting(id, n), Listing(id)}
      BY <1>7, Apart
    <3> QED BY <1>5, <1>6, <1>7, <2>1, <3>1 DEF Exact
  <2>8. Ordered' /\ Viewed'
    BY <1>4, <1>6, <2>1 DEF Ordered, Viewed
  <2>9. Listed'
    <3>1. \A id \in Nat : todo[p] # Listing(id)
      BY Apart
    <3>2. Unlisted => Unlisted'
      BY <1>7, <3>1 DEF Unlisted
    <3> QED BY <1>4, <1>6, <2>1, <3>2 DEF Listed
  <2> QED BY <2>4, <2>5, <2>6, <2>7, <2>8, <2>9 DEF CleanInv
<1>11. Forward
  BY <1>1, <1>6 DEF Types, Forward
<1> QED BY <1>4, <1>8, <1>9, <1>10, <1>11 DEF Inv, CleanInv

\* The next statement, whichever operation it belongs to.
LEMMA ExecuteStep ==
  ASSUME Inv, NEW p \in Proc, Execute(p)
  PROVE  Inv' /\ (clean' => Forward)
<1>1. Shape(p) /\ mode[p] \in {"down", "importing", "ready"} /\ todo[p] # <<>>
  BY DEF Inv, Types, Shapes, Execute
<1>2. CASE mode[p] = "importing"
  <2>1. 1 \in Nat /\ Writer(p)
    BY <1>2 DEF Writer
  <2>2. CASE todo[p] = Import
    BY <2>2, ImportStep
  <2>3. CASE todo[p] = Recording(1, 1)
    BY <2>1, <2>3, TokenStep
  <2>4. CASE todo[p] = Counting(1, 1)
    BY <2>1, <2>4, CountStep
  <2>5. CASE todo[p] = Listing(1)
    BY <2>1, <2>5, ListStep
  <2> QED BY <1>1, <1>2, <2>2, <2>3, <2>4, <2>5 DEF Shape
<1>3. CASE mode[p] = "ready" /\ flock = p
  <2>1. PICK id, n \in Nat : todo[p] \in {Recording(id, n), Counting(id, n), Listing(id)}
    BY <1>1, <1>3 DEF Shape
  <2>2. Writer(p) /\ mode[p] # "importing"
    BY <1>3 DEF Writer
  <2>3. CASE todo[p] = Recording(id, n)
    BY <2>2, <2>3, TokenStep
  <2>4. CASE todo[p] = Counting(id, n)
    BY <2>2, <2>4, CountStep
  <2>5. CASE todo[p] = Listing(id)
    BY <2>2, <2>5, ListStep
  <2> QED BY <2>1, <2>3, <2>4, <2>5
<1>4. CASE mode[p] = "ready" /\ flock # p
  <2>1. PICK status \in Status : todo[p] = Commanding(status)
    BY <1>1, <1>4 DEF Shape
  <2> QED BY <2>1, StatusStep
<1> QED BY <1>1, <1>2, <1>3, <1>4 DEF Shape

\* The invariant is inductive, and every step goes forward.
LEMMA NextInv ==
  ASSUME Inv, [Next]_vars
  PROVE  Inv' /\ (clean' => Forward)
<1>1. Token \in Nat /\ Count \in Nat
  BY DEF Inv, Types
<1>2. ASSUME UNCHANGED scalars PROVE Forward
  BY <1>1, <1>2, KeepCurrent DEF Forward
<1>3. CASE UNCHANGED vars
  <2>1. /\ UNCHANGED <<scalars, history, mode, todo, flock, view, records, commands, faults,
                       commanded, clean>>
        /\ Current' = Current /\ Token' = Token /\ Count' = Count
    BY <1>3, KeepCurrent DEF vars, procVars, countVars
  <2>2. Types'
    BY <2>1 DEF Inv, Types
  <2>3. Shapes'
    BY <2>1 DEF Inv, Shapes, Shape
  <2>4. ASSUME clean PROVE (Alone /\ Filling /\ Unopened /\ Filled)'
    BY <2>1, <2>4 DEF Inv, CleanInv, Alone, Filling, Unopened, Filled, Importing
  <2>5. ASSUME clean PROVE (Exact /\ Obeyed /\ Ordered)'
    BY <2>1, <2>5 DEF Inv, CleanInv, Exact, Obeyed, Ordered, Importing
  <2>6. ASSUME clean PROVE (Listed /\ Viewed)'
    BY <2>1, <2>6 DEF Inv, CleanInv, Listed, Unlisted, Viewed
  <2> QED BY <1>2, <2>1, <2>2, <2>3, <2>4, <2>5, <2>6 DEF Inv, CleanInv
<1>4. CASE Next
  <2>1. PICK p \in Proc :
          \/ Open(p) \/ Execute(p) \/ Raise(p) \/ Crash(p)
          \/ \E status \in {"active", "paused"} : Command(p, status)
          \/ Record(p) \/ LoadScalars(p) \/ LoadHistory(p)
    BY <1>4 DEF Next
  <2>2. CASE Open(p)
    BY <1>2, <2>2, OpenStep DEF Open
  <2>3. CASE Execute(p)
    BY <2>3, ExecuteStep
  <2>4. CASE Raise(p)
    <3>1. /\ mode[p] # "down" /\ mode \in [Proc -> {"down", "importing", "ready"}]
          /\ p \in Importing <=> mode[p] = "importing"
      BY <2>4 DEF Inv, Types, Shapes, Shape, Raise, Importing
    <3>2. Interrupt(p) /\ view' = view
      BY <2>4 DEF Raise
    <3>3. CASE p \in Importing
      <4>1. mode' = [mode EXCEPT ![p] = "down"]
        BY <2>4, <3>3 DEF Raise
      <4>2. Inv'
        BY <3>1, <3>2, <4>1, InterruptStep
      <4> QED BY <1>2, <3>2, <4>2 DEF Interrupt
    <3>4. CASE p \notin Importing
      <4>1. mode[p] = "ready" /\ mode' = [mode EXCEPT ![p] = "ready"]
        BY <2>4, <3>1, <3>4 DEF Raise
      <4>2. Inv'
        BY <3>1, <3>2, <4>1, InterruptStep
      <4> QED BY <1>2, <3>2, <4>2 DEF Interrupt
    <3> QED BY <3>3, <3>4
  <2>5. CASE Crash(p)
    <3>1. /\ mode[p] # "down" /\ Interrupt(p) /\ mode' = [mode EXCEPT ![p] = "down"]
          /\ view' = [view EXCEPT ![p] = NoView]
      BY <2>5 DEF Crash
    <3>2. Inv'
      BY <3>1, InterruptStep
    <3> QED BY <1>2, <3>1, <3>2 DEF Interrupt
  <2>6. CASE \E status \in {"active", "paused"} : Command(p, status)
    BY <1>2, <2>6, CommandStep DEF Command, Status
  <2>7. CASE Record(p)
    BY <1>2, <2>7, RecordStep DEF Record
  <2>8. CASE LoadScalars(p) \/ LoadHistory(p)
    BY <1>2, <2>8, LoadStep DEF LoadScalars, LoadHistory
  <2> QED BY <2>1, <2>2, <2>3, <2>4, <2>5, <2>6, <2>7, <2>8
<1> QED BY <1>3, <1>4

-----------------------------------------------------------------------------
(* What the runs check. *)

\* The inductive invariant holds in every reachable state.
THEOREM Invariance == Spec => []Inv
<1>1. Inv /\ [Next]_vars => Inv'
  BY NextInv
<1> QED BY InitInv, <1>1, PTL DEF Spec

\* The variables have their types, and whoever holds the flock has something to write
\* (TypeOK).
THEOREM TypeCorrect == Spec => []TypeOK
<1>1. Inv => TypeOK
  <2> SUFFICES ASSUME Inv PROVE TypeOK
    OBVIOUS
  <2>1. Types /\ Shapes
    BY DEF Inv
  <2>2. Current \in [status : {"active", "paused"}, token_id : Nat, rebalance_count : Nat]
    BY <2>1 DEF Types, Status, Token, Count, Current, Key
  <2>3. ASSUME NEW p \in Proc PROVE Len(todo[p]) <= Len(Import)
    <3>1. /\ Len(Import) = 4 /\ Len(<<>>) = 0
          /\ \A id, n : Len(Recording(id, n)) = 3 /\ Len(Counting(id, n)) = 2
          /\ \A id : Len(Listing(id)) = 1
          /\ \A status : Len(Commanding(status)) = 1
      BY DEF Import, Recording, Counting, Listing, Commanding
    <3>2. Shape(p) /\ mode[p] \in {"down", "importing", "ready"}
      BY <2>1 DEF Types, Shapes
    <3>3. \/ todo[p] \in {<<>>, Import} \/ \E status : todo[p] = Commanding(status)
          \/ \E id, n : todo[p] \in {Recording(id, n), Counting(id, n), Listing(id)}
      BY <3>2 DEF Shape
    <3>4. Len(todo[p]) \in {0, 1, 2, 3, 4}
      BY <3>1, <3>3
    <3>5. Len(Import) = 4
      BY <3>1
    <3>6. \A i \in {0, 1, 2, 3, 4} : i <= 4
      OBVIOUS
    <3> QED BY <3>4, <3>5, <3>6
  <2>4. flock # Nobody => todo[flock] # <<>>
    <3>1. SUFFICES ASSUME flock \in Proc PROVE todo[flock] # <<>>
      BY <2>1 DEF Types
    <3>2. \E id, n \in Nat :
            todo[flock] \in {Recording(id, n), Counting(id, n), Listing(id)}
      BY <2>1, <3>1 DEF Shapes, Shape
    <3> QED BY <3>2, Apart
  <2> QED BY <2>1, <2>2, <2>3, <2>4 DEF TypeOK, Types, Status
<1> QED BY Invariance, <1>1, PTL

\* A status that a control route wrote stays until the next command (CommandKept).
THEOREM Obedience == Spec => []CommandKept
<1>1. Inv => CommandKept
  <2> SUFFICES ASSUME Inv, clean, Importing = {}, NEW p \in Proc, mode[p] = "ready"
      PROVE  Current.status = commanded
    BY DEF CommandKept
  <2>1. Unopened /\ Obeyed
    BY DEF Inv, CleanInv
  <2> QED BY <2>1 DEF Unopened, Obeyed
<1> QED BY Invariance, <1>1, PTL

\* An import that nothing cut short or overlapped is complete, and done once
\* (CleanImportComplete).
THEOREM ImportsWhole == Spec => []CleanImportComplete
<1>1. Inv => CleanImportComplete
  <2> SUFFICES ASSUME Inv, clean, HasLegacy, Importing = {}, NEW p \in Proc, mode[p] = "ready"
      PROVE  /\ history # <<>> /\ history[1] = 1
             /\ \A i \in DOMAIN history : history[i] = 1 => i = 1
             /\ Count >= 1
    BY DEF CleanImportComplete, Legacy, Count
  <2>1. Unopened /\ Filled
    BY DEF Inv, CleanInv
  <2> QED BY <2>1 DEF Unopened, Filled
<1> QED BY Invariance, <1>1, PTL

\* The token is in the database before the entry that names it (TokenBeforeHistory).
THEOREM TokenFirst == Spec => []TokenBeforeHistory
<1>1. Inv => TokenBeforeHistory
  BY DEF Inv, CleanInv, Ordered, TokenBeforeHistory, Token
<1> QED BY Invariance, <1>1, PTL

\* load() misses at most the entry being appended and those that faults lost
\* (LoadShowsHistory).
THEOREM LoadsShow == Spec => []LoadShowsHistory
<1>1. Inv => LoadShowsHistory
  <2> SUFFICES ASSUME Inv, NEW p \in Proc, clean, view[p].rows # -1
      PROVE  view[p].count <= view[p].rows + 1 + faults
    BY DEF LoadShowsHistory
  <2>1. Viewed /\ faults \in Nat /\ view[p].count \in Nat /\ view[p].rows \in Nat
    BY DEF Inv, CleanInv, Types
  <2> QED BY <2>1 DEF Viewed
<1> QED BY Invariance, <1>1, PTL

\* No statement takes the managed NFT or the count back (TokenNeverGoesBack).
THEOREM NothingGoesBack == Spec => TokenNeverGoesBack
<1>1. Inv /\ [Next]_vars =>
        [clean' => /\ Current'.token_id >= Current.token_id
                   /\ Current'.rebalance_count >= Current.rebalance_count]_vars
  <2> SUFFICES ASSUME Inv, [Next]_vars, clean'
      PROVE  Current'.token_id >= Current.token_id
             /\ Current'.rebalance_count >= Current.rebalance_count
    OBVIOUS
  <2> QED BY NextInv DEF Forward, Token, Count
<1> QED BY Invariance, <1>1, PTL DEF Spec, TokenNeverGoesBack
=============================================================================
