----------------------------- MODULE StateStore -----------------------------
(***************************************************************************)
(* state_store.StateStore under the processes that share its file: the     *)
(* import of the legacy JSON state when a process first opens the store,   *)
(* the writes of the control routes and of a rebalance, and load().        *)
(*                                                                         *)
(* The connection is in autocommit mode (isolation_level=None) and nothing *)
(* issues BEGIN, so each SQL statement is a transaction of its own.  An    *)
(* operation is the sequence of statements that it has still to execute.   *)
(*                                                                         *)
(* The snapshots and their pruning are modelled in module Monitor.         *)
(***************************************************************************)
EXTENDS Integers, Sequences, FiniteSets

CONSTANTS
  Proc,         \* processes on the host: the agent, the service, the command line
  Nobody,       \* the flock is free
  HasLegacy,    \* is there a legacy state file?
  MaxRecords,   \* bound: rebalances recorded
  MaxCommands,  \* bound: activations and pauses
  MaxFaults     \* bound: statements that raise, processes that die

ASSUME ProcAssumption == Nobody \notin Proc
ASSUME LegacyAssumption == HasLegacy \in BOOLEAN
ASSUME BoundAssumption == {MaxRecords, MaxCommands, MaxFaults} \subseteq Nat

VARIABLES
  scalars,   \* the rows of scalars
  history,   \* the rows of history: the id each rebalance minted
  mode,      \* whether a process has opened the store
  todo,      \* the statements its current operation has left
  flock,     \* holder of the rebalance lock
  view,      \* what its last load() read: the count, the history's length (-1: not yet)
  records, commands, faults,  \* how much of each bound is used
  commanded, \* the status last commanded.  Only properties read these:
  clean      \* no import was cut short or overlapped another

procVars == <<mode, todo, flock, view>>
countVars == <<records, commands, faults>>
vars == <<scalars, history, procVars, countVars, commanded, clean>>

-----------------------------------------------------------------------------
Key == {"status", "token_id", "rebalance_count"}

\* _DEFAULT_STATE, with the id that studio.toml bootstraps the agent with.
Default == [status |-> "paused", token_id |-> 0, rebalance_count |-> 0]

\* The legacy file of an agent that has rebalanced once.
Legacy == [status |-> "active", token_id |-> 1, rebalance_count |-> 1]

Current == [k \in Key |-> IF k \in DOMAIN scalars THEN scalars[k] ELSE Default[k]]

Set(key, value) == [table |-> "scalars", key |-> key, val |-> value]
Add(id) == [table |-> "history", key |-> "entry", val |-> id]

Import == <<Set("status", Legacy.status), Set("token_id", Legacy.token_id),
            Set("rebalance_count", Legacy.rebalance_count), Add(Legacy.token_id)>>

NoView == [count |-> 0, rows |-> -1]

Init ==
  /\ scalars = <<>> /\ history = <<>>
  /\ mode = [p \in Proc |-> "down"]
  /\ todo = [p \in Proc |-> <<>>]
  /\ flock = Nobody
  /\ view = [p \in Proc |-> NoView]
  /\ records = 0 /\ commands = 0 /\ faults = 0
  /\ commanded = IF HasLegacy THEN Legacy.status ELSE Default.status
  /\ clean = TRUE

-----------------------------------------------------------------------------
Importing == {p \in Proc : mode[p] = "importing"}

\* Mutation of Open: the database is not looked at.
OpenUnguarded(p) ==
  /\ mode[p] = "down"
  /\ IF HasLegacy
     THEN mode' = [mode EXCEPT ![p] = "importing"] /\ todo' = [todo EXCEPT ![p] = Import]
     ELSE mode' = [mode EXCEPT ![p] = "ready"] /\ UNCHANGED todo
  /\ clean' = (clean /\ Importing = {})
  /\ UNCHANGED <<scalars, history, flock, view, countVars, commanded>>

\* _store() on first use: it imports into a database without scalars.
Open(p) ==
  /\ mode[p] = "down"
  /\ IF HasLegacy /\ DOMAIN scalars = {}
     THEN mode' = [mode EXCEPT ![p] = "importing"] /\ todo' = [todo EXCEPT ![p] = Import]
     ELSE mode' = [mode EXCEPT ![p] = "ready"] /\ UNCHANGED todo
  /\ clean' = (clean /\ Importing = {})
  /\ UNCHANGED <<scalars, history, flock, view, countVars, commanded>>

\* The next statement of p executes and commits.
Execute(p) ==
  /\ todo[p] # <<>>
  /\ LET s == Head(todo[p])
         last == Tail(todo[p]) = <<>>
     IN  /\ IF s.table = "scalars"
            THEN /\ scalars' = [k \in DOMAIN scalars \cup {s.key} |->
                               IF k = s.key THEN s.val ELSE scalars[k]]
                 /\ UNCHANGED history
            ELSE history' = Append(history, s.val) /\ UNCHANGED scalars
         /\ todo' = [todo EXCEPT ![p] = Tail(@)]
         /\ mode' = IF last THEN [mode EXCEPT ![p] = "ready"] ELSE mode
         /\ flock' = IF last /\ flock = p THEN Nobody ELSE flock
         /\ commanded' = IF s.key = "status" /\ mode[p] = "ready" /\ flock # p
                         THEN s.val ELSE commanded
  /\ UNCHANGED <<view, countVars, clean>>

\* Mutation of Interrupt: the lock is a file that outlives its process.
InterruptHoldingLock(p) ==
  /\ faults < MaxFaults /\ faults' = faults + 1
  /\ todo' = [todo EXCEPT ![p] = <<>>]
  /\ clean' = (clean /\ p \notin Importing)
  /\ UNCHANGED <<scalars, history, flock, records, commands, commanded>>

\* The rest of the operation is lost; what it executed stays.
Interrupt(p) ==
  /\ faults < MaxFaults /\ faults' = faults + 1
  /\ todo' = [todo EXCEPT ![p] = <<>>]
  /\ flock' = IF flock = p THEN Nobody ELSE flock
  /\ clean' = (clean /\ p \notin Importing)
  /\ UNCHANGED <<scalars, history, records, commands, commanded>>

\* A statement raises.  _store() does not cache a failed import: the next use tries again.
Raise(p) ==
  /\ todo[p] # <<>>
  /\ Interrupt(p)
  /\ mode' = IF p \in Importing THEN [mode EXCEPT ![p] = "down"] ELSE mode
  /\ UNCHANGED view

\* The process dies, and is started again.
Crash(p) ==
  /\ mode[p] # "down"
  /\ Interrupt(p)
  /\ mode' = [mode EXCEPT ![p] = "down"]
  /\ view' = [view EXCEPT ![p] = NoView]

-----------------------------------------------------------------------------
(* What an open store is used for. *)

Idle(p) == mode[p] = "ready" /\ todo[p] = <<>>

Do(p, statements) == todo' = [todo EXCEPT ![p] = statements]

\* Statements that write the whole record s, in the order of its keys.
SetAll(s) == <<Set("status", s.status), Set("token_id", s.token_id),
               Set("rebalance_count", s.rebalance_count)>>

\* Mutation of Command: the record is read and written back whole, as the legacy
\* JSON state was.
CommandWholeRecord(p, status) ==
  /\ Idle(p) /\ commands < MaxCommands /\ commands' = commands + 1
  /\ Do(p, SetAll([Current EXCEPT !.status = status]))
  /\ UNCHANGED <<scalars, history, mode, flock, view, records, faults, commanded, clean>>

\* activate() and pause().
Command(p, status) ==
  /\ Idle(p) /\ commands < MaxCommands /\ commands' = commands + 1
  /\ Do(p, <<Set("status", status)>>)
  /\ UNCHANGED <<scalars, history, mode, flock, view, records, faults, commanded, clean>>

Minted == Current.token_id + 1

\* Mutations of Record: it writes back the record it read; it appends to the history first.
RecordWholeRecord(p) ==
  /\ Idle(p) /\ records < MaxRecords /\ records' = records + 1
  /\ flock = Nobody /\ flock' = p
  /\ Do(p, SetAll([Current EXCEPT !.token_id = Minted, !.rebalance_count = @ + 1])
           \o <<Add(Minted)>>)
  /\ UNCHANGED <<scalars, history, mode, view, commands, faults, commanded, clean>>
RecordHistoryFirst(p) ==
  /\ Idle(p) /\ records < MaxRecords /\ records' = records + 1
  /\ flock = Nobody /\ flock' = p
  /\ Do(p, <<Add(Minted), Set("token_id", Minted),
             Set("rebalance_count", Current.rebalance_count + 1)>>)
  /\ UNCHANGED <<scalars, history, mode, view, commands, faults, commanded, clean>>

\* A rebalance has minted the next NFT: it reads the totals and records them, under
\* the flock, by _update and then append_history.
Record(p) ==
  /\ Idle(p) /\ records < MaxRecords /\ records' = records + 1
  /\ flock = Nobody /\ flock' = p
  /\ Do(p, <<Set("token_id", Minted), Set("rebalance_count", Current.rebalance_count + 1),
             Add(Minted)>>)
  /\ UNCHANGED <<scalars, history, mode, view, commands, faults, commanded, clean>>

\* Mutation of LoadScalars: the scalars are read after the history.
LoadScalarsLast(p) ==
  /\ mode[p] = "ready"
  /\ view' = [view EXCEPT ![p].count = Current.rebalance_count]
  /\ UNCHANGED <<scalars, history, mode, todo, flock, countVars, commanded, clean>>

\* load(): a SELECT of the scalars, then one of the history.
LoadScalars(p) ==
  /\ mode[p] = "ready"
  /\ view' = [view EXCEPT ![p] = [count |-> Current.rebalance_count, rows |-> -1]]
  /\ UNCHANGED <<scalars, history, mode, todo, flock, countVars, commanded, clean>>

LoadHistory(p) ==
  /\ mode[p] = "ready" /\ view[p].rows = -1
  /\ view' = [view EXCEPT ![p].rows = Len(history)]
  /\ UNCHANGED <<scalars, history, mode, todo, flock, countVars, commanded, clean>>

Next ==
  \E p \in Proc :
    \/ Open(p) \/ Execute(p) \/ Raise(p) \/ Crash(p)
    \/ \E status \in {"active", "paused"} : Command(p, status)
    \/ Record(p) \/ LoadScalars(p) \/ LoadHistory(p)

Spec == Init /\ [][Next]_vars

-----------------------------------------------------------------------------
(* Properties. *)

\* The variables have their types, and whoever holds the flock has something to write.
TypeOK ==
  /\ DOMAIN scalars \subseteq Key /\ Current \in
       [status : {"active", "paused"}, token_id : Nat, rebalance_count : Nat]
  /\ history \in Seq(Nat)
  /\ mode \in [Proc -> {"down", "importing", "ready"}]
  /\ \A p \in Proc : Len(todo[p]) <= Len(Import)
  /\ flock \in Proc \cup {Nobody} /\ (flock # Nobody => todo[flock] # <<>>)
  /\ view \in [Proc -> [count : Nat, rows : Nat \cup {-1}]]
  /\ {records, commands, faults} \subseteq Nat
  /\ commanded \in {"active", "paused"} /\ clean \in BOOLEAN

\* Unless an import was interrupted or overlapped, a process that has opened the store
\* finds the legacy state in it, once, below what was recorded since.
CleanImportComplete ==
  clean /\ HasLegacy /\ Importing = {} /\ (\E p \in Proc : mode[p] = "ready") =>
    /\ history # <<>> /\ history[1] = Legacy.token_id
    /\ \A i \in DOMAIN history : history[i] = Legacy.token_id => i = 1
    /\ Current.rebalance_count >= Legacy.rebalance_count

\* A pause or activation stays in force until the next one, whatever a rebalance
\* of another process records meanwhile.
CommandKept ==
  clean /\ Importing = {} /\ (\E p \in Proc : mode[p] = "ready")
    => Current.status = commanded

\* The managed NFT and the count never go back: no process writes what it read before
\* another wrote.
TokenNeverGoesBack ==
  [][clean' => /\ Current'.token_id >= Current.token_id
               /\ Current'.rebalance_count >= Current.rebalance_count]_vars

\* load() is not one snapshot, yet as it reads the history last, it never shows more
\* than the entry being appended, and those that faults lost, fewer than the count.
LoadShowsHistory ==
  \A p \in Proc : clean /\ view[p].rows # -1 =>
    view[p].count <= view[p].rows + 1 + faults

\* In the database too the token is recorded before the history entry that names it: what
\* a crash can lose is the entry, never the id of the NFT that holds the funds.
TokenBeforeHistory ==
  clean => \A i \in DOMAIN history : history[i] <= Current.token_id

\* Every process that has opened the store finds the legacy state in it, once.
ImportedOnce ==
  HasLegacy /\ (\E p \in Proc : mode[p] = "ready") =>
    /\ Cardinality({i \in DOMAIN history : history[i] = Legacy.token_id}) = 1
    /\ Current.token_id >= Legacy.token_id

=============================================================================
