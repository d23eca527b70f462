--------------------------- MODULE SellerProofs ---------------------------
(***************************************************************************)
(* The safety of SellerCore's deliveries, for any jobs, notifications and  *)
(* faults.  The inductive invariant Inv says, job by job, how the          *)
(* deliveries relate to _inflight, to the chain and to the storage; a job  *)
(* that is adrift is exempt from what its lost submit can break.           *)
(***************************************************************************)
EXTENDS Seller, FiniteSetTheorems, TLAPS

-----------------------------------------------------------------------------
(* The inductive invariant. *)

Types ==
  /\ chain \in [Job -> OnChain]
  /\ mempool \in Seq(Job \X Nat)
  /\ store \in [Job -> Nat]
  /\ inflight \subseteq Job
  /\ runs \in [Job -> Seq(Run)]
  /\ ask \in [Job -> {"none", "asking", "ok", "unsure", "permanent"}]
  /\ lists \subseteq SUBSET Job
  /\ adrift \subseteq Job

\* A task works on a delivery under way and holds its job's slot; a job has one at most.
Claimed(j) ==
  \A n \in DOMAIN runs[j] : runs[j][n].awaited = TRUE => j \in inflight /\ runs[j][n].at \in Active
Single(j) ==
  \A n, k \in DOMAIN runs[j] : runs[j][n].awaited = TRUE /\ runs[j][k].awaited = TRUE => n = k

\* A delivery under way has its task.
Watched(j) ==
  j \notin adrift => \A n \in DOMAIN runs[j] : runs[j][n].at \in Active => runs[j][n].awaited = TRUE

\* Work is for signed jobs, and so is an answer that lets it start at once.
Quoted(j) ==
  j \notin Signed => /\ ask[j] # "ok"
                     /\ \A n \in DOMAIN runs[j] : runs[j][n].at \notin Working

\* A success is on chain.  After it, either a stale "ok" finds the slot still taken, with no
\* task left to free it, or there is no stale "ok" and no other delivery gets past verify.
Settled(j) ==
  j \notin adrift => \A n \in DOMAIN runs[j] :
    /\ runs[j][n].at \in {"landed", "done"} => chain[j].st = "submitted"
    /\ runs[j][n].at = "done" =>
         \/ j \in inflight /\ \A k \in DOMAIN runs[j] : runs[j][k].awaited = FALSE
         \/ ask[j] # "ok" /\ \A k \in DOMAIN runs[j] : runs[j][k].at \notin Working

\* What a delivery sends, and what the chain took, is what the storage holds.
Anchored(j) ==
  j \notin adrift =>
    /\ \A n \in DOMAIN runs[j] :
         /\ runs[j][n].at \in {"send", "wait", "landed"} => store[j] = n
         /\ runs[j][n].at \in {"upload", "send"} => chain[j].st # "submitted"
    /\ chain[j].st = "submitted" => store[j] = chain[j].by

JobInv(j) == Claimed(j) /\ Single(j) /\ Watched(j) /\ Quoted(j) /\ Settled(j) /\ Anchored(j)

\* A submit in the mempool is there once, and its delivery waits for it.
Pending ==
  \A i \in DOMAIN mempool : mempool[i][1] \notin adrift =>
    /\ mempool[i][2] \in DOMAIN runs[mempool[i][1]]
    /\ runs[mempool[i][1]][mempool[i][2]].at = "wait"
    /\ \A k \in DOMAIN mempool : mempool[i] = mempool[k] => i = k

Inv == Types /\ (\A j \in Job : JobInv(j)) /\ Pending

-----------------------------------------------------------------------------
(* What the operators do to one job. *)

\* A job whose own state does not change keeps its part of the invariant.
LEMMA Frame ==
  ASSUME NEW j \in Job, JobInv(j),
         runs'[j] = runs[j], chain'[j] = chain[j], store'[j] = store[j], ask'[j] = ask[j],
         j \in inflight' <=> j \in inflight, j \in adrift => j \in adrift'
  PROVE  JobInv(j)'
<1>1. Claimed(j)' /\ Single(j)'
  BY DEF JobInv, Claimed, Single
<1>2. Watched(j)' /\ Quoted(j)'
  BY DEF JobInv, Watched, Quoted
<1>3. Settled(j)'
  BY DEF JobInv, Settled
<1>4. Anchored(j)'
  BY DEF JobInv, Anchored
<1> QED BY <1>1, <1>2, <1>3, <1>4 DEF JobInv

\* Delivery n of j goes to a place; nothing else of runs changes.
Moves(j, n, place, awaited) ==
  /\ runs' \in [Job -> Seq(Run)]
  /\ \A i \in Job : i # j => runs'[i] = runs[i]
  /\ DOMAIN runs'[j] = DOMAIN runs[j]
  /\ \A k \in DOMAIN runs[j] : k # n => runs'[j][k] = runs[j][k]
  /\ runs'[j][n].at = place /\ runs'[j][n].awaited = awaited

LEMMA Update ==
  ASSUME Types, NEW j \in Job, NEW n \in DOMAIN runs[j], NEW r \in Run,
         runs' = [runs EXCEPT ![j] = [runs[j] EXCEPT ![n] = r]]
  PROVE  Moves(j, n, r.at, r.awaited)
<1>1. runs[j] \in Seq(Run) /\ runs'[j] = [runs[j] EXCEPT ![n] = r]
  BY DEF Types
<1>2. runs'[j] \in Seq(Run)
  BY <1>1
<1>3. \A i \in Job : i # j => runs'[i] = runs[i]
  BY DEF Types
<1>4. runs' \in [Job -> Seq(Run)]
  BY <1>2 DEF Types
<1> QED BY <1>1, <1>3, <1>4 DEF Moves

\* Go keeps the task of the delivery it moves.
LEMMA GoEffect ==
  ASSUME Types, NEW j \in Job, NEW n \in DOMAIN runs[j], NEW place \in Active, Go(j, n, place)
  PROVE  Moves(j, n, place, runs[j][n].awaited)
<1> DEFINE r == [at |-> place, awaited |-> runs[j][n].awaited]
<1>1. runs[j] \in Seq(Run) /\ runs[j][n] \in Run
  BY DEF Types
<1>2. [runs[j][n] EXCEPT !.at = place] = r
  BY <1>1 DEF Run
<1>3. runs' = [runs EXCEPT ![j] = [runs[j] EXCEPT ![n] = r]]
  BY <1>2 DEF Go, Types
<1>4. r \in Run
  BY <1>1 DEF Run
<1>5. r.at = place /\ r.awaited = runs[j][n].awaited
  OBVIOUS
<1> HIDE DEF r
<1>6. Moves(j, n, r.at, r.awaited)
  BY <1>3, <1>4, Update
<1> QED BY <1>5, <1>6

\* Finish ends the task as well.
LEMMA FinishEffect ==
  ASSUME Types, NEW j \in Job, NEW n \in DOMAIN runs[j],
         NEW result \in {"done", "skipped", "failed"}, Finish(j, n, result)
  PROVE  /\ Moves(j, n, result, FALSE)
         /\ ask' = ask /\ lists' = lists /\ inflight' \subseteq inflight
         /\ \A i \in Job : i # j => (i \in inflight' <=> i \in inflight)
         /\ j \in inflight /\ j \notin inflight' =>
              runs[j][n].awaited = TRUE /\ result = "failed"
<1> DEFINE r == [at |-> result, awaited |-> FALSE]
<1>1. runs' = [runs EXCEPT ![j] = [runs[j] EXCEPT ![n] = r]] /\ r \in Run
  BY DEF Finish, Types, Run
<1>2. Moves(j, n, r.at, r.awaited)
  BY <1>1, Update
<1>3. runs[j][n].awaited \in BOOLEAN
  <2>1. runs[j][n] \in Run
    BY DEF Types
  <2> QED BY <2>1 DEF Run
<1>4. /\ ask' = ask /\ lists' = lists /\ inflight' \subseteq inflight
      /\ \A i \in Job : i # j => (i \in inflight' <=> i \in inflight)
      /\ j \in inflight /\ j \notin inflight' =>
           runs[j][n].awaited = TRUE /\ result = "failed"
  BY <1>3 DEF Finish
<1> QED BY <1>2, <1>4

\* A spawn adds one delivery, with its task, to the jobs that are not in flight.
Spawns(jobs, at) ==
  /\ inflight' = inflight \cup jobs
  /\ runs' \in [Job -> Seq(Run)]
  /\ \A j \in Job : j \notin jobs \/ j \in inflight => runs'[j] = runs[j]
  /\ \A j \in Job : j \in jobs /\ j \notin inflight =>
       /\ DOMAIN runs'[j] = DOMAIN runs[j] \cup {Len(runs[j]) + 1}
       /\ \A n \in DOMAIN runs[j] : n # Len(runs[j]) + 1 /\ runs'[j][n] = runs[j][n]
       /\ runs'[j][Len(runs[j]) + 1].at = at
       /\ runs'[j][Len(runs[j]) + 1].awaited = TRUE

\* ... which is what _spawn_job does.
LEMMA SpawnEffect ==
  ASSUME Types, NEW jobs \in SUBSET Job, NEW at \in {"verify", "work"}, SpawnJobs(jobs, at)
  PROVE  Spawns(jobs, at)
<1> DEFINE r == [at |-> at, awaited |-> TRUE]
<1>1. r \in Run
  BY DEF Run, Active, Working, InThread
<1>2. inflight' = inflight \cup jobs
  BY DEF SpawnJobs
<1>3. runs' = [j \in Job |-> IF j \in jobs \ inflight THEN Append(runs[j], r) ELSE runs[j]]
  BY DEF SpawnJobs
<1>4. r.at = at /\ r.awaited = TRUE
  OBVIOUS
<1> HIDE DEF r
<1>5. runs' \in [Job -> Seq(Run)]
  BY <1>1, <1>3 DEF Types
<1>6. \A j \in Job : j \notin jobs \/ j \in inflight => runs'[j] = runs[j]
  BY <1>3
<1>7. ASSUME NEW j \in Job, j \in jobs, j \notin inflight
      PROVE  /\ DOMAIN runs'[j] = DOMAIN runs[j] \cup {Len(runs[j]) + 1}
             /\ \A n \in DOMAIN runs[j] : n # Len(runs[j]) + 1 /\ runs'[j][n] = runs[j][n]
             /\ runs'[j][Len(runs[j]) + 1] = r
  <2>1. runs'[j] = Append(runs[j], r) /\ runs[j] \in Seq(Run)
    BY <1>3, <1>7 DEF Types
  <2> QED BY <1>1, <2>1
<1> QED BY <1>2, <1>4, <1>5, <1>6, <1>7 DEF Spawns

\* The mempool stays, and no delivery that waits moves, but for jobs that are adrift.
LEMMA PendingFrame ==
  ASSUME Types, Pending, mempool' = mempool, adrift \subseteq adrift',
         \A j \in Job : j \notin adrift' => \A n \in DOMAIN runs[j] :
           runs[j][n].at = "wait" => n \in DOMAIN runs'[j] /\ runs'[j][n].at = "wait"
  PROVE  Pending'
<1>1. \A i \in DOMAIN mempool : mempool[i][1] \in Job
  BY DEF Types
<1> QED BY <1>1 DEF Pending

-----------------------------------------------------------------------------
(* Every action preserves the invariant. *)

\* The invariant holds at the start.
LEMMA InitInv == Init => Inv
<1> SUFFICES ASSUME Init PROVE Inv
  OBVIOUS
<1>1. Types
  BY DEF Init, Types, OnChain
<1>2. ASSUME NEW j \in Job PROVE JobInv(j)
  <2>1. runs[j] = <<>> /\ ask[j] = "none" /\ chain[j].st = "open"
    BY DEF Init
  <2>2. DOMAIN runs[j] = {}
    BY <2>1
  <2> QED BY <2>1, <2>2 DEF JobInv, Claimed, Single, Watched, Quoted, Settled, Anchored
<1>3. Pending
  BY DEF Init, Pending
<1> QED BY <1>1, <1>2, <1>3 DEF Inv

\* The steps of the handlers and sweeps that spawn nothing.
LEMMA AskStep ==
  ASSUME Inv, UNCHANGED <<chain, mempool, store, inflight, runs, adrift>>,
         ask' \in [Job -> {"none", "asking", "ok", "unsure", "permanent"}],
         \A j \in Job : ask'[j] = "ok" => ask[j] = "ok" \/ j \in Funded \cap Signed,
         lists' \subseteq SUBSET Job
  PROVE  Inv'
<1>1. Types'
  BY DEF Inv, Types
<1>2. ASSUME NEW j \in Job PROVE JobInv(j)'
  <2>1. JobInv(j)
    BY DEF Inv
  <2>2. Claimed(j)' /\ Single(j)' /\ Watched(j)'
    BY <2>1 DEF JobInv, Claimed, Single, Watched
  <2>3. Anchored(j)'
    BY <2>1 DEF JobInv, Anchored
  <2>4. Quoted(j)'
    BY <2>1 DEF JobInv, Quoted
  <2>5. Settled(j)'
    <3>1. chain[j].st = "submitted" => (ask'[j] = "ok" => ask[j] = "ok")
      BY DEF Funded
    <3> QED BY <2>1, <3>1 DEF JobInv, Settled
  <2> QED BY <2>2, <2>3, <2>4, <2>5 DEF JobInv
<1>3. Pending'
  BY DEF Inv, Pending
<1> QED BY <1>1, <1>2, <1>3 DEF Inv

\* A delivery goes on to work, to check, or, if the job is funded, to upload.
LEMMA GoStep ==
  ASSUME Inv, NEW j \in Job, NEW n \in DOMAIN runs[j], NEW place \in {"work", "check", "upload"},
         Go(j, n, place), UNCHANGED <<chain, mempool, store, inflight, ask, lists, adrift>>,
         \/ runs[j][n].at = "verify" /\ j \in Funded \cap Signed
         \/ runs[j][n].at \in {"work", "check"},
         place = "upload" => j \in Funded
  PROVE  Inv'
<1>1. Moves(j, n, place, runs[j][n].awaited) /\ Types /\ JobInv(j)
  BY GoEffect DEF Inv, Active, Working, InThread
<1>2. Types'
  BY <1>1 DEF Types, Moves
<1>3. ASSUME NEW i \in Job, i # j PROVE JobInv(i)'
  BY <1>1, <1>3, Frame DEF Inv, Moves
<1>4. /\ runs[j][n].at \in Active /\ place \in Working /\ place \in Active
      /\ place \notin {"send", "wait", "landed", "done"}
      /\ runs[j][n].at \in Working \/ j \in Funded \cap Signed
  BY DEF Active, Working, InThread
<1>5. Claimed(j)' /\ Single(j)'
  BY <1>1, <1>4 DEF JobInv, Claimed, Single, Moves
<1>6. Watched(j)'
  BY <1>1, <1>4 DEF JobInv, Watched, Moves
<1>7. Quoted(j)'
  BY <1>1, <1>4 DEF JobInv, Quoted, Moves
<1>8. Settled(j)'
  <2> SUFFICES ASSUME j \notin adrift PROVE Settled(j)'
    BY DEF Settled
  <2>1. runs[j][n].awaited = TRUE
    BY <1>1, <1>4 DEF JobInv, Watched
  <2>2. ASSUME NEW k \in DOMAIN runs[j], runs[j][k].at = "done"
        PROVE  \/ j \in inflight' /\ \A m \in DOMAIN runs'[j] : runs'[j][m].awaited = FALSE
               \/ ask'[j] # "ok" /\ \A m \in DOMAIN runs'[j] : runs'[j][m].at \notin Working
    <3>1. chain[j].st = "submitted"
      BY <1>1, <2>2 DEF JobInv, Settled
    <3>2. j \notin Funded
      BY <3>1 DEF Funded
    <3> QED BY <1>1, <1>4, <2>1, <2>2, <3>2 DEF JobInv, Settled
  <2>3. \A k \in DOMAIN runs'[j] : runs'[j][k].at \in {"landed", "done"} =>
          k \in DOMAIN runs[j] /\ runs[j][k].at \in {"landed", "done"} /\ runs'[j][k] = runs[j][k]
    BY <1>1, <1>4 DEF Moves
  <2> QED BY <1>1, <2>2, <2>3 DEF JobInv, Settled
<1>9. Anchored(j)'
  <2>1. place = "upload" => chain[j].st # "submitted"
    BY DEF Funded
  <2> QED BY <1>1, <1>4, <2>1 DEF JobInv, Anchored, Moves
<1>10. Pending'
  BY <1>1, PendingFrame DEF Inv, Moves
<1> QED BY <1>2, <1>3, <1>5, <1>6, <1>7, <1>8, <1>9, <1>10 DEF Inv, JobInv

\* A delivery ends; if it waited for a submit, that is adrift from now on.
LEMMA FinishStep ==
  ASSUME Inv, NEW j \in Job, NEW n \in DOMAIN runs[j], NEW result \in {"done", "skipped", "failed"},
         Finish(j, n, result), UNCHANGED <<chain, mempool, store>>,
         runs[j][n].at \in Active, result = "done" => runs[j][n].at = "landed",
         adrift \subseteq adrift', adrift' \subseteq Job,
         runs[j][n].at = "wait" => j \in adrift'
  PROVE  Inv'
<1>1. /\ Moves(j, n, result, FALSE) /\ Types /\ JobInv(j)
      /\ ask' = ask /\ lists' = lists /\ inflight' \subseteq inflight
      /\ \A i \in Job : i # j => (i \in inflight' <=> i \in inflight)
      /\ j \in inflight /\ j \notin inflight' => runs[j][n].awaited = TRUE /\ result = "failed"
  BY FinishEffect DEF Inv
<1>2. Types'
  BY <1>1 DEF Types, Moves
<1>3. ASSUME NEW i \in Job, i # j PROVE JobInv(i)'
  BY <1>1, <1>3, Frame DEF Inv, Moves
<1>4. result \notin Active /\ result \notin Working
  BY DEF Active, Working, InThread
<1>5. \A k \in DOMAIN runs[j] : runs[j][k].awaited \in BOOLEAN
  <2>1. \A k \in DOMAIN runs[j] : runs[j][k] \in Run
    BY <1>1 DEF Types
  <2> QED BY <2>1 DEF Run
<1>6. Claimed(j)' /\ Single(j)'
  <2>1. Claimed(j)'
    <3> SUFFICES ASSUME NEW k \in DOMAIN runs[j], runs'[j][k].awaited = TRUE
                 PROVE j \in inflight' /\ runs'[j][k].at \in Active
      BY <1>1 DEF Claimed, Moves
    <3>1. k # n /\ runs[j][k].awaited = TRUE /\ runs'[j][k].at = runs[j][k].at
      BY <1>1 DEF Moves
    <3>2. j \in inflight /\ runs[j][n].awaited # TRUE /\ runs[j][k].at \in Active
      BY <1>1, <3>1 DEF JobInv, Claimed, Single
    <3> QED BY <1>1, <3>1, <3>2
  <2>2. Single(j)'
    BY <1>1 DEF JobInv, Single, Moves
  <2> QED BY <2>1, <2>2
<1>7. Watched(j)' /\ Quoted(j)'
  BY <1>1, <1>4 DEF JobInv, Watched, Quoted, Moves
<1>8. Settled(j)'
  <2> SUFFICES ASSUME j \notin adrift', NEW k \in DOMAIN runs[j]
               PROVE  /\ runs'[j][k].at \in {"landed", "done"} => chain[j].st = "submitted"
                      /\ runs'[j][k].at = "done" =>
                           \/ j \in inflight' /\ \A m \in DOMAIN runs[j] : runs'[j][m].awaited = FALSE
                           \/ ask[j] # "ok" /\ \A m \in DOMAIN runs[j] : runs'[j][m].at \notin Working
    BY <1>1 DEF Settled, Moves
  <2>1. Settled(j) /\ j \notin adrift
    BY <1>1 DEF JobInv
  <2>2. runs'[j][k].at \in {"landed", "done"} => chain[j].st = "submitted"
    BY <1>1, <2>1 DEF Moves, Settled
  <2>3. CASE k = n /\ result = "done"
    <3>1. runs[j][n].awaited = TRUE /\ j \in inflight
      BY <1>1, <2>1 DEF JobInv, Watched, Claimed
    <3>2. j \in inflight'
      BY <1>1, <2>3, <3>1
    <3>3. \A m \in DOMAIN runs[j] : m # n => runs[j][m].awaited = FALSE
      BY <1>1, <1>5, <3>1 DEF JobInv, Single
    <3>4. \A m \in DOMAIN runs[j] : runs'[j][m].awaited = FALSE
      BY <1>1, <3>3 DEF Moves
    <3> QED BY <2>2, <3>2, <3>4
  <2>4. CASE k # n /\ runs[j][k].at = "done"
    <3>1. CASE j \in inflight /\ \A m \in DOMAIN runs[j] : runs[j][m].awaited = FALSE
      <4>1. j \in inflight'
        BY <1>1, <3>1
      <4>2. \A m \in DOMAIN runs[j] : runs'[j][m].awaited = FALSE
        BY <1>1, <3>1 DEF Moves
      <4> QED BY <2>2, <4>1, <4>2
    <3>2. CASE ask[j] # "ok" /\ \A m \in DOMAIN runs[j] : runs[j][m].at \notin Working
      <4>1. \A m \in DOMAIN runs[j] : runs'[j][m].at \notin Working
        BY <1>1, <1>4, <3>2 DEF Moves
      <4> QED BY <2>2, <3>2, <4>1
    <3> QED BY <2>1, <2>4, <3>1, <3>2 DEF Settled
  <2>5. runs'[j][k].at = "done" =>
          \/ k = n /\ result = "done"
          \/ k # n /\ runs[j][k].at = "done"
    BY <1>1 DEF Moves
  <2> QED BY <2>2, <2>3, <2>4, <2>5
<1>9. Anchored(j)'
  BY <1>1 DEF JobInv, Anchored, Moves
<1>10. Pending'
  <2>1. \A i \in Job : i \notin adrift' => \A k \in DOMAIN runs[i] :
          runs[i][k].at = "wait" => k \in DOMAIN runs'[i] /\ runs'[i][k].at = "wait"
    BY <1>1 DEF Moves
  <2> QED BY <1>1, <2>1, PendingFrame DEF Inv
<1> QED BY <1>2, <1>3, <1>6, <1>7, <1>8, <1>9, <1>10 DEF Inv, JobInv

\* The upload replaces what an earlier delivery stored: none that still counts.
LEMMA UploadStep ==
  ASSUME Inv, NEW j \in Job, NEW n \in DOMAIN runs[j], Upload(j, n)
  PROVE  Inv'
<1>1. /\ Moves(j, n, "send", runs[j][n].awaited) /\ Types /\ JobInv(j)
      /\ UNCHANGED <<chain, mempool, inflight, ask, lists, adrift>>
      /\ runs[j][n].at = "upload" /\ store' = [store EXCEPT ![j] = n] /\ n \in Nat
  <2>1. runs[j] \in Seq(Run) /\ DOMAIN runs[j] \subseteq Nat
    BY DEF Inv, Types
  <2> QED BY <2>1, GoEffect DEF Inv, Upload, At, Active, Working, InThread
<1>2. Types'
  BY <1>1 DEF Types, Moves
<1>3. ASSUME NEW i \in Job, i # j PROVE JobInv(i)'
  BY <1>1, <1>3, Frame DEF Inv, Moves, Types
<1>4. "send" \in Active /\ "send" \in Working /\ "upload" \in Active /\ "upload" \in Working
  BY DEF Active, Working, InThread
<1>5. Claimed(j)' /\ Single(j)'
  BY <1>1, <1>4 DEF JobInv, Claimed, Single, Moves
<1>6. Watched(j)' /\ Quoted(j)'
  BY <1>1, <1>4 DEF JobInv, Watched, Quoted, Moves
<1>7. j \notin adrift => runs[j][n].awaited = TRUE /\ chain[j].st # "submitted"
  BY <1>1, <1>4 DEF JobInv, Watched, Anchored
<1>8. Settled(j)'
  <2>1. j \notin adrift => \A k \in DOMAIN runs[j] : runs'[j][k].at \notin {"landed", "done"}
    BY <1>1, <1>7 DEF JobInv, Settled, Moves
  <2> QED BY <1>1, <2>1 DEF Settled, Moves
<1>9. Anchored(j)'
  <2>1. \A k \in DOMAIN runs[j] : j \notin adrift /\ runs[j][k].at \in {"send", "wait", "landed"} => k = n
    <3>1. \A k \in DOMAIN runs[j] : runs[j][k].at \in {"send", "wait", "landed"} => runs[j][k].at \in Active
      BY DEF Active, Working, InThread
    <3> QED BY <1>1, <1>4, <3>1 DEF JobInv, Watched, Single
  <2>2. store'[j] = n
    BY <1>1 DEF Types
  <2> QED BY <1>1, <1>7, <2>1, <2>2 DEF Anchored, Moves, JobInv
<1>10. Pending'
  BY <1>1, PendingFrame DEF Inv, Moves
<1> QED BY <1>2, <1>3, <1>5, <1>6, <1>8, <1>9, <1>10 DEF Inv, JobInv

\* The submit is broadcast: no earlier one of this delivery is in the mempool.
LEMMA SendStep ==
  ASSUME Inv, NEW j \in Job, NEW n \in DOMAIN runs[j], Send(j, n)
  PROVE  Inv'
<1>1. /\ Moves(j, n, "wait", runs[j][n].awaited) /\ Types /\ JobInv(j)
      /\ UNCHANGED <<chain, store, inflight, ask, lists, adrift>>
      /\ runs[j][n].at = "send" /\ mempool' = Append(mempool, <<j, n>>) /\ n \in Nat
  <2>1. runs[j] \in Seq(Run) /\ DOMAIN runs[j] \subseteq Nat
    BY DEF Inv, Types
  <2> QED BY <2>1, GoEffect DEF Inv, Send, At, Active, Working, InThread
<1>2. mempool' \in Seq(Job \X Nat)
  BY <1>1 DEF Types
<1>3. Types'
  BY <1>1, <1>2 DEF Types, Moves
<1>4. ASSUME NEW i \in Job, i # j PROVE JobInv(i)'
  BY <1>1, <1>4, Frame DEF Inv, Moves
<1>5. "send" \in Active /\ "send" \in Working /\ "wait" \in Active /\ "wait" \in Working
  BY DEF Active, Working, InThread
<1>6. Claimed(j)' /\ Single(j)'
  BY <1>1, <1>5 DEF JobInv, Claimed, Single, Moves
<1>7. Watched(j)' /\ Quoted(j)'
  BY <1>1, <1>5 DEF JobInv, Watched, Quoted, Moves
<1>8. Settled(j)'
  <2>1. j \notin adrift => chain[j].st # "submitted"
    BY <1>1 DEF JobInv, Anchored
  <2>2. j \notin adrift => \A k \in DOMAIN runs[j] : runs'[j][k].at \notin {"landed", "done"}
    BY <1>1, <2>1 DEF JobInv, Settled, Moves
  <2> QED BY <1>1, <2>2 DEF Settled, Moves
<1>9. Anchored(j)'
  BY <1>1 DEF JobInv, Anchored, Moves
<1>10. Pending'
  <2>1. /\ \A i \in DOMAIN mempool : mempool[i] \in Job \X Nat
        /\ DOMAIN mempool' = DOMAIN mempool \cup {Len(mempool) + 1}
        /\ \A i \in DOMAIN mempool : i # Len(mempool) + 1 /\ mempool'[i] = mempool[i]
        /\ mempool'[Len(mempool) + 1] = <<j, n>>
    <3>1. mempool \in Seq(Job \X Nat) /\ <<j, n>> \in Job \X Nat
      BY <1>1 DEF Types
    <3>2. DOMAIN mempool = 1..Len(mempool) /\ Len(mempool) \in Nat
      BY <3>1
    <3>3. Len(mempool') = Len(mempool) + 1 /\ DOMAIN mempool' = 1..(Len(mempool) + 1)
      BY <1>1, <3>1
    <3>4. DOMAIN mempool' = DOMAIN mempool \cup {Len(mempool) + 1}
      BY <3>2, <3>3
    <3>5. /\ \A i \in DOMAIN mempool : i # Len(mempool) + 1 /\ mempool'[i] = mempool[i]
          /\ mempool'[Len(mempool) + 1] = <<j, n>>
      BY <1>1, <3>1, <3>2
    <3>6. \A i \in DOMAIN mempool : mempool[i] \in Job \X Nat
      BY <3>1
    <3> QED BY <3>4, <3>5, <3>6
  <2>2. ASSUME NEW i \in DOMAIN mempool, mempool[i][1] \notin adrift
        PROVE  /\ mempool[i] # <<j, n>>
               /\ mempool[i][2] \in DOMAIN runs'[mempool[i][1]]
               /\ runs'[mempool[i][1]][mempool[i][2]].at = "wait"
    <3>1. /\ mempool[i][1] \in Job /\ mempool[i][2] \in DOMAIN runs[mempool[i][1]]
          /\ runs[mempool[i][1]][mempool[i][2]].at = "wait"
      BY <2>1, <2>2 DEF Inv, Pending
    <3>2. mempool[i] # <<j, n>>
      BY <1>1, <3>1
    <3> QED BY <1>1, <3>1, <3>2 DEF Moves
  <2>3. \A i, k \in DOMAIN mempool : mempool[i][1] \notin adrift /\ mempool[i] = mempool[k] => i = k
    BY DEF Inv, Pending
  <2>4. n \in DOMAIN runs'[j] /\ runs'[j][n].at = "wait"
    BY <1>1 DEF Moves
  <2> SUFFICES ASSUME NEW i \in DOMAIN mempool', mempool'[i][1] \notin adrift
               PROVE  /\ mempool'[i][2] \in DOMAIN runs'[mempool'[i][1]]
                      /\ runs'[mempool'[i][1]][mempool'[i][2]].at = "wait"
                      /\ \A k \in DOMAIN mempool' : mempool'[i] = mempool'[k] => i = k
    BY <1>1 DEF Pending
  <2>5. CASE i \in DOMAIN mempool
    <3>1. mempool'[i] = mempool[i]
      BY <2>1, <2>5
    <3> QED BY <2>1, <2>2, <2>3, <2>5, <3>1
  <2>6. CASE i = Len(mempool) + 1
    <3>1. mempool'[i] = <<j, n>> /\ mempool'[i][1] = j /\ mempool'[i][2] = n
      BY <2>1, <2>6
    <3>2. ASSUME NEW k \in DOMAIN mempool, mempool[k] = <<j, n>> PROVE FALSE
      <4>1. mempool[k][1] \notin adrift
        BY <2>6, <3>1, <3>2
      <4> QED BY <2>2, <3>2, <4>1
    <3> QED BY <2>1, <2>4, <2>6, <3>1, <3>2
  <2> QED BY <2>1, <2>5, <2>6
<1> QED BY <1>3, <1>4, <1>6, <1>7, <1>8, <1>9, <1>10 DEF Inv, JobInv

\* The task gives up on a submit, which runs on without it.
LEMMA DetachStep ==
  ASSUME Inv, NEW j \in Job, NEW n \in DOMAIN runs[j], runs[j][n].awaited = TRUE,
         runs' = [runs EXCEPT ![j][n] = [at |-> runs[j][n].at, awaited |-> FALSE]],
         inflight' = inflight \ {j},
         adrift' = adrift \cup {j}, UNCHANGED <<chain, mempool, store, ask, lists>>
  PROVE  Inv'
<1> DEFINE r == [at |-> runs[j][n].at, awaited |-> FALSE]
<1>1. Types /\ JobInv(j) /\ runs[j] \in Seq(Run) /\ runs[j][n] \in Run
  BY DEF Inv, Types
<1>2. runs[j][n].at \in Active \cup {"done", "skipped", "failed"}
  BY <1>1 DEF Run
<1>3. runs' = [runs EXCEPT ![j] = [runs[j] EXCEPT ![n] = r]] /\ r \in Run
  BY <1>1, <1>2 DEF Types, Run
<1>4. r.at = runs[j][n].at /\ r.awaited = FALSE
  OBVIOUS
<1> HIDE DEF r
<1>5. Moves(j, n, r.at, r.awaited)
  BY <1>1, <1>3, Update
<1>6. Moves(j, n, runs[j][n].at, FALSE)
  BY <1>4, <1>5
<1>7. Types'
  BY <1>1, <1>6 DEF Types, Moves
<1>8. ASSUME NEW i \in Job, i # j PROVE JobInv(i)'
  BY <1>6, <1>8, Frame DEF Inv, Moves
<1>9. Claimed(j)' /\ Single(j)'
  <2>1. \A k \in DOMAIN runs[j] : runs'[j][k].awaited # TRUE
    BY <1>1, <1>6 DEF JobInv, Single, Moves
  <2> QED BY <1>6, <2>1 DEF Claimed, Single, Moves
<1>10. Quoted(j)'
  BY <1>1, <1>6 DEF JobInv, Quoted, Moves
<1>11. Watched(j)' /\ Settled(j)' /\ Anchored(j)'
  BY DEF Watched, Settled, Anchored
<1>12. Pending'
  <2>1. \A i \in Job : i \notin adrift' => \A k \in DOMAIN runs[i] :
          runs[i][k].at = "wait" => k \in DOMAIN runs'[i] /\ runs'[i][k].at = "wait"
    BY <1>6 DEF Moves
  <2> QED BY <1>1, <2>1, PendingFrame DEF Inv
<1> QED BY <1>7, <1>8, <1>9, <1>10, <1>11, <1>12 DEF Inv, JobInv

\* New deliveries: work starts at once only where the handler has an "ok".
LEMMA SpawnStep ==
  ASSUME Inv, NEW jobs \in SUBSET Job, NEW at \in {"verify", "work"}, SpawnJobs(jobs, at),
         UNCHANGED <<chain, mempool, store, adrift>>, lists' \subseteq SUBSET Job,
         ask' \in [Job -> {"none", "asking", "ok", "unsure", "permanent"}],
         \A j \in Job : ask'[j] \in {ask[j], "none"},
         at = "work" => \A j \in jobs : ask[j] = "ok"
  PROVE  Inv'
<1>1. Types /\ Spawns(jobs, at)
  <2>1. Types
    BY DEF Inv
  <2> QED BY <2>1, SpawnEffect
<1>2. Types'
  BY <1>1 DEF Types, Spawns
<1>3. /\ at \in Active /\ at \notin {"upload", "send", "wait", "landed", "done"}
      /\ "verify" \notin Working
  BY DEF Active, Working, InThread
<1>4. ASSUME NEW j \in Job, j \notin jobs \/ j \in inflight PROVE JobInv(j)'
  <2>1. JobInv(j) /\ runs'[j] = runs[j] /\ ask'[j] \in {ask[j], "none"}
        /\ (j \in inflight' <=> j \in inflight)
    BY <1>1, <1>4 DEF Inv, Spawns
  <2>2. Claimed(j)' /\ Single(j)' /\ Watched(j)'
    BY <2>1 DEF JobInv, Claimed, Single, Watched
  <2>3. Quoted(j)' /\ Anchored(j)'
    BY <2>1 DEF JobInv, Quoted, Anchored
  <2>4. Settled(j)'
    BY <2>1 DEF JobInv, Settled
  <2> QED BY <2>2, <2>3, <2>4 DEF JobInv
<1>5. ASSUME NEW j \in Job, j \in jobs, j \notin inflight PROVE JobInv(j)'
  <2> DEFINE m == Len(runs[j]) + 1
  <2>1. /\ JobInv(j) /\ j \in inflight' /\ DOMAIN runs'[j] = DOMAIN runs[j] \cup {m}
        /\ \A n \in DOMAIN runs[j] : n # m /\ runs'[j][n] = runs[j][n]
        /\ runs'[j][m].at = at /\ runs'[j][m].awaited = TRUE
        /\ ask'[j] \in {ask[j], "none"} /\ (at = "work" => ask[j] = "ok")
    BY <1>1, <1>5 DEF Inv, Spawns
  <2> HIDE DEF m
  <2>2. \A n \in DOMAIN runs[j] : runs[j][n].awaited # TRUE
    BY <1>5, <2>1 DEF JobInv, Claimed
  <2>3. Claimed(j)' /\ Single(j)'
    BY <1>3, <2>1, <2>2 DEF Claimed, Single
  <2>4. Watched(j)'
    BY <2>1 DEF JobInv, Watched
  <2>5. Quoted(j)'
    BY <1>3, <2>1 DEF JobInv, Quoted
  <2>6. Settled(j)'
    <3> SUFFICES ASSUME j \notin adrift, NEW k \in DOMAIN runs'[j]
                 PROVE  /\ runs'[j][k].at \in {"landed", "done"} => chain[j].st = "submitted"
                        /\ runs'[j][k].at = "done" =>
                             ask'[j] # "ok" /\ \A l \in DOMAIN runs'[j] : runs'[j][l].at \notin Working
      BY DEF Settled
    <3>1. CASE k = m
      BY <1>3, <2>1, <3>1
    <3>2. CASE k \in DOMAIN runs[j] /\ runs[j][k].at = "done"
      <4>1. /\ chain[j].st = "submitted" /\ ask[j] # "ok"
            /\ \A l \in DOMAIN runs[j] : runs[j][l].at \notin Working
        BY <1>5, <2>1, <3>2 DEF JobInv, Settled
      <4>2. at = "verify" /\ ask'[j] # "ok"
        BY <2>1, <4>1
      <4> QED BY <1>3, <2>1, <4>1, <4>2
    <3>3. CASE k \in DOMAIN runs[j] /\ runs[j][k].at # "done"
      BY <2>1, <3>3 DEF JobInv, Settled
    <3> QED BY <2>1, <3>1, <3>2, <3>3
  <2>7. Anchored(j)'
    BY <1>3, <2>1 DEF JobInv, Anchored
  <2> QED BY <2>3, <2>4, <2>5, <2>6, <2>7 DEF JobInv
<1>6. Pending'
  <2>1. ASSUME NEW j \in Job, NEW n \in DOMAIN runs[j]
        PROVE  n \in DOMAIN runs'[j] /\ runs'[j][n] = runs[j][n]
    BY <1>1 DEF Spawns
  <2> QED BY <1>1, <2>1, PendingFrame DEF Inv
<1> QED BY <1>2, <1>4, <1>5, <1>6 DEF Inv

\* A restart ends every delivery; a submit that one waited for is adrift.
LEMMA RestartStep ==
  ASSUME Inv, Restart
  PROVE  Inv'
<1>1. /\ Types /\ UNCHANGED <<chain, mempool, store>>
      /\ inflight' = {} /\ ask' = [j \in Job |-> "none"] /\ lists' = {}
      /\ adrift' = adrift \cup {j \in Job : \E n \in DOMAIN runs[j] : At(j, n, "wait")}
  BY DEF Inv, Restart
<1> DEFINE ended == [at |-> "failed", awaited |-> FALSE]
<1>2. runs' = [j \in Job |-> [n \in DOMAIN runs[j] |->
                 IF runs[j][n].at \in Active THEN ended ELSE runs[j][n]]]
  BY DEF Restart
<1>3. ended \in Run /\ ended.at = "failed" /\ ended.awaited = FALSE
  BY DEF Run
<1> HIDE DEF ended
<1>4. ASSUME NEW j \in Job
      PROVE  /\ runs'[j] \in Seq(Run) /\ DOMAIN runs'[j] = DOMAIN runs[j]
             /\ \A n \in DOMAIN runs[j] :
                  \/ runs[j][n].at \in Active /\ runs'[j][n] = ended
                  \/ runs[j][n].at \notin Active /\ runs'[j][n] = runs[j][n]
  <2>1. runs[j] \in Seq(Run) /\ DOMAIN runs[j] = 1..Len(runs[j]) /\ Len(runs[j]) \in Nat
    BY <1>1 DEF Types
  <2>2. runs'[j] = [n \in 1..Len(runs[j]) |->
                      IF runs[j][n].at \in Active THEN ended ELSE runs[j][n]]
    BY <1>2, <2>1
  <2>3. \A n \in 1..Len(runs[j]) : (IF runs[j][n].at \in Active THEN ended ELSE runs[j][n]) \in Run
    BY <1>3, <2>1
  <2>4. runs'[j] \in [1..Len(runs[j]) -> Run]
    BY <2>2, <2>3
  <2>5. runs'[j] \in Seq(Run)
    BY <2>1, <2>4
  <2> QED BY <2>1, <2>2, <2>5
<1>5. Types'
  <2>1. runs' \in [Job -> Seq(Run)]
    BY <1>2, <1>4
  <2> QED BY <1>1, <2>1 DEF Types
<1>6. ASSUME NEW j \in Job PROVE JobInv(j)'
  <2>1. JobInv(j) /\ ask'[j] = "none" /\ j \notin inflight' /\ (j \in adrift => j \in adrift')
        /\ "failed" \notin Active
    BY <1>1 DEF Inv, Active, Working, InThread
  <2>2. \A n \in DOMAIN runs[j] : runs'[j][n].at \notin Active
    BY <1>3, <1>4, <2>1
  <2>3. \A n \in DOMAIN runs[j] : runs'[j][n].awaited # TRUE
    BY <1>3, <1>4, <2>1 DEF JobInv, Claimed
  <2>4. Claimed(j)' /\ Single(j)' /\ Watched(j)'
    BY <1>4, <2>2, <2>3 DEF Claimed, Single, Watched
  <2>5. \A n \in DOMAIN runs[j] : runs'[j][n].at \notin Working
    BY <2>2 DEF Active
  <2>6. Quoted(j)'
    BY <1>4, <2>1, <2>5 DEF Quoted
  <2>7. Settled(j)'
    BY <1>1, <1>3, <1>4, <2>1, <2>5 DEF JobInv, Settled
  <2>8. Anchored(j)'
    BY <1>1, <1>3, <1>4, <2>1 DEF JobInv, Anchored
  <2> QED BY <2>4, <2>6, <2>7, <2>8 DEF JobInv
<1>7. Pending'
  <2>1. \A j \in Job : j \notin adrift' => \A n \in DOMAIN runs[j] : runs[j][n].at # "wait"
    BY <1>1 DEF At
  <2> QED BY <1>1, <2>1, PendingFrame DEF Inv
<1> QED BY <1>5, <1>6, <1>7 DEF Inv

\* A job is funded.
LEMMA FundStep ==
  ASSUME Inv, NEW j \in Job, Fund(j)
  PROVE  Inv'
<1>1. Types /\ UNCHANGED <<mempool, store, inflight, runs, ask, lists, adrift>>
      /\ chain[j] \in OnChain /\ chain[j].st = "open"
  BY DEF Inv, Types, Fund, memVars
<1>2. /\ chain' \in [Job -> OnChain] /\ \A i \in Job : i # j => chain'[i] = chain[i]
      /\ chain'[j].st = "funded"
  BY <1>1 DEF Fund, Types, OnChain
<1>3. Types'
  BY <1>1, <1>2 DEF Types
<1>4. ASSUME NEW i \in Job, i # j PROVE JobInv(i)'
  BY <1>1, <1>2, <1>4, Frame DEF Inv
<1>5. JobInv(j)'
  <2>1. JobInv(j)
    BY DEF Inv
  <2>2. Claimed(j)' /\ Single(j)' /\ Watched(j)' /\ Quoted(j)'
    BY <1>1, <2>1 DEF JobInv, Claimed, Single, Watched, Quoted
  <2>3. Settled(j)'
    BY <1>1, <1>2, <2>1 DEF JobInv, Settled
  <2>4. Anchored(j)'
    BY <1>1, <1>2, <2>1 DEF JobInv, Anchored
  <2> QED BY <2>2, <2>3, <2>4 DEF JobInv
<1>6. Pending'
  BY <1>1, PendingFrame DEF Inv
<1> QED BY <1>3, <1>4, <1>5, <1>6 DEF Inv

\* What the receipt does to the delivery that waits for it.
LEMMA ReceiptEffect ==
  ASSUME Types, NEW j \in Job, NEW n, NEW outcome \in {"landed", "reverted"},
         At(j, n, "wait"), Receipt(j, n, outcome)
  PROVE  \/ /\ runs[j][n].awaited = TRUE
            /\ Moves(j, n, outcome, TRUE)
         \/ /\ runs[j][n].awaited = FALSE
            /\ Moves(j, n, IF outcome = "landed" THEN "done" ELSE "failed", FALSE)
<1>1. n \in DOMAIN runs[j] /\ runs[j][n].at = "wait"
  BY DEF At
<1>2. runs[j][n] \in Run
  BY <1>1 DEF Types
<1>3. runs[j][n].awaited \in BOOLEAN
  BY <1>2 DEF Run
<1> DEFINE place == IF runs[j][n].awaited THEN outcome ELSE Result[outcome]
           r == [at |-> place, awaited |-> runs[j][n].awaited]
<1>4. runs' = [runs EXCEPT ![j][n].at = place]
  BY DEF Receipt
<1>5. [runs[j][n] EXCEPT !.at = place] = r
  BY <1>2 DEF Run
<1>6. runs' = [runs EXCEPT ![j] = [runs[j] EXCEPT ![n] = r]]
  BY <1>4, <1>5 DEF Types
<1>7. Result[outcome] = IF outcome = "landed" THEN "done" ELSE "failed"
  BY DEF Result
<1>8. place \in Active \cup {"done", "skipped", "failed"}
  BY <1>7 DEF Active, Working, InThread
<1>9. r \in Run /\ r.at = place /\ r.awaited = runs[j][n].awaited
  BY <1>3, <1>8 DEF Run
<1> HIDE DEF r
<1>10. Moves(j, n, r.at, r.awaited)
  BY <1>1, <1>6, <1>9, Update
<1> HIDE DEF place
<1>11. Moves(j, n, place, runs[j][n].awaited)
  BY <1>9, <1>10
<1>12. CASE runs[j][n].awaited = TRUE
  <2>1. place = outcome
    BY <1>12 DEF place
  <2> QED BY <1>11, <1>12, <2>1
<1>13. CASE runs[j][n].awaited = FALSE
  <2>1. place = IF outcome = "landed" THEN "done" ELSE "failed"
    BY <1>7, <1>13 DEF place
  <2> QED BY <1>11, <1>13, <2>1
<1> QED BY <1>3, <1>12, <1>13

\* A submit is mined.
LEMMA MineStep ==
  ASSUME Inv, Mine
  PROVE  Inv'
<1>1. /\ Types /\ mempool # <<>> /\ mempool \in Seq(Job \X Nat)
      /\ mempool' = Tail(mempool) /\ UNCHANGED <<store, inflight, ask, lists, adrift>>
  BY DEF Inv, Types, Mine, Receipt
<1> PICK j \in Job, n \in Nat : Head(mempool) = <<j, n>>
  <2>1. Head(mempool) \in Job \X Nat
    BY <1>1
  <2> QED BY <2>1
<1>2. /\ 1 \in DOMAIN mempool /\ mempool[1] = <<j, n>>
      /\ mempool' \in Seq(Job \X Nat)
      /\ \A i \in DOMAIN mempool' : i + 1 \in DOMAIN mempool /\ mempool'[i] = mempool[i + 1] /\ i \in Nat \ {0}
  <2>1. mempool[1] = Head(mempool)
    BY <1>1
  <2>3. Len(mempool) \in Nat /\ Len(mempool) # 0 /\ DOMAIN mempool = 1..Len(mempool)
    BY <1>1
  <2>4. /\ mempool' \in Seq(Job \X Nat) /\ DOMAIN mempool' = 1..(Len(mempool) - 1)
        /\ \A i \in 1..(Len(mempool) - 1) : mempool'[i] = mempool[i + 1]
    BY <1>1, <2>3
  <2> QED BY <1>1, <2>1, <2>3, <2>4
<1>3. PICK outcome \in {"landed", "reverted"} :
        /\ Receipt(j, n, outcome)
        /\ outcome = "landed" => /\ chain[j].st = "funded"
                                 /\ chain' = [chain EXCEPT ![j] = [st |-> "submitted", by |-> n]]
        /\ outcome = "reverted" => chain' = chain
  BY DEF Mine
<1>4. JobInv(j)
  BY <1>2 DEF Inv
<1>5. j \notin adrift => At(j, n, "wait")
  BY <1>2 DEF Inv, Pending, At
<1>6. CASE ~At(j, n, "wait")
  <2>1. j \in adrift /\ runs' = runs
    BY <1>3, <1>5, <1>6 DEF Receipt
  <2>2. chain' \in [Job -> OnChain] /\ \A i \in Job : i # j => chain'[i] = chain[i]
    <3>1. [st |-> "submitted", by |-> n] \in OnChain
      BY DEF OnChain
    <3> QED BY <1>1, <1>3, <3>1 DEF Types
  <2>3. Types'
    BY <1>1, <1>2, <2>1, <2>2 DEF Types
  <2>4. ASSUME NEW i \in Job, i # j PROVE JobInv(i)'
    BY <1>1, <2>1, <2>2, <2>4, Frame DEF Inv
  <2>5. JobInv(j)'
    <3>1. Claimed(j)' /\ Single(j)' /\ Quoted(j)'
      BY <1>1, <1>4, <2>1 DEF JobInv, Claimed, Single, Quoted
    <3>2. Watched(j)' /\ Settled(j)' /\ Anchored(j)'
      BY <1>1, <2>1 DEF Watched, Settled, Anchored
    <3> QED BY <3>1, <3>2 DEF JobInv
  <2>6. Pending'
    <3> SUFFICES ASSUME NEW i \in DOMAIN mempool', mempool'[i][1] \notin adrift
                 PROVE  /\ mempool'[i][2] \in DOMAIN runs[mempool'[i][1]]
                        /\ runs[mempool'[i][1]][mempool'[i][2]].at = "wait"
                        /\ \A k \in DOMAIN mempool' : mempool'[i] = mempool'[k] => i = k
      BY <1>1, <2>1 DEF Pending
    <3>1. i + 1 \in DOMAIN mempool /\ mempool'[i] = mempool[i + 1] /\ i \in Nat
      BY <1>2
    <3>2. \A k \in DOMAIN mempool' : mempool'[i] = mempool'[k] => i = k
      <4> TAKE k \in DOMAIN mempool'
      <4>1. k + 1 \in DOMAIN mempool /\ mempool'[k] = mempool[k + 1] /\ k \in Nat
        BY <1>2
      <4>2. mempool[i + 1] = mempool[k + 1] => i + 1 = k + 1
        BY <3>1, <4>1 DEF Inv, Pending
      <4> QED BY <3>1, <4>1, <4>2
    <3> QED BY <3>1, <3>2 DEF Inv, Pending
  <2> QED BY <2>3, <2>4, <2>5, <2>6 DEF Inv
<1>7. CASE At(j, n, "wait")
  <2> DEFINE kept == runs[j][n].awaited
             place == IF kept = TRUE THEN outcome
                      ELSE IF outcome = "landed" THEN "done" ELSE "failed"
  <2>1. Moves(j, n, place, kept) /\ kept \in BOOLEAN
    <3>1. Receipt(j, n, outcome) /\ Types
      BY <1>1, <1>3
    <3>2. \/ runs[j][n].awaited = TRUE /\ Moves(j, n, outcome, TRUE)
          \/ /\ runs[j][n].awaited = FALSE
             /\ Moves(j, n, IF outcome = "landed" THEN "done" ELSE "failed", FALSE)
      BY <1>7, <3>1, ReceiptEffect
    <3> QED BY <3>2
  <2>2. n \in DOMAIN runs[j] /\ runs[j][n].at = "wait"
    BY <1>7 DEF At
  <2>3. /\ chain' \in [Job -> OnChain] /\ \A i \in Job : i # j => chain'[i] = chain[i]
        /\ outcome = "landed" => chain'[j].st = "submitted" /\ chain'[j].by = n
        /\ outcome = "reverted" => chain'[j] = chain[j]
    <3> DEFINE anchored == [st |-> "submitted", by |-> n]
    <3>1. anchored \in OnChain /\ anchored.st = "submitted" /\ anchored.by = n
      BY DEF OnChain
    <3> HIDE DEF anchored
    <3>2. outcome = "landed" => chain' = [chain EXCEPT ![j] = anchored]
      BY <1>3 DEF anchored
    <3> QED BY <1>1, <1>3, <3>1, <3>2 DEF Types
  <2>4. /\ kept = TRUE => place = outcome /\ place \in Active /\ place \in Working
        /\ kept # TRUE => place \notin Active /\ place \notin Working
        /\ "wait" \in Active /\ "wait" \in Working
    BY DEF Active, Working, InThread
  <2> HIDE DEF kept, place
  <2>5. Types'
    BY <1>1, <1>2, <2>1, <2>3 DEF Types, Moves
  <2>6. ASSUME NEW i \in Job, i # j PROVE JobInv(i)'
    BY <1>1, <2>1, <2>3, <2>6, Frame DEF Inv, Moves
  <2>7. Claimed(j)' /\ Single(j)'
    BY <1>1, <1>4, <2>1, <2>2, <2>4 DEF JobInv, Claimed, Single, Moves, kept
  <2>8. Quoted(j)'
    BY <1>1, <1>4, <2>1, <2>2, <2>4 DEF JobInv, Quoted, Moves
  <2>9. ASSUME j \notin adrift
        PROVE  /\ kept = TRUE /\ store[j] = n
               /\ \A k \in DOMAIN runs[j] : k # n => runs[j][k].at \notin Active /\ runs[j][k].at # "done"
    <3>1. kept = TRUE /\ store[j] = n
      BY <1>4, <2>2, <2>4, <2>9 DEF JobInv, Watched, Anchored, kept
    <3>2. ASSUME NEW k \in DOMAIN runs[j], k # n PROVE runs[j][k].at \notin Active
      BY <1>4, <2>2, <2>9, <3>1, <3>2 DEF JobInv, Watched, Single, kept
    <3>3. ASSUME NEW k \in DOMAIN runs[j], runs[j][k].at = "done" PROVE FALSE
      BY <1>4, <2>2, <2>4, <2>9, <3>1, <3>3 DEF JobInv, Settled, kept
    <3> QED BY <3>1, <3>2, <3>3
  <2>10. Watched(j)'
    BY <1>1, <1>4, <2>1, <2>4 DEF JobInv, Watched, Moves
  <2>11. Settled(j)'
    <3> SUFFICES ASSUME j \notin adrift, NEW k \in DOMAIN runs[j]
                 PROVE  /\ runs'[j][k].at = "landed" => chain'[j].st = "submitted"
                        /\ runs'[j][k].at # "done"
      BY <1>1, <2>1 DEF Settled, Moves
    <3>1. CASE k = n
      BY <2>1, <2>3, <2>4, <2>9, <3>1 DEF Moves
    <3>2. CASE k # n
      <4>1. runs'[j][k].at \notin {"landed", "done"}
        BY <2>1, <2>9, <3>2 DEF Moves, Active, Working, InThread
      <4> QED BY <4>1
    <3> QED BY <3>1, <3>2
  <2>12. Anchored(j)'
    <3> SUFFICES ASSUME j \notin adrift PROVE Anchored(j)'
      BY <1>1 DEF Anchored
    <3>1. place = outcome
      BY <2>4, <2>9
    <3>2. \A k \in DOMAIN runs[j] : k # n => runs'[j][k].at \notin {"upload", "send", "wait", "landed"}
      BY <2>1, <2>9 DEF Moves, Active, Working, InThread
    <3>3. chain'[j].st = "submitted" => store[j] = chain'[j].by
      BY <1>4, <2>3, <2>9 DEF JobInv, Anchored
    <3> QED BY <1>1, <2>1, <2>9, <3>1, <3>2, <3>3 DEF Anchored, Moves
  <2>13. Pending'
    <3> SUFFICES ASSUME NEW i \in DOMAIN mempool', mempool'[i][1] \notin adrift
                 PROVE  /\ mempool'[i][2] \in DOMAIN runs'[mempool'[i][1]]
                        /\ runs'[mempool'[i][1]][mempool'[i][2]].at = "wait"
                        /\ \A k \in DOMAIN mempool' : mempool'[i] = mempool'[k] => i = k
      BY <1>1 DEF Pending
    <3>1. /\ i + 1 \in DOMAIN mempool /\ mempool'[i] = mempool[i + 1] /\ i \in Nat \ {0}
          /\ mempool[i + 1] \in Job \X Nat
      BY <1>1, <1>2
    <3>2. \A k \in DOMAIN mempool' : mempool'[i] = mempool'[k] => i = k
      <4> TAKE k \in DOMAIN mempool'
      <4>1. k + 1 \in DOMAIN mempool /\ mempool'[k] = mempool[k + 1] /\ k \in Nat
        BY <1>2
      <4>2. mempool[i + 1] = mempool[k + 1] => i + 1 = k + 1
        BY <3>1, <4>1 DEF Inv, Pending
      <4> QED BY <3>1, <4>1, <4>2
    <3>3. mempool[i + 1] # mempool[1]
      <4>1. i + 1 # 1 /\ mempool[i + 1][1] \notin adrift
        BY <3>1
      <4>2. mempool[i + 1] = mempool[1] => i + 1 = 1
        BY <1>2, <3>1, <4>1 DEF Inv, Pending
      <4> QED BY <4>1, <4>2
    <3>4. mempool[1] = <<j, n>>
      BY <1>2
    <3>5. mempool[i + 1][1] # j \/ mempool[i + 1][2] # n
      BY <3>1, <3>3, <3>4
    <3>6. /\ mempool[i + 1][2] \in DOMAIN runs[mempool[i + 1][1]]
          /\ runs[mempool[i + 1][1]][mempool[i + 1][2]].at = "wait" /\ mempool[i + 1][1] \in Job
      BY <3>1 DEF Inv, Pending
    <3> QED BY <2>1, <3>1, <3>2, <3>5, <3>6 DEF Moves
  <2> QED BY <2>5, <2>6, <2>7, <2>8, <2>10, <2>11, <2>12, <2>13 DEF Inv, JobInv
<1> QED BY <1>6, <1>7

\* A step of one delivery.
LEMMA DeliverStep ==
  ASSUME Inv, NEW j \in Job, NEW n \in DOMAIN runs[j], Deliver(j, n)
  PROVE  Inv'
<1>1. /\ adrift \subseteq Job
      /\ {"verify", "work", "check", "upload", "send", "wait", "landed", "reverted"} \subseteq Active
  BY DEF Inv, Types, Active, Working, InThread
<1>2. CASE Verify(j, n)
  <2>1. CASE j \in Funded \cap Signed /\ Go(j, n, "work") /\ UNCHANGED <<inflight, ask, scans, lists>>
    BY <1>2, <2>1, GoStep DEF Verify, At
  <2>2. CASE j \in Funded \ Signed /\ Finish(j, n, "skipped")
    BY <1>1, <1>2, <2>2, FinishStep DEF Verify, At
  <2>3. CASE j \notin Funded /\ Finish(j, n, "failed")
    BY <1>1, <1>2, <2>3, FinishStep DEF Verify, At
  <2> QED BY <1>2, <2>1, <2>2, <2>3 DEF Verify
<1>3. CASE Work(j, n)
  BY <1>3, GoStep DEF Work, At
<1>4. CASE Check(j, n)
  <2>1. CASE j \in Funded /\ Go(j, n, "upload") /\ UNCHANGED <<inflight, ask, scans, lists>>
    BY <1>4, <2>1, GoStep DEF Check, At
  <2>2. CASE j \notin Funded /\ Finish(j, n, "failed")
    BY <1>1, <1>4, <2>2, FinishStep DEF Check, At
  <2> QED BY <1>4, <2>1, <2>2 DEF Check
<1>5. CASE Upload(j, n)
  BY <1>5, UploadStep
<1>6. CASE Send(j, n)
  BY <1>6, SendStep
<1>7. CASE Return(j, n)
  <2>1. CASE runs[j][n].at = "landed"
    <3>1. Finish(j, n, "done") /\ UNCHANGED <<chain, mempool, store, adrift>>
      BY <1>7, <2>1 DEF Return, Result
    <3> QED BY <1>1, <2>1, <3>1, FinishStep
  <2>2. CASE runs[j][n].at = "reverted"
    <3>1. Finish(j, n, "failed") /\ UNCHANGED <<chain, mempool, store, adrift>>
      BY <1>7, <2>2 DEF Return, Result
    <3> QED BY <1>1, <2>2, <3>1, FinishStep
  <2>3. runs[j][n].at \in {"landed", "reverted"}
    BY <1>7 DEF Return, Result
  <2> QED BY <2>1, <2>2, <2>3
<1>8. CASE Fail(j, n)
  <2>1. /\ runs[j][n].at \in Active /\ Finish(j, n, "failed")
        /\ adrift \subseteq adrift' /\ adrift' \subseteq Job
        /\ runs[j][n].at = "wait" => j \in adrift'
        /\ UNCHANGED <<chain, mempool, store>>
    BY <1>1, <1>8 DEF Fail, At
  <2> QED BY <2>1, FinishStep
<1>9. CASE Timeout(j, n)
  <2>1. n \in DOMAIN runs[j] /\ runs[j][n].awaited /\ UNCHANGED <<chain, mempool, store>>
    BY <1>9 DEF Timeout, Awaited
  <2>2. runs[j][n].awaited = TRUE /\ runs[j][n].at \in Active
    <3>1. runs[j][n] \in Run
      BY DEF Inv, Types
    <3>2. runs[j][n].awaited = TRUE
      BY <2>1, <3>1 DEF Run
    <3> QED BY <3>2 DEF Inv, JobInv, Claimed
  <2>3. CASE runs[j][n].at \in InThread
    <3>1. /\ runs' = [runs EXCEPT ![j][n] = [at |-> runs[j][n].at, awaited |-> FALSE]]
          /\ inflight' = inflight \ {j} /\ adrift' = adrift \cup {j} /\ UNCHANGED <<ask, lists>>
      BY <1>9, <2>3 DEF Timeout
    <3> QED BY <2>1, <2>2, <3>1, DetachStep
  <2>4. CASE runs[j][n].at \notin InThread
    <3>1. Finish(j, n, "failed") /\ adrift' = adrift /\ runs[j][n].at # "wait"
      BY <1>9, <2>4 DEF Timeout, InThread
    <3> QED BY <1>1, <2>1, <2>2, <3>1, FinishStep
  <2> QED BY <2>3, <2>4
<1> QED BY <1>2, <1>3, <1>4, <1>5, <1>6, <1>7, <1>8, <1>9 DEF Deliver

\* A step of a notification handler.
LEMMA HandlerStep ==
  ASSUME Inv, NEW j \in Job, Notify(j) \/ PreVerify(j) \/ Accept(j) \/ Reject(j)
  PROVE  Inv'
<1>1. ask \in [Job -> {"none", "asking", "ok", "unsure", "permanent"}] /\ lists \subseteq SUBSET Job
  BY DEF Inv, Types
<1>2. CASE Notify(j)
  <2>1. /\ ask' = [ask EXCEPT ![j] = "asking"]
        /\ UNCHANGED <<chain, mempool, store, inflight, runs, lists, adrift>>
    BY <1>2 DEF Notify
  <2> QED BY <1>1, <2>1, AskStep
<1>3. CASE PreVerify(j)
  <2>1. PICK answer \in {"unsure", IF j \notin Funded THEN "unsure"
                                   ELSE IF j \in Signed THEN "ok" ELSE "permanent"} :
          ask' = [ask EXCEPT ![j] = answer]
    BY <1>3 DEF PreVerify
  <2>2. answer \in {"unsure", "ok", "permanent"} /\ (answer = "ok" => j \in Funded \cap Signed)
    OBVIOUS
  <2>3. UNCHANGED <<chain, mempool, store, inflight, runs, lists, adrift>>
    BY <1>3 DEF PreVerify
  <2>4. /\ ask' \in [Job -> {"none", "asking", "ok", "unsure", "permanent"}]
        /\ \A i \in Job : ask'[i] = "ok" => ask[i] = "ok" \/ i \in Funded \cap Signed
    BY <1>1, <2>1, <2>2
  <2> QED BY <1>1, <2>3, <2>4, AskStep
<1>4. CASE Accept(j)
  <2> DEFINE at == IF ask[j] = "ok" THEN "work" ELSE "verify"
  <2>1. SpawnJobs({j}, at) /\ at \in {"verify", "work"} /\ {j} \in SUBSET Job
    BY <1>4 DEF Accept
  <2>2. at = "work" => \A i \in {j} : ask[i] = "ok"
    OBVIOUS
  <2>3. /\ UNCHANGED <<chain, mempool, store, adrift>> /\ lists' \subseteq SUBSET Job
        /\ ask' = [ask EXCEPT ![j] = "none"]
    BY <1>1, <1>4 DEF Accept
  <2>4. /\ ask' \in [Job -> {"none", "asking", "ok", "unsure", "permanent"}]
        /\ \A i \in Job : ask'[i] \in {ask[i], "none"}
    BY <1>1, <2>3
  <2> HIDE DEF at
  <2> QED BY <2>1, <2>2, <2>3, <2>4, SpawnStep
<1>5. CASE Reject(j)
  <2>1. /\ ask' = [ask EXCEPT ![j] = "none"]
        /\ UNCHANGED <<chain, mempool, store, inflight, runs, lists, adrift>>
    BY <1>5 DEF Reject
  <2> QED BY <1>1, <2>1, AskStep
<1> QED BY <1>2, <1>3, <1>4, <1>5

\* ... of a sweep, or a notification that only starts one.
LEMMA SweepStep ==
  ASSUME Inv, BareNotify \/ SweepList \/ SweepFails \/ \E list \in lists : SweepSpawn(list)
  PROVE  Inv'
<1>1. /\ ask \in [Job -> {"none", "asking", "ok", "unsure", "permanent"}] /\ lists \subseteq SUBSET Job
      /\ Funded \subseteq Job
  BY DEF Inv, Types, Funded
<1>2. CASE BareNotify \/ SweepList \/ SweepFails
  <2>1. /\ UNCHANGED <<chain, mempool, store, inflight, runs, ask, adrift>>
        /\ lists' \subseteq SUBSET Job
    BY <1>1, <1>2 DEF BareNotify, SweepList, SweepFails
  <2> QED BY <1>1, <2>1, AskStep
<1>3. ASSUME NEW list \in lists, SweepSpawn(list) PROVE Inv'
  <2>1. /\ SpawnJobs(list, "verify") /\ UNCHANGED <<chain, mempool, store, ask, adrift>>
        /\ lists' \subseteq SUBSET Job /\ list \in SUBSET Job
    BY <1>1, <1>3 DEF SweepSpawn
  <2> QED BY <1>1, <2>1, SpawnStep
<1> QED BY <1>2, <1>3

\* The invariant is inductive, with or without fairness.
THEOREM Invariance == Spec => []Inv
<1>1. ASSUME Inv, [Next]_vars PROVE Inv'
  <2>1. CASE UNCHANGED vars
    <3>1. UNCHANGED <<chain, mempool, store, inflight, runs, ask, lists, adrift>>
      BY <2>1 DEF vars, memVars
    <3>2. Types'
      BY <1>1, <3>1 DEF Inv, Types
    <3>3. ASSUME NEW j \in Job PROVE JobInv(j)'
      BY <1>1, <3>1, Frame DEF Inv
    <3>4. Pending'
      BY <1>1, <3>1, PendingFrame DEF Inv
    <3> QED BY <3>2, <3>3, <3>4 DEF Inv
  <2>2. ASSUME NEW j \in Job, Fund(j) PROVE Inv'
    BY <1>1, <2>2, FundStep
  <2>3. ASSUME NEW j \in Job, Notify(j) \/ PreVerify(j) \/ Accept(j) \/ Reject(j) PROVE Inv'
    BY <1>1, <2>3, HandlerStep
  <2>4. ASSUME NEW j \in Job, NEW n \in DOMAIN runs[j], Deliver(j, n) PROVE Inv'
    BY <1>1, <2>4, DeliverStep
  <2>5. CASE Mine
    BY <1>1, <2>5, MineStep
  <2>6. CASE Restart
    BY <1>1, <2>6, RestartStep
  <2>7. CASE BareNotify \/ SweepList \/ SweepFails \/ \E list \in lists : SweepSpawn(list)
    BY <1>1, <2>7, SweepStep
  <2> QED BY <1>1, <2>1, <2>2, <2>3, <2>4, <2>5, <2>6, <2>7 DEF Next
<1> QED BY <1>1, InitInv, PTL DEF Spec

-----------------------------------------------------------------------------
(* What it gives. *)

\* A job is delivered by one delivery at a time, however many notifications, sweeps and retries
\* interleave: _spawn_job's dedup suffices, but for the jobs with a submit nobody waits for.
THEOREM OneDelivery == Spec => []SoleDelivery
<1>1. Inv => SoleDelivery
  BY DEF Inv, JobInv, Single, Watched, SoleDelivery
<1> QED BY <1>1, Invariance, PTL

\* The slot in _inflight is never freed under a task that still works on the job.
THEOREM TasksAreClaimed == Spec => []ClaimedWhileAwaited
<1>1. ASSUME Inv PROVE ClaimedWhileAwaited
  <2> SUFFICES ASSUME NEW j \in Job, NEW n \in DOMAIN runs[j], runs[j][n].awaited
               PROVE  j \in inflight
    BY DEF ClaimedWhileAwaited, Awaited
  <2>1. runs[j][n] \in Run
    BY <1>1 DEF Inv, Types
  <2>2. runs[j][n].awaited = TRUE
    BY <2>1 DEF Run
  <2> QED BY <1>1, <2>2 DEF Inv, JobInv, Claimed
<1> QED BY <1>1, Invariance, PTL

\* After a success no stale answer or list starts the work again, restarts included.
THEOREM SuccessEndsIt == Spec => []SuccessIsFinal
<1>1. ASSUME Inv PROVE SuccessIsFinal
  <2> SUFFICES ASSUME NEW j \in Job \ adrift, NEW n \in DOMAIN runs[j], NEW k \in DOMAIN runs[j],
                      runs[j][n].at = "done"
               PROVE  runs[j][k].at \notin Working
    BY DEF SuccessIsFinal
  <2>1. runs[j][k].at \in Working => runs[j][k].awaited = TRUE
    BY <1>1 DEF Inv, JobInv, Watched, Active
  <2> QED BY <1>1, <2>1 DEF Inv, JobInv, Settled
<1> QED BY <1>1, Invariance, PTL

\* No LLM call, upload or transaction is spent on a job that lacks our signed quote.
THEOREM UnsignedIsIdle == Spec => []OnlySignedIsWorked
<1>1. Inv => OnlySignedIsWorked
  BY DEF Inv, JobInv, Quoted, OnlySignedIsWorked
<1> QED BY <1>1, Invariance, PTL

\* What is anchored on chain is what the storage serves.
THEOREM AnchoredIsServed == Spec => []DeliveredAsStored
<1>1. Inv => DeliveredAsStored
  BY DEF Inv, JobInv, Anchored, DeliveredAsStored
<1> QED BY <1>1, Invariance, PTL

-----------------------------------------------------------------------------
(* Types: how many deliveries there can be, and who refers to them. *)

\* No delivery is added.
Stays == \A j \in Job : Len(runs'[j]) = Len(runs[j])

\* Sequences over the same places have the same length.
LEMMA SameLength ==
  ASSUME NEW s \in Seq(Run), NEW t \in Seq(Run), DOMAIN s = DOMAIN t
  PROVE  Len(s) = Len(t)
<1>1. Len(s) \in Nat /\ Len(t) \in Nat /\ DOMAIN s = 1..Len(s) /\ DOMAIN t = 1..Len(t)
  OBVIOUS
<1>2. ASSUME Len(s) < Len(t) PROVE FALSE
  <2>1. Len(t) \in 1..Len(t) /\ Len(t) \notin 1..Len(s)
    BY <1>1, <1>2
  <2> QED BY <1>1, <2>1
<1>3. ASSUME Len(t) < Len(s) PROVE FALSE
  <2>1. Len(s) \in 1..Len(s) /\ Len(s) \notin 1..Len(t)
    BY <1>1, <1>3
  <2> QED BY <1>1, <2>1
<1>4. \A m, k \in Nat : m < k \/ k < m \/ m = k
  OBVIOUS
<1> QED BY <1>1, <1>2, <1>3, <1>4, Zenon

\* A delivery that moves leaves the number of deliveries.
LEMMA MovesStay ==
  ASSUME Types, NEW j \in Job, NEW n, NEW place, NEW awaited, Moves(j, n, place, awaited)
  PROVE  Stays
<1>1. ASSUME NEW i \in Job PROVE Len(runs'[i]) = Len(runs[i])
  <2>1. runs[i] \in Seq(Run) /\ runs'[i] \in Seq(Run) /\ DOMAIN runs'[i] = DOMAIN runs[i]
    BY DEF Types, Moves
  <2> QED BY <2>1, SameLength
<1> QED BY <1>1 DEF Stays

\* A step of one delivery starts none, and asks for none.
LEMMA DeliverStays ==
  ASSUME Types, faults \in Nat, NEW j \in Job, NEW n \in DOMAIN runs[j], Deliver(j, n)
  PROVE  Stays /\ faults' \in Nat /\ UNCHANGED <<ask, scans, lists, notifies>>
<1>1. {"verify", "work", "check", "upload", "send", "wait", "landed", "reverted"} \subseteq Active
  BY DEF Active, Working, InThread
<1>2. ASSUME NEW place \in Active, Go(j, n, place) PROVE Stays
  BY <1>2, GoEffect, MovesStay
<1>3. ASSUME NEW result \in {"done", "skipped", "failed"}, Finish(j, n, result)
      PROVE  Stays /\ UNCHANGED <<ask, scans, lists>>
  <2>1. Moves(j, n, result, FALSE)
    BY <1>3, FinishEffect
  <2> QED BY <1>3, <2>1, MovesStay DEF Finish
<1>4. CASE Verify(j, n)
  BY <1>1, <1>2, <1>3, <1>4 DEF Verify, countVars
<1>5. CASE Work(j, n)
  BY <1>1, <1>2, <1>5 DEF Work, countVars
<1>6. CASE Check(j, n)
  BY <1>1, <1>2, <1>3, <1>6 DEF Check, countVars
<1>7. CASE Upload(j, n)
  BY <1>1, <1>2, <1>7 DEF Upload, countVars
<1>8. CASE Send(j, n)
  BY <1>1, <1>2, <1>8 DEF Send, countVars
<1>9. CASE Return(j, n)
  <2>1. Result[runs[j][n].at] \in {"done", "skipped", "failed"}
    BY <1>9 DEF Return, Result
  <2> QED BY <1>3, <1>9, <2>1 DEF Return, countVars
<1>10. CASE Fail(j, n)
  BY <1>3, <1>10 DEF Fail
<1>11. CASE Timeout(j, n)
  <2>1. UNCHANGED countVars
    BY <1>11 DEF Timeout
  <2>2. CASE runs[j][n].at \in InThread
    <3> DEFINE r == [at |-> runs[j][n].at, awaited |-> FALSE]
    <3>1. /\ runs' = [runs EXCEPT ![j] = [runs[j] EXCEPT ![n] = r]]
          /\ UNCHANGED <<ask, scans, lists>>
      BY <1>11, <2>2 DEF Timeout, Types
    <3>2. r \in Run
      BY <2>2 DEF Run, Active, Working
    <3> HIDE DEF r
    <3>3. Moves(j, n, r.at, r.awaited)
      BY <3>1, <3>2, Update
    <3> QED BY <2>1, <3>1, <3>3, MovesStay DEF countVars
  <2>3. CASE runs[j][n].at \notin InThread
    BY <1>3, <1>11, <2>1, <2>3 DEF Timeout, countVars
  <2> QED BY <2>2, <2>3
<1> QED BY <1>4, <1>5, <1>6, <1>7, <1>8, <1>9, <1>10, <1>11 DEF Deliver

\* Neither does a receipt.
LEMMA MineStays ==
  ASSUME Types, faults \in Nat, Mine
  PROVE  Stays /\ faults' \in Nat /\ UNCHANGED <<ask, scans, lists, notifies>>
<1> DEFINE j == Head(mempool)[1]
           n == Head(mempool)[2]
<1>1. j \in Job /\ n \in Nat
  <2>1. mempool # <<>> /\ mempool \in Seq(Job \X Nat)
    BY DEF Mine, Types
  <2>2. Head(mempool) \in Job \X Nat
    BY <2>1
  <2> QED BY <2>2
<1>2. PICK outcome \in {"landed", "reverted"} : Receipt(j, n, outcome)
  BY DEF Mine
<1>3. faults' \in Nat
  BY DEF Mine
<1> HIDE DEF j, n
<1>4. UNCHANGED <<ask, scans, lists, notifies>>
  BY <1>2 DEF Receipt
<1>5. Stays
  <2>1. CASE At(j, n, "wait")
    BY <1>1, <1>2, <2>1, ReceiptEffect, MovesStay
  <2>2. CASE ~At(j, n, "wait")
    BY <1>2, <2>2 DEF Receipt, Stays
  <2> QED BY <2>1, <2>2
<1> QED BY <1>3, <1>4, <1>5

\* Who refers to a delivery: a submit in the mempool, the storage, the chain.
Named ==
  /\ \A i \in DOMAIN mempool : mempool[i][2] \in DOMAIN runs[mempool[i][1]]
  /\ \A j \in Job : store[j] = 0 \/ store[j] \in DOMAIN runs[j]
  /\ \A j \in Job : chain[j].st = "submitted" => chain[j].by \in DOMAIN runs[j]

\* Each notification can still start what it asks for: its own handler, the sweep that its
\* handler starts, and the list that this sweep gets.
Asking == {j \in Job : ask[j] # "none"}
Waiting == scans + Cardinality(lists) + Cardinality(Asking)
Started(j) == Len(runs[j])
Own(j) == IF j \in Asking THEN 1 ELSE 0
Due(j) == Started(j) + Waiting + Own(j) <= 2 * notifies

Budget ==
  /\ scans \in Nat /\ faults \in Nat /\ notifies \in 0..MaxNotifies
  /\ IsFiniteSet(lists) /\ IsFiniteSet(Asking)
  /\ \A j \in Job : Due(j)

\* Deliveries are never forgotten, so that what refers to one still does.
LEMMA NamedFrame ==
  ASSUME Types, Types', Named, \A j \in Job : Len(runs[j]) <= Len(runs'[j]),
         \A i \in DOMAIN mempool' :
            \/ mempool'[i][2] \in DOMAIN runs'[mempool'[i][1]]
            \/ \E k \in DOMAIN mempool : mempool'[i] = mempool[k],
         \A j \in Job : store'[j] = store[j] \/ store'[j] \in DOMAIN runs'[j],
         \A j \in Job : chain'[j].st = "submitted" => chain'[j] = chain[j] \/ chain'[j].by \in DOMAIN runs'[j]
  PROVE  Named'
<1>1. ASSUME NEW j \in Job PROVE DOMAIN runs[j] \subseteq DOMAIN runs'[j]
  <2>1. runs[j] \in Seq(Run) /\ runs'[j] \in Seq(Run) /\ Len(runs[j]) <= Len(runs'[j])
    BY DEF Types
  <2> QED BY <2>1
<1>2. ASSUME NEW i \in DOMAIN mempool' PROVE mempool'[i][2] \in DOMAIN runs'[mempool'[i][1]]
  <2>1. \A k \in DOMAIN mempool : mempool[k] \in Job \X Nat /\ mempool[k][1] \in Job
    BY DEF Types
  <2> QED BY <1>1, <1>2, <2>1 DEF Named
<1>3. ASSUME NEW j \in Job PROVE store'[j] = 0 \/ store'[j] \in DOMAIN runs'[j]
  BY <1>1 DEF Named
<1>4. ASSUME NEW j \in Job, chain'[j].st = "submitted" PROVE chain'[j].by \in DOMAIN runs'[j]
  BY <1>1, <1>4 DEF Named
<1> QED BY <1>2, <1>3, <1>4 DEF Named

\* Nothing is started: what is due stays.
LEMMA BudgetFrame ==
  ASSUME Budget, Stays, faults' \in Nat, UNCHANGED <<ask, scans, lists, notifies>>
  PROVE  Budget'
<1>1. Asking' = Asking
  BY DEF Asking
<1> QED BY <1>1 DEF Budget, Due, Waiting, Own, Started, Stays

\* The numbers in what is due are naturals.
LEMMA DueTypes ==
  ASSUME Types, Budget
  PROVE  /\ Cardinality(lists) \in Nat /\ Cardinality(Asking) \in Nat
         /\ scans \in Nat /\ notifies \in Nat /\ MaxNotifies \in Nat
         /\ Waiting \in Nat
         /\ \A j \in Job : Started(j) \in Nat /\ Own(j) \in {0, 1}
<1>1. Cardinality(lists) \in Nat /\ Cardinality(Asking) \in Nat
  BY FS_CardinalityType DEF Budget
<1>2. MaxNotifies \in Nat
  BY BoundAssumption
<1>3. \A j \in Job : Started(j) \in Nat
  BY DEF Types, Started
<1>4. \A j \in Job : Own(j) \in {0, 1}
  BY DEF Own
<1>5. scans \in Nat /\ notifies \in Nat
  BY <1>2 DEF Budget
<1>6. Waiting \in Nat
  BY <1>1, <1>5 DEF Waiting
<1> QED BY <1>1, <1>2, <1>3, <1>4, <1>5, <1>6

\* A sweep's list is used up by what it spawns, a handler's answer by what it spawns and the
\* sweep it starts: a spawn is one delivery of a job at most.
LEMMA SpawnLengths ==
  ASSUME Types, NEW jobs \in SUBSET Job, NEW at \in {"verify", "work"}, SpawnJobs(jobs, at)
  PROVE  \A j \in Job : /\ Started(j)' \in {Started(j), Started(j) + 1}
                        /\ j \notin jobs => Started(j)' = Started(j)
<1> SUFFICES ASSUME NEW j \in Job
             PROVE  /\ Started(j)' \in {Started(j), Started(j) + 1}
                    /\ j \notin jobs => Started(j)' = Started(j)
  OBVIOUS
<1> DEFINE r == [at |-> at, awaited |-> TRUE]
<1>1. r \in Run /\ runs[j] \in Seq(Run)
  BY DEF Run, Active, Working, InThread, Types
<1>2. runs'[j] = IF j \in jobs \ inflight THEN Append(runs[j], r) ELSE runs[j]
  BY DEF SpawnJobs
<1> HIDE DEF r
<1>3. Len(Append(runs[j], r)) = Len(runs[j]) + 1
  BY <1>1
<1> QED BY <1>2, <1>3 DEF Started

\* A notification adds two to what may be started.
LEMMA NotifyBudget ==
  ASSUME Types, Budget, NEW j \in Job, Notify(j)
  PROVE  Budget'
<1>1. /\ j \notin Asking /\ Asking' = Asking \cup {j}
      /\ UNCHANGED <<runs, scans, lists, faults>> /\ notifies' = notifies + 1 /\ notifies < MaxNotifies
  BY DEF Notify, Types, Asking
<1>2. IsFiniteSet(Asking') /\ Cardinality(Asking') = Cardinality(Asking) + 1
  BY <1>1, FS_AddElement DEF Budget
<1>3. ASSUME NEW i \in Job PROVE Due(i)'
  <2>1. /\ Waiting \in Nat /\ notifies \in Nat /\ Started(i) \in Nat /\ Own(i) \in {0, 1}
        /\ scans \in Nat /\ Cardinality(lists) \in Nat /\ Cardinality(Asking) \in Nat
    BY DueTypes
  <2>2. Waiting' = Waiting + 1
    BY <1>1, <1>2, <2>1 DEF Waiting
  <2>3. Own(i)' \in {0, 1} /\ Due(i)
    BY DEF Own, Budget
  <2>4. Own(i)' <= Own(i) + 1
    BY <2>1, <2>3
  <2>5. notifies' = notifies + 1 /\ Started(i)' = Started(i) /\ notifies' \in Nat
    BY <1>1, <2>1 DEF Started
  <2>6. Started(i) + Waiting' + Own(i)' <= 2 * notifies'
    <3>1. Started(i) + Waiting + Own(i) <= 2 * notifies
      BY <2>3 DEF Due
    <3> QED BY <2>1, <2>2, <2>3, <2>4, <2>5, <3>1
  <2> QED BY <2>5, <2>6 DEF Due
<1>4. scans' \in Nat /\ faults' \in Nat /\ notifies' \in 0..MaxNotifies
  BY <1>1, DueTypes DEF Budget
<1> QED BY <1>1, <1>2, <1>3, <1>4 DEF Budget

\* An answer of the pre-verify changes nothing about that.
LEMMA PreVerifyBudget ==
  ASSUME Types, Budget, NEW j \in Job, PreVerify(j)
  PROVE  Budget'
<1>1. PICK answer \in {"unsure", IF j \notin Funded THEN "unsure"
                                 ELSE IF j \in Signed THEN "ok" ELSE "permanent"} :
        ask' = [ask EXCEPT ![j] = answer]
  BY DEF PreVerify
<1>2. answer # "none" /\ ask[j] # "none"
  BY DEF PreVerify
<1>3. Asking' = Asking
  BY <1>1, <1>2 DEF Asking, Types
<1>4. UNCHANGED <<runs, scans, lists, faults, notifies>>
  BY DEF PreVerify, countVars
<1> QED BY <1>3, <1>4 DEF Budget, Due, Waiting, Own, Started

\* The handler's answer becomes a sweep, and perhaps a delivery of its job.
LEMMA AnswerBudget ==
  ASSUME Types, Budget, NEW j \in Job, Accept(j) \/ Reject(j)
  PROVE  Budget'
<1>1. /\ j \in Asking /\ Asking' = Asking \ {j} /\ UNCHANGED <<lists, faults, notifies>>
      /\ scans' \in {scans, scans + 1}
  BY DEF Accept, Reject, Types, Asking, countVars
<1>2. IsFiniteSet(Asking') /\ Cardinality(Asking') = Cardinality(Asking) - 1
  BY <1>1, FS_RemoveElement DEF Budget
<1>3. ASSUME NEW i \in Job
      PROVE  /\ Started(i)' \in {Started(i), Started(i) + 1}
             /\ i # j => Started(i)' = Started(i)
  <2>1. CASE Accept(j)
    <3> DEFINE at == IF ask[j] = "ok" THEN "work" ELSE "verify"
    <3>1. SpawnJobs({j}, at) /\ at \in {"verify", "work"} /\ {j} \in SUBSET Job
      BY <2>1 DEF Accept
    <3> HIDE DEF at
    <3> QED BY <3>1, SpawnLengths
  <2>2. CASE Reject(j)
    BY <2>2 DEF Reject, Started
  <2> QED BY <2>1, <2>2
<1>4. ASSUME NEW i \in Job PROVE Due(i)'
  <2>1. /\ Waiting \in Nat /\ notifies \in Nat /\ Started(i) \in Nat /\ Own(i) \in {0, 1}
        /\ scans \in Nat /\ Cardinality(lists) \in Nat /\ Cardinality(Asking) \in Nat
    BY DueTypes
  <2>2. Waiting' \in {Waiting, Waiting - 1}
    BY <1>1, <1>2, <2>1 DEF Waiting
  <2>3. /\ i = j => Own(i) = 1 /\ Own(i)' = 0
        /\ i # j => Own(i)' = Own(i)
    BY <1>1 DEF Own
  <2>4. Started(i)' + Own(i)' <= Started(i) + Own(i)
    BY <1>3, <2>1, <2>3
  <2>5. Due(i) /\ Started(i)' \in Nat /\ Own(i)' \in {0, 1}
    BY <1>3, <2>1, <2>3 DEF Budget
  <2>6. notifies' = notifies /\ notifies' \in Nat
    BY <1>1, <2>1
  <2>7. Started(i) + Waiting + Own(i) <= 2 * notifies
    BY <2>5 DEF Due
  <2>8. Started(i)' + Waiting' + Own(i)' <= 2 * notifies'
    BY <2>1, <2>2, <2>4, <2>5, <2>6, <2>7
  <2> QED BY <2>8 DEF Due
<1>5. scans' \in Nat
  BY <1>1, DueTypes
<1> QED BY <1>1, <1>2, <1>4, <1>5 DEF Budget

\* A sweep becomes a list, or nothing; a list becomes deliveries.
LEMMA SweepBudget ==
  ASSUME Types, Budget, BareNotify \/ SweepList \/ SweepFails \/ \E list \in lists : SweepSpawn(list)
  PROVE  Budget'
<1>1. Asking' = Asking
  BY DEF BareNotify, SweepList, SweepFails, SweepSpawn, Asking
<1>2. CASE BareNotify
  <2>1. /\ notifies < MaxNotifies /\ notifies' = notifies + 1 /\ scans' = scans + 1
        /\ UNCHANGED <<runs, lists, faults>>
    BY <1>2 DEF BareNotify
  <2>2. ASSUME NEW i \in Job PROVE Due(i)'
    <3>1. /\ Waiting \in Nat /\ notifies \in Nat /\ Started(i) \in Nat /\ Own(i) \in {0, 1}
          /\ scans \in Nat /\ Cardinality(lists) \in Nat /\ Cardinality(Asking) \in Nat
      BY DueTypes
    <3>2. Waiting' = Waiting + 1
      BY <1>1, <2>1, <3>1 DEF Waiting
    <3>3. Own(i)' = Own(i) /\ Due(i)
      BY <1>1 DEF Own, Budget
    <3>4. notifies' = notifies + 1 /\ Started(i)' = Started(i) /\ notifies' \in Nat
      BY <2>1, <3>1 DEF Started
    <3>5. Started(i) + Waiting' + Own(i)' <= 2 * notifies'
      <4>1. Started(i) + Waiting + Own(i) <= 2 * notifies
        BY <3>3 DEF Due
      <4> QED BY <3>1, <3>2, <3>3, <3>4, <4>1
    <3> QED BY <3>4, <3>5 DEF Due
  <2>3. scans' \in Nat /\ notifies' \in 0..MaxNotifies
    BY <2>1, DueTypes DEF Budget
  <2> QED BY <1>1, <2>1, <2>2, <2>3 DEF Budget
<1>3. CASE SweepList \/ SweepFails
  <2>1. /\ scans > 0 /\ scans' = scans - 1 /\ UNCHANGED <<runs, notifies, faults>>
        /\ lists' = lists \/ lists' = lists \cup {Funded}
    BY <1>3 DEF SweepList, SweepFails, countVars
  <2>2. IsFiniteSet(lists') /\ Cardinality(lists') \in {Cardinality(lists), Cardinality(lists) + 1}
    <3>1. CASE Funded \in lists \/ lists' = lists
      <4>1. lists' = lists
        BY <2>1, <3>1
      <4> QED BY <4>1 DEF Budget
    <3>2. CASE Funded \notin lists /\ lists' # lists
      BY <2>1, <3>2, FS_AddElement DEF Budget
    <3> QED BY <3>1, <3>2
  <2>3. ASSUME NEW i \in Job PROVE Due(i)'
    <3>1. /\ Waiting \in Nat /\ notifies \in Nat /\ Started(i) \in Nat /\ Own(i) \in {0, 1}
          /\ scans \in Nat /\ Cardinality(lists) \in Nat /\ Cardinality(Asking) \in Nat
      BY DueTypes
    <3>2. Waiting' \in {Waiting, Waiting - 1}
      BY <1>1, <2>1, <2>2, <3>1 DEF Waiting
    <3>3. Own(i)' = Own(i) /\ Due(i)
      BY <1>1 DEF Own, Budget
    <3>4. notifies' = notifies /\ Started(i)' = Started(i)
      BY <2>1 DEF Started
    <3> QED BY <3>1, <3>2, <3>3, <3>4 DEF Due
  <2>4. scans' \in Nat
    BY <2>1, DueTypes
  <2> QED BY <1>1, <2>1, <2>2, <2>3, <2>4 DEF Budget
<1>4. ASSUME NEW list \in lists, SweepSpawn(list) PROVE Budget'
  <2>1. /\ SpawnJobs(list, "verify") /\ list \in SUBSET Job /\ lists' = lists \ {list}
        /\ UNCHANGED <<scans, notifies, faults>>
    BY <1>4 DEF SweepSpawn, countVars, Types
  <2>2. IsFiniteSet(lists') /\ Cardinality(lists') = Cardinality(lists) - 1
    BY <2>1, FS_RemoveElement DEF Budget
  <2>3. ASSUME NEW i \in Job PROVE Due(i)'
    <3>1. /\ Waiting \in Nat /\ notifies \in Nat /\ Started(i) \in Nat /\ Own(i) \in {0, 1}
          /\ scans \in Nat /\ Cardinality(lists) \in Nat /\ Cardinality(Asking) \in Nat
      BY DueTypes
    <3>2. Waiting' = Waiting - 1
      BY <1>1, <2>1, <2>2, <3>1 DEF Waiting
    <3>3. Own(i)' = Own(i) /\ Due(i)
      BY <1>1 DEF Own, Budget
    <3>4. Started(i)' \in {Started(i), Started(i) + 1}
      BY <2>1, SpawnLengths
    <3> QED BY <2>1, <3>1, <3>2, <3>3, <3>4 DEF Due
  <2> QED BY <1>1, <2>1, <2>2, <2>3 DEF Budget
<1> QED BY <1>2, <1>3, <1>4

\* No step of a delivery, of the chain or of a restart touches what is due, but for forgetting it.
LEMMA BudgetStep ==
  ASSUME Types, Types', Budget, [Next]_vars
  PROVE  Budget' /\ \A j \in Job : Len(runs[j]) <= Len(runs'[j])
<1>1. \A j \in Job : Len(runs[j]) \in Nat
  BY DEF Types
<1>2. ASSUME Stays PROVE \A j \in Job : Len(runs[j]) <= Len(runs'[j])
  BY <1>1, <1>2 DEF Stays
<1>3. ASSUME NEW jobs \in SUBSET Job, NEW at \in {"verify", "work"}, SpawnJobs(jobs, at)
      PROVE  \A j \in Job : Len(runs[j]) <= Len(runs'[j])
  <2> SUFFICES ASSUME NEW j \in Job PROVE Len(runs[j]) <= Len(runs'[j])
    OBVIOUS
  <2>1. Len(runs[j]) \in Nat /\ Len(runs'[j]) \in {Len(runs[j]), Len(runs[j]) + 1}
    BY <1>1, <1>3, SpawnLengths DEF Started
  <2> QED BY <2>1
<1>4. CASE UNCHANGED vars
  BY <1>2, <1>4, BudgetFrame DEF vars, memVars, countVars, Stays, Budget
<1>5. ASSUME NEW j \in Job, Fund(j) PROVE Budget' /\ \A i \in Job : Len(runs[i]) <= Len(runs'[i])
  BY <1>2, <1>5, BudgetFrame DEF Fund, memVars, countVars, Stays, Budget
<1>6. ASSUME NEW j \in Job, Notify(j) \/ PreVerify(j) \/ Reject(j)
      PROVE  Budget' /\ \A i \in Job : Len(runs[i]) <= Len(runs'[i])
  <2>1. Stays
    BY <1>6 DEF Notify, PreVerify, Reject, Stays
  <2> QED BY <1>2, <1>6, <2>1, NotifyBudget, PreVerifyBudget, AnswerBudget
<1>7. ASSUME NEW j \in Job, Accept(j)
      PROVE  Budget' /\ \A i \in Job : Len(runs[i]) <= Len(runs'[i])
  <2> DEFINE at == IF ask[j] = "ok" THEN "work" ELSE "verify"
  <2>1. SpawnJobs({j}, at) /\ at \in {"verify", "work"} /\ {j} \in SUBSET Job
    BY <1>7 DEF Accept
  <2> HIDE DEF at
  <2> QED BY <1>3, <1>7, <2>1, AnswerBudget
<1>8. ASSUME NEW j \in Job, NEW n \in DOMAIN runs[j], Deliver(j, n)
      PROVE  Budget' /\ \A i \in Job : Len(runs[i]) <= Len(runs'[i])
  <2>1. faults \in Nat
    BY DEF Budget
  <2>2. Stays /\ faults' \in Nat /\ UNCHANGED <<ask, scans, lists, notifies>>
    BY <1>8, <2>1, DeliverStays
  <2> QED BY <1>2, <2>2, BudgetFrame
<1>9. CASE Mine
  <2>1. faults \in Nat
    BY DEF Budget
  <2>2. Stays /\ faults' \in Nat /\ UNCHANGED <<ask, scans, lists, notifies>>
    BY <1>9, <2>1, MineStays
  <2> QED BY <1>2, <2>2, BudgetFrame
<1>10. CASE BareNotify \/ SweepList \/ SweepFails
  <2>1. Stays
    BY <1>10 DEF BareNotify, SweepList, SweepFails, Stays
  <2> QED BY <1>2, <1>10, <2>1, SweepBudget
<1>11. ASSUME NEW list \in lists, SweepSpawn(list)
       PROVE  Budget' /\ \A i \in Job : Len(runs[i]) <= Len(runs'[i])
  <2>1. SpawnJobs(list, "verify") /\ list \in SUBSET Job
    BY <1>11 DEF SweepSpawn, Types
  <2> QED BY <1>3, <1>11, <2>1, SweepBudget
<1>12. CASE Restart
  <2>1. /\ ask' = [j \in Job |-> "none"] /\ scans' = 0 /\ lists' = {} /\ faults' = faults + 1
        /\ notifies' = notifies
        /\ \A j \in Job : DOMAIN runs'[j] = DOMAIN runs[j]
    BY <1>12 DEF Restart
  <2>2. Stays
    <3>1. ASSUME NEW j \in Job PROVE Len(runs'[j]) = Len(runs[j])
      <4>1. runs[j] \in Seq(Run) /\ runs'[j] \in Seq(Run) /\ DOMAIN runs'[j] = DOMAIN runs[j]
        BY <2>1 DEF Types
      <4> QED BY <4>1, SameLength
    <3> QED BY <3>1 DEF Stays
  <2>3. Asking' = {}
    BY <2>1 DEF Asking
  <2>4. IsFiniteSet({}) /\ Cardinality({}) = 0
    BY FS_EmptySet
  <2>5. Waiting' = 0
    BY <2>1, <2>3, <2>4 DEF Waiting
  <2>6. ASSUME NEW i \in Job PROVE Due(i)'
    <3>1. /\ Waiting \in Nat /\ notifies \in Nat /\ Started(i) \in Nat /\ Own(i) \in {0, 1}
      BY DueTypes
    <3>2. Started(i)' = Started(i) /\ Own(i)' = 0 /\ Due(i) /\ notifies' = notifies
      BY <2>1, <2>2, <2>3 DEF Stays, Started, Own, Budget
    <3> QED BY <2>5, <3>1, <3>2 DEF Due
  <2>7. scans' \in Nat /\ faults' \in Nat /\ notifies' \in 0..MaxNotifies
    BY <2>1 DEF Budget
  <2> QED BY <1>2, <2>1, <2>2, <2>3, <2>4, <2>6, <2>7 DEF Budget
<1> QED BY <1>4, <1>5, <1>6, <1>7, <1>8, <1>9, <1>10, <1>11, <1>12 DEF Next

\* A delivery sends, stores and anchors under its own number.
LEMMA NamedStep ==
  ASSUME Types, Types', Named, [Next]_vars, \A j \in Job : Len(runs[j]) <= Len(runs'[j])
  PROVE  Named'
<1>1. ASSUME NEW j \in Job PROVE DOMAIN runs[j] \subseteq DOMAIN runs'[j]
  <2>1. runs[j] \in Seq(Run) /\ runs'[j] \in Seq(Run) /\ Len(runs[j]) <= Len(runs'[j])
    BY DEF Types
  <2> QED BY <2>1
<1>2. CASE UNCHANGED <<chain, mempool, store>>
  BY <1>2, NamedFrame
<1>3. ASSUME NEW j \in Job, Fund(j) PROVE Named'
  <2>1. /\ chain' = [chain EXCEPT ![j].st = "funded"] /\ UNCHANGED <<mempool, store>>
    BY <1>3 DEF Fund
  <2>2. \A i \in Job : chain'[i].st = "submitted" => chain'[i] = chain[i]
    BY <2>1 DEF Types, OnChain
  <2> QED BY <2>1, <2>2, NamedFrame
<1>4. ASSUME NEW j \in Job, NEW n \in DOMAIN runs[j], Upload(j, n) PROVE Named'
  <2>1. store' = [store EXCEPT ![j] = n] /\ UNCHANGED <<chain, mempool>>
    BY <1>4 DEF Upload
  <2>2. \A i \in Job : store'[i] = store[i] \/ store'[i] \in DOMAIN runs'[i]
    BY <1>1, <2>1 DEF Types
  <2> QED BY <2>1, <2>2, NamedFrame
<1>5. ASSUME NEW j \in Job, NEW n \in DOMAIN runs[j], Send(j, n) PROVE Named'
  <2>1. mempool' = Append(mempool, <<j, n>>) /\ UNCHANGED <<chain, store>>
    BY <1>5 DEF Send
  <2>2. ASSUME NEW i \in DOMAIN mempool'
        PROVE  \/ mempool'[i][2] \in DOMAIN runs'[mempool'[i][1]]
               \/ \E k \in DOMAIN mempool : mempool'[i] = mempool[k]
    <3>1. mempool \in Seq(Job \X Nat) /\ <<j, n>> \in Job \X Nat
      <4>1. runs[j] \in Seq(Run)
        BY DEF Types
      <4>2. n \in Nat
        BY <4>1
      <4> QED BY <4>2 DEF Types
    <3>2. DOMAIN mempool = 1..Len(mempool) /\ Len(mempool) \in Nat
      BY <3>1
    <3>3. DOMAIN mempool' = 1..(Len(mempool) + 1)
      BY <2>1, <3>1
    <3>4. CASE i \in DOMAIN mempool
      <4>1. mempool'[i] = mempool[i]
        BY <2>1, <3>1, <3>4
      <4> QED BY <3>4, <4>1
    <3>5. CASE i \notin DOMAIN mempool
      <4>1. i = Len(mempool) + 1
        BY <2>2, <3>2, <3>3, <3>5
      <4>2. mempool'[i] = <<j, n>>
        BY <2>1, <3>1, <4>1
      <4> QED BY <1>1, <4>2
    <3> QED BY <3>4, <3>5
  <2>3. \A i \in Job : store'[i] = store[i] /\ chain'[i] = chain[i]
    BY <2>1
  <2> QED BY <2>2, <2>3, NamedFrame
<1>6. CASE Mine
  <2>1. mempool # <<>> /\ mempool \in Seq(Job \X Nat) /\ 1 \in DOMAIN mempool
    <3>1. mempool # <<>> /\ mempool \in Seq(Job \X Nat)
      BY <1>6 DEF Mine, Types
    <3> QED BY <3>1
  <2>2. Head(mempool) = mempool[1] /\ mempool[1][1] \in Job
    BY <2>1
  <2>3. /\ mempool' = Tail(mempool) /\ store' = store
        /\ chain' \in {chain, [chain EXCEPT ![mempool[1][1]] = [st |-> "submitted", by |-> mempool[1][2]]]}
    BY <1>6, <2>2 DEF Mine, Receipt
  <2>4. ASSUME NEW i \in Job
        PROVE  chain'[i] = chain[i] \/ chain'[i].by \in DOMAIN runs'[i]
    <3> DEFINE j == mempool[1][1]
               n == mempool[1][2]
    <3>1. n \in DOMAIN runs[j] /\ j \in Job
      BY <2>1, <2>2 DEF Named
    <3>2. chain' \in {chain, [chain EXCEPT ![j] = [st |-> "submitted", by |-> n]]}
      BY <2>3
    <3> HIDE DEF j, n
    <3>3. chain'[i] = chain[i] \/ (i = j /\ chain'[i].by = n)
      BY <3>1, <3>2 DEF Types
    <3> QED BY <1>1, <3>1, <3>3
  <2>5. ASSUME NEW i \in DOMAIN mempool'
        PROVE  \E k \in DOMAIN mempool : mempool'[i] = mempool[k]
    <3>1. i + 1 \in DOMAIN mempool /\ mempool'[i] = mempool[i + 1]
      BY <2>1, <2>3, <2>5
    <3> QED BY <3>1
  <2>6. \A i \in Job : store'[i] = store[i]
    BY <2>3
  <2>7. \A i \in Job : chain'[i].st = "submitted" => chain'[i] = chain[i] \/ chain'[i].by \in DOMAIN runs'[i]
    BY <2>4
  <2> QED BY <2>5, <2>6, <2>7, NamedFrame
<1>7. ASSUME NEW j \in Job, NEW n \in DOMAIN runs[j], Deliver(j, n) PROVE Named'
  <2>1. UNCHANGED <<chain, mempool, store>> \/ Upload(j, n) \/ Send(j, n)
    BY <1>7 DEF Deliver, Verify, Work, Check, Return, Fail, Timeout
  <2> QED BY <1>2, <1>4, <1>5, <2>1
<1>8. ASSUME NEW j \in Job, Notify(j) \/ PreVerify(j) \/ Accept(j) \/ Reject(j) PROVE Named'
  BY <1>2, <1>8 DEF Notify, PreVerify, Accept, Reject
<1>9. CASE BareNotify \/ SweepList \/ SweepFails \/ Restart \/ \E list \in lists : SweepSpawn(list)
  BY <1>2, <1>9 DEF BareNotify, SweepList, SweepFails, Restart, SweepSpawn
<1>10. CASE UNCHANGED vars
  BY <1>2, <1>10 DEF vars
<1> QED BY <1>3, <1>6, <1>7, <1>8, <1>9, <1>10 DEF Next

\* The variables have their types, what is stored, broadcast or anchored is a delivery that was
\* started, and a job is started at most twice per notification: by the handler and by its sweep.
THEOREM TypeCorrect == Spec => []TypeOK
<1>1. Init => Named /\ Budget
  <2> SUFFICES ASSUME Init PROVE Named /\ Budget
    OBVIOUS
  <2>1. Named
    BY DEF Init, Named
  <2>2. Asking = {} /\ IsFiniteSet({}) /\ Cardinality({}) = 0
    BY FS_EmptySet DEF Init, Asking
  <2>3. Waiting = 0
    BY <2>2 DEF Init, Waiting
  <2>4. ASSUME NEW j \in Job PROVE Due(j)
    <3>1. Started(j) = 0 /\ Own(j) = 0 /\ notifies = 0
      <4>1. runs[j] = <<>> /\ notifies = 0
        BY DEF Init
      <4>2. Len(<<>>) = 0
        OBVIOUS
      <4> QED BY <2>2, <4>1, <4>2 DEF Started, Own
    <3> QED BY <2>3, <3>1 DEF Due
  <2>5. scans \in Nat /\ faults \in Nat /\ notifies \in 0..MaxNotifies
    BY BoundAssumption DEF Init
  <2> QED BY <2>1, <2>2, <2>4, <2>5 DEF Init, Budget
<1>2. ASSUME Inv, Inv', Named, Budget, [Next]_vars PROVE (Named /\ Budget)'
  <2>1. Types /\ Types'
    BY <1>2 DEF Inv
  <2> QED BY <1>2, <2>1, BudgetStep, NamedStep
<1>3. ASSUME Inv, Named, Budget PROVE TypeOK
  <2>1. Types
    BY <1>3 DEF Inv
  <2>2. \A i \in DOMAIN mempool : mempool[i][1] \in Job
    BY <2>1 DEF Types
  <2>3. ASSUME NEW j \in Job PROVE Len(runs[j]) <= MaxRuns
    <3>1. /\ Waiting \in Nat /\ notifies \in Nat /\ Started(j) \in Nat /\ Own(j) \in {0, 1}
          /\ MaxNotifies \in Nat
      BY <1>3, <2>1, DueTypes
    <3>2. notifies <= MaxNotifies /\ Due(j)
      BY <1>3, <3>1 DEF Budget
    <3>3. Started(j) <= 2 * MaxNotifies
      BY <3>1, <3>2 DEF Due
    <3> QED BY <3>3 DEF Started, MaxRuns
  <2>4. scans \in Nat /\ {notifies, faults} \subseteq Nat
    BY <1>3, <2>1, DueTypes DEF Budget
  <2> QED BY <1>3, <2>1, <2>2, <2>3, <2>4 DEF TypeOK, Types, Named
<1> QED BY <1>1, <1>2, <1>3, Invariance, PTL DEF Spec
=============================================================================
