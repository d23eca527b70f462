------------------------------- MODULE Seller -------------------------------
(***************************************************************************)
(* seller_core.SellerCore: notifications and sweeps spawn background       *)
(* deliveries of funded jobs,                                              *)
(*                                                                         *)
(*     verify -> work -> check -> upload -> send -> wait                   *)
(*                                                                         *)
(* each in an asyncio task with a time limit.  From check on, a delivery   *)
(* is inside signing.submit_result, which runs in a worker thread: when    *)
(* the task times out it stops waiting, and the thread runs on.            *)
(*                                                                         *)
(* A deliverable is named by the number of the delivery that produced it.  *)
(***************************************************************************)
EXTENDS Integers, Sequences, FiniteSets

CONSTANTS
  Job,          \* jobs assigned to this provider
  Signed,       \* those that carry the quote it signed
  Timeouts,     \* can a delivery reach its time limit?
  MaxNotifies,  \* bound: notifications
  MaxFaults     \* bound: exceptions in a delivery, reverted transactions, restarts

ASSUME SignedAssumption == Signed \subseteq Job
ASSUME TimeoutsAssumption == Timeouts \in BOOLEAN
ASSUME BoundAssumption == {MaxNotifies, MaxFaults} \subseteq Nat

VARIABLES
  chain,     \* each job's state on chain, and the deliverable anchored there
  mempool,   \* broadcast submits that are not mined, in nonce order
  store,     \* the manifest stored for each job; 0: none
  inflight,  \* _inflight
  runs,      \* each job's deliveries: where they are, and if a task awaits them
  ask,       \* each job's notification handler: what its pre-verify said
  scans,     \* sweeps that wait for the list of funded jobs
  lists,     \* lists that sweeps got and have not gone through
  notifies, faults,  \* how much of each bound is used
  adrift     \* jobs that had a submit nobody waits for; only properties read it

\* What SellerCore keeps in memory.
memVars == <<inflight, runs, ask, scans, lists>>
countVars == <<notifies, faults>>
vars == <<chain, mempool, store, memVars, countVars, adrift>>

-----------------------------------------------------------------------------
InThread == {"check", "upload", "send", "wait", "landed", "reverted"}
Working == {"work"} \cup InThread
Active == {"verify"} \cup Working

Run == [at : Active \cup {"done", "skipped", "failed"}, awaited : BOOLEAN]

\* Each notification spawns a job at most twice, by itself and by its sweep.
MaxRuns == 2 * MaxNotifies

OnChain == [st : {"open", "funded", "submitted"}, by : Nat]

Funded == {j \in Job : chain[j].st = "funded"}

\* is_busy: the tasks that are live.
Awaited(j) == {n \in DOMAIN runs[j] : runs[j][n].awaited}
Busy == scans > 0 \/ lists # {} \/ \E j \in Job : Awaited(j) # {}

Init ==
  /\ chain = [j \in Job |-> [st |-> "open", by |-> 0]]
  /\ mempool = <<>>
  /\ store = [j \in Job |-> 0]
  /\ inflight = {} /\ runs = [j \in Job |-> <<>>]
  /\ ask = [j \in Job |-> "none"]
  /\ scans = 0 /\ lists = {}
  /\ notifies = 0 /\ faults = 0 /\ adrift = {}

-----------------------------------------------------------------------------
(* Starting deliveries. *)

\* Mutation of SpawnJobs: no dedup against the jobs in flight.
SpawnAlways(jobs, at) ==
  /\ inflight' = inflight \cup jobs
  /\ runs' = [j \in Job |-> IF j \in jobs
                            THEN Append(runs[j], [at |-> at, awaited |-> TRUE]) ELSE runs[j]]

\* _spawn_job for each of a set of jobs, in one turn of the event loop.
SpawnJobs(jobs, at) ==
  LET fresh == jobs \ inflight
  IN  /\ inflight' = inflight \cup fresh
      /\ runs' = [j \in Job |-> IF j \in fresh
                                THEN Append(runs[j], [at |-> at, awaited |-> TRUE]) ELSE runs[j]]

\* A buyer notifies; the handler starts the pre-verify in a worker thread.
Notify(j) ==
  /\ ask[j] = "none" /\ notifies < MaxNotifies
  /\ ask' = [ask EXCEPT ![j] = "asking"]
  /\ notifies' = notifies + 1
  /\ UNCHANGED <<chain, mempool, store, inflight, runs, scans, lists, faults, adrift>>

\* The pre-verify reads the chain; it can also fail or time out.
PreVerify(j) ==
  /\ ask[j] = "asking"
  /\ \E answer \in {"unsure", IF j \notin Funded THEN "unsure"
                              ELSE IF j \in Signed THEN "ok" ELSE "permanent"} :
       ask' = [ask EXCEPT ![j] = answer]
  /\ UNCHANGED <<chain, mempool, store, inflight, runs, scans, lists, countVars, adrift>>

\* The handler resumes with that answer, accepts, and starts a sweep too.
Accept(j) ==
  /\ ask[j] \in {"ok", "unsure"}
  /\ SpawnJobs({j}, IF ask[j] = "ok" THEN "work" ELSE "verify")
  /\ scans' = scans + 1
  /\ ask' = [ask EXCEPT ![j] = "none"]
  /\ UNCHANGED <<chain, mempool, store, lists, countVars, adrift>>

Reject(j) ==
  /\ ask[j] = "permanent"
  /\ ask' = [ask EXCEPT ![j] = "none"]
  /\ UNCHANGED <<chain, mempool, store, inflight, runs, scans, lists, countVars, adrift>>

\* A notification that names no job only starts a sweep.
BareNotify ==
  /\ notifies < MaxNotifies
  /\ notifies' = notifies + 1
  /\ scans' = scans + 1
  /\ UNCHANGED <<chain, mempool, store, inflight, runs, ask, lists, faults, adrift>>

\* Mutation of SweepList: the sweep runs again and again.
SweepListAgain ==
  /\ scans > 0
  /\ lists' = lists \cup {Funded}
  /\ UNCHANGED <<chain, mempool, store, inflight, runs, ask, scans, countVars, adrift>>

SweepList ==
  /\ scans > 0
  /\ scans' = scans - 1
  /\ lists' = lists \cup {Funded}
  /\ UNCHANGED <<chain, mempool, store, inflight, runs, ask, countVars, adrift>>

\* An error, or the sweep's own time limit.
SweepFails ==
  /\ scans > 0
  /\ scans' = scans - 1
  /\ UNCHANGED <<chain, mempool, store, inflight, runs, ask, lists, countVars, adrift>>

\* The sweep resumes and hands over every job of its list.
SweepSpawn(list) ==
  /\ list \in lists
  /\ SpawnJobs(list, "verify")
  /\ lists' = lists \ {list}
  /\ UNCHANGED <<chain, mempool, store, ask, scans, countVars, adrift>>

-----------------------------------------------------------------------------
(* One delivery: number n of job j. *)

At(j, n, place) == n \in DOMAIN runs[j] /\ runs[j][n].at = place

Go(j, n, place) == runs' = [runs EXCEPT ![j][n].at = place]

\* Mutation of Finish: the slot is freed also after a success.
FinishFreeing(j, n, result) ==
  /\ runs' = [runs EXCEPT ![j][n] = [at |-> result, awaited |-> FALSE]]
  /\ inflight' = IF runs[j][n].awaited THEN inflight \ {j} ELSE inflight
  /\ UNCHANGED <<ask, scans, lists>>

\* A delivery ends.  If a task still awaits it, the task ends too: a terminal
\* result keeps the job in _inflight, a failure frees it for a retry.
Finish(j, n, result) ==
  /\ runs' = [runs EXCEPT ![j][n] = [at |-> result, awaited |-> FALSE]]
  /\ inflight' = IF runs[j][n].awaited /\ result = "failed" THEN inflight \ {j} ELSE inflight
  /\ UNCHANGED <<ask, scans, lists>>

\* Mutation of Verify: the result is not looked at.
VerifyNothing(j, n) ==
  /\ At(j, n, "verify")
  /\ Go(j, n, "work") /\ UNCHANGED <<inflight, ask, scans, lists>>
  /\ UNCHANGED <<chain, mempool, store, countVars, adrift>>

\* A funded job without our signature is skipped for good; one that is not
\* funded (or no longer) can be retried.
Verify(j, n) ==
  /\ At(j, n, "verify")
  /\ \/ j \in Funded \cap Signed /\ Go(j, n, "work") /\ UNCHANGED <<inflight, ask, scans, lists>>
     \/ j \in Funded \ Signed /\ Finish(j, n, "skipped")
     \/ j \notin Funded /\ Finish(j, n, "failed")
  /\ UNCHANGED <<chain, mempool, store, countVars, adrift>>

\* The LLM answers, and submit_result is called in a worker thread.
Work(j, n) ==
  /\ At(j, n, "work")
  /\ Go(j, n, "check")
  /\ UNCHANGED <<chain, mempool, store, inflight, ask, scans, lists, countVars, adrift>>

\* submit_workflow: the job must still be funded.
Check(j, n) ==
  /\ At(j, n, "check")
  /\ \/ j \in Funded /\ Go(j, n, "upload") /\ UNCHANGED <<inflight, ask, scans, lists>>
     \/ j \notin Funded /\ Finish(j, n, "failed")
  /\ UNCHANGED <<chain, mempool, store, countVars, adrift>>

\* Mutation of Upload: the manifest goes to storage after the submit.
UploadNothing(j, n) ==
  /\ At(j, n, "upload")
  /\ Go(j, n, "send")
  /\ UNCHANGED <<chain, mempool, store, inflight, ask, scans, lists, countVars, adrift>>

\* The file is named after the job: it replaces the one of an earlier delivery.
Upload(j, n) ==
  /\ At(j, n, "upload")
  /\ store' = [store EXCEPT ![j] = n]
  /\ Go(j, n, "send")
  /\ UNCHANGED <<chain, mempool, inflight, ask, scans, lists, countVars, adrift>>

Send(j, n) ==
  /\ At(j, n, "send")
  /\ mempool' = Append(mempool, <<j, n>>)
  /\ Go(j, n, "wait")
  /\ UNCHANGED <<chain, store, inflight, ask, scans, lists, countVars, adrift>>

\* What a submit that was mined means for its delivery.
Result == [landed |-> "done", reverted |-> "failed"]

Return(j, n) ==
  /\ n \in DOMAIN runs[j] /\ runs[j][n].at \in DOMAIN Result
  /\ Finish(j, n, Result[runs[j][n].at])
  /\ UNCHANGED <<chain, mempool, store, countVars, adrift>>

\* Any other exception on the way, the wait for the receipt included.
Fail(j, n) ==
  /\ n \in DOMAIN runs[j] /\ runs[j][n].at \in Active
  /\ faults < MaxFaults /\ faults' = faults + 1
  /\ Finish(j, n, "failed")
  /\ adrift' = IF At(j, n, "wait") THEN adrift \cup {j} ELSE adrift
  /\ UNCHANGED <<chain, mempool, store, notifies>>

\* Mutation of Timeout: no ceiling on the submit.
TimeoutBeforeSubmit(j, n) ==
  /\ Timeouts /\ n \in Awaited(j) /\ runs[j][n].at \notin InThread
  /\ Finish(j, n, "failed")
  /\ UNCHANGED <<chain, mempool, store, countVars, adrift>>

\* wait_for gives up: the slot is free again.  A verify or the LLM call is
\* dropped with the task, a submit runs on in its thread.
Timeout(j, n) ==
  /\ Timeouts /\ n \in Awaited(j)
  /\ IF runs[j][n].at \in InThread
     THEN /\ runs' = [runs EXCEPT ![j][n] = [at |-> runs[j][n].at, awaited |-> FALSE]]
          /\ inflight' = inflight \ {j}
          /\ adrift' = adrift \cup {j}
          /\ UNCHANGED <<ask, scans, lists>>
     ELSE Finish(j, n, "failed") /\ UNCHANGED adrift
  /\ UNCHANGED <<chain, mempool, store, countVars>>

\* The process dies and comes back empty; what it broadcast can still be mined.
Restart ==
  /\ faults < MaxFaults /\ faults' = faults + 1
  /\ inflight' = {} /\ ask' = [j \in Job |-> "none"] /\ scans' = 0 /\ lists' = {}
  /\ runs' = [j \in Job |-> [n \in DOMAIN runs[j] |->
                IF runs[j][n].at \in Active THEN [at |-> "failed", awaited |-> FALSE] ELSE runs[j][n]]]
  /\ adrift' = adrift \cup {j \in Job : \E n \in DOMAIN runs[j] : At(j, n, "wait")}
  /\ UNCHANGED <<chain, mempool, store, notifies>>

-----------------------------------------------------------------------------
(* The chain. *)

Fund(j) ==
  /\ chain[j].st = "open"
  /\ chain' = [chain EXCEPT ![j].st = "funded"]
  /\ UNCHANGED <<mempool, store, memVars, countVars, adrift>>

\* The thread gets its receipt; if no task awaits it any more, that was its last step.
Receipt(j, n, outcome) ==
  /\ runs' = IF At(j, n, "wait")
             THEN [runs EXCEPT ![j][n].at = IF runs[j][n].awaited THEN outcome ELSE Result[outcome]]
             ELSE runs
  /\ mempool' = Tail(mempool)
  /\ UNCHANGED <<store, inflight, ask, scans, lists, notifies, adrift>>

\* The contract takes one submit of a funded job.
Mine ==
  /\ mempool # <<>>
  /\ LET j == Head(mempool)[1]
         n == Head(mempool)[2]
     IN  \/ /\ chain[j].st = "funded"
            /\ chain' = [chain EXCEPT ![j] = [st |-> "submitted", by |-> n]]
            /\ Receipt(j, n, "landed")
            /\ UNCHANGED faults
         \/ /\ chain[j].st # "funded"
            /\ Receipt(j, n, "reverted")
            /\ UNCHANGED <<chain, faults>>
         \/ /\ faults < MaxFaults /\ faults' = faults + 1
            /\ Receipt(j, n, "reverted")
            /\ UNCHANGED chain

-----------------------------------------------------------------------------
Deliver(j, n) ==
  \/ Verify(j, n) \/ Work(j, n) \/ Check(j, n) \/ Upload(j, n) \/ Send(j, n)
  \/ Return(j, n) \/ Fail(j, n) \/ Timeout(j, n)

Next ==
  \/ \E j \in Job : \/ Fund(j) \/ Notify(j) \/ PreVerify(j) \/ Accept(j) \/ Reject(j)
                    \/ \E n \in DOMAIN runs[j] : Deliver(j, n)
  \/ BareNotify \/ SweepList \/ SweepFails \/ Mine \/ Restart
  \/ \E list \in lists : SweepSpawn(list)

Spec == Init /\ [][Next]_vars

\* What the event loop does by itself: resume a handler or a sweep, fire a timer.
Turn ==
  \/ \E j \in Job : \/ PreVerify(j) \/ Accept(j) \/ Reject(j)
                    \/ \E n \in DOMAIN runs[j] : Timeout(j, n)
  \/ SweepFails
  \/ \E list \in lists : SweepSpawn(list)

\* The loop does not stop while it has a turn to take.  Nothing is assumed of the
\* LLM, the RPC node, the worker threads or the chain: each may hang.
FairSpec == Spec /\ WF_vars(Turn)

-----------------------------------------------------------------------------
(* Properties. *)

\* The variables have their types, and what refers to a delivery refers to one that
\* was started.
TypeOK ==
  /\ chain \in [Job -> OnChain]
  /\ \A i \in DOMAIN mempool :
       mempool[i][1] \in Job /\ mempool[i][2] \in DOMAIN runs[mempool[i][1]]
  /\ \A j \in Job : store[j] = 0 \/ store[j] \in DOMAIN runs[j]
  /\ \A j \in Job : chain[j].st = "submitted" => chain[j].by \in DOMAIN runs[j]
  /\ inflight \subseteq Job /\ runs \in [Job -> Seq(Run)]
  /\ \A j \in Job : Len(runs[j]) <= MaxRuns
  /\ ask \in [Job -> {"none", "asking", "ok", "unsure", "permanent"}]
  /\ scans \in Nat /\ lists \subseteq SUBSET Job
  /\ {notifies, faults} \subseteq Nat /\ adrift \subseteq Job

\* A job is delivered by one delivery at a time, however notifications, sweeps and
\* retries interleave, unless an earlier submit was given up on while it ran.
SoleDelivery ==
  \A j \in Job \ adrift : \A n, k \in DOMAIN runs[j] :
     runs[j][n].at \in Active /\ runs[j][k].at \in Active => n = k

\* A job stays claimed as long as a task works on it, so the dedup sees it.
ClaimedWhileAwaited == \A j \in Job : Awaited(j) # {} => j \in inflight

\* After a delivery has succeeded no other works on the job, not even one that a
\* stale pre-verify or a stale list of funded jobs asks for.
SuccessIsFinal ==
  \A j \in Job \ adrift : \A n, k \in DOMAIN runs[j] :
     n # k /\ runs[j][n].at = "done" => runs[j][k].at \notin Working

\* No work is done for a job without our signed quote.
OnlySignedIsWorked ==
  \A j \in Job \ Signed : \A n \in DOMAIN runs[j] : runs[j][n].at \notin Working

\* What the buyer fetches is what was anchored on chain, unless a submit was given
\* up on while it ran.
DeliveredAsStored ==
  \A j \in Job \ adrift : chain[j].st = "submitted" => store[j] = chain[j].by

\* Whatever hangs, is_busy() turns false again once the notifications stop: no hung
\* delivery, scan or pre-verify keeps the runtime warm for ever.
BusyEnds == <>[]~Busy

\* Each submitted job is served as it was anchored on chain.
ServedAsSubmitted ==
  \A j \in Job : chain[j].st = "submitted" => store[j] = chain[j].by

=============================================================================
