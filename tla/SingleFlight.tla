---------------------------- MODULE SingleFlight ----------------------------
(***************************************************************************)
(* What strategy.rebalance() promises the monitor, the HTTP routes and the *)
(* operator: one pass at a time, which ends in one of three ways: nothing  *)
(* recorded, the new NFT recorded, or the new NFT and its accounts.        *)
(***************************************************************************)
EXTENDS Integers

CONSTANTS Caller, NoCaller

VARIABLES
  holder,   \* the caller whose pass is running
  stage,    \* how much of it is recorded
  managed,  \* the NFT the store points at
  count     \* the passes counted in the store

vars == <<holder, stage, managed, count>>

Stage == {"free", "moving", "repointed", "counted"}

Init == holder = NoCaller /\ stage = "free" /\ managed \in Nat /\ count = 0

Begin(c) ==
  /\ holder = NoCaller
  /\ holder' = c /\ stage' = "moving"
  /\ UNCHANGED <<managed, count>>

\* A pass moves the store on to an NFT younger than any it pointed at before.
Repoint(c) ==
  /\ holder = c /\ stage = "moving"
  /\ stage' = "repointed"
  /\ managed' \in Nat /\ managed' > managed
  /\ UNCHANGED <<holder, count>>

Account(c) ==
  /\ holder = c /\ stage = "repointed"
  /\ stage' = "counted" /\ count' = count + 1
  /\ UNCHANGED <<holder, managed>>

\* By its return or by an exception.
End(c) ==
  /\ holder = c
  /\ holder' = NoCaller /\ stage' = "free"
  /\ UNCHANGED <<managed, count>>

Next == \E c \in Caller : Begin(c) \/ Repoint(c) \/ Account(c) \/ End(c)

Spec == Init /\ [][Next]_vars

=============================================================================
