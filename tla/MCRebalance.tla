---------------------------- MODULE MCRebalance ----------------------------
(***************************************************************************)
(* Instances of Rebalance for TLC.  The callers run the same code, so they  *)
(* are interchangeable; a cfg that checks liveness does not use this.      *)
(***************************************************************************)
EXTENDS Rebalance, TLC

Symmetry == Permutations(Caller)
=============================================================================
