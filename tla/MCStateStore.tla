---------------------------- MODULE MCStateStore ----------------------------
(***************************************************************************)
(* Instances of StateStore for TLC: the processes are interchangeable.     *)
(***************************************************************************)
EXTENDS StateStore, TLC

Symmetry == Permutations(Proc)
=============================================================================
