------------------------------ MODULE MCQuant ------------------------------
(* Quant in a pool whose ticks are 3% apart.  Sqrt ratios are not used. *)
EXTENDS Quant

MCPriceAt ==
  [t \in -9..9 |->
     <<130, 127, 123, 119, 116, 113, 109, 106, 103, 100,
       97, 94, 92, 89, 86, 84, 81, 79, 77>>[t + 10]]
MCSqrtAt == [t \in {0} |-> 1]
MCLive == {0, 3, 4}
=============================================================================
