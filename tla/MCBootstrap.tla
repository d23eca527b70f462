---------------------------- MODULE MCBootstrap ----------------------------
(* Bootstrap in a pool whose ticks are 3% apart. *)
EXTENDS Bootstrap

MCPriceAt ==
  [t \in -6..6 |-> <<119, 116, 113, 109, 106, 103, 100, 97, 94, 92, 89, 86, 84>>[t + 7]]
\* The root of its reciprocal, in thousandths.
MCSqrtAt ==
  [t \in -6..6 |-> <<92, 93, 94, 96, 97, 99, 100, 102, 103, 105, 106, 108, 109>>[t + 7]]
MCLive == {0, 1}
=============================================================================
