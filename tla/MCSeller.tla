------------------------------ MODULE MCSeller ------------------------------
(* Seller with model values for the jobs. *)
EXTENDS Seller
=============================================================================
