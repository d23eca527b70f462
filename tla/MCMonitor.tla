----------------------------- MODULE MCMonitor -----------------------------
(* Monitor with model values for the loops and requests. *)
EXTENDS Monitor
=============================================================================
