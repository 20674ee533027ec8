------------------------------- MODULE MCLog -------------------------------
(* Two threads that log a few lines. *)
EXTENDS Log

CONSTANTS t1, t2
=============================================================================
