------------------------ MODULE MCDirectConNetwork ------------------------
(* Small programs with one direct connection. *)
EXTENDS DirectConNetwork

CONSTANTS n1, l1, l2
=============================================================================
