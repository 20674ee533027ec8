---------------------------- MODULE MCTcpFraming ----------------------------
(* Short streams between two networks, in small packets. *)
EXTENDS TcpFraming

CONSTANTS s1, s2

\* The body of the first is too long for the length in its header.
SmallKinds ==
    {StandardMessage(2), DisconnectMessage, [type |-> "Custom", size |-> 1]}
=============================================================================
