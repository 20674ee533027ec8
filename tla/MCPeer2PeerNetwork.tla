------------------------ MODULE MCPeer2PeerNetwork ------------------------
(* Small programs with one network of two peers. *)
EXTENDS Peer2PeerNetwork, TLC

CONSTANTS a1, a2, p1, p2, i1, i2

AllCalls == a1 :> MethodNames
EndCalls == a1 :> {"addPeer", "destroy"}
TwoThreads == a1 :> {"addPeer", "disconnect"} @@ a2 :> {"sendMessage"}

FirstTalks == p1 :> Kinds @@ p2 :> {}
FirstEnds == p1 :> {"subscribe", "goodbye"} @@ p2 :> {}
NoneTalks == p1 :> {} @@ p2 :> {}

Distinct == p1 :> i1 @@ p2 :> i2
=============================================================================
