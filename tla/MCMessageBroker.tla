-------------------------- MODULE MCMessageBroker --------------------------
(* Small programs that use one broker: which thread calls which methods. *)
EXTENDS MessageBroker, TLC

CONSTANTS a1, a2, w1, w2, l1, l2

\* Two threads pump; the second also changes the list.
BroadcastCalls == a1 :> {"pumpMessage"} @@
                  a2 :> {"pumpMessage", "registerListener", "unregisterListener"}
OneListener == <<l1>>
TwoListeners == <<l1, l2>>

\* One thread pumps and switches modes, the other takes exclusiveness.
ModeCalls == a1 :> {"pumpMessage", "setContinuous", "setSynchronous"} @@
             a2 :> {"requestExclusive", "discardExclusive"}

\* One thread pumps, the other changes the list.
ContinuousCalls == a1 :> {"pumpMessage"} @@
                   a2 :> {"registerListener", "unregisterListener"}

\* A program that only pumps, and one that only takes exclusiveness.
PumpCalls == a1 :> {"pumpMessage"} @@ a2 :> {}
ExclusiveCalls == a1 :> {"pumpMessage"} @@ a2 :> {"requestExclusive"}

\* Messages and workers are interchangeable: no action or property that is
\* checked with this symmetry tells them apart.
Symmetry == Permutations(Messages) \cup Permutations(Workers)
=============================================================================
