--------------------------- MODULE MessageStream ---------------------------
(***************************************************************************)
(* What the receiver of a TCP connection is promised, without bytes:       *)
(* messages are delivered in the order in which they were sent, none       *)
(* twice, and none is passed over, except from a message on whose type has *)
(* no create function: with it an arbitrary number of later ones is lost.  *)
(***************************************************************************)
EXTENDS Naturals, Sequences

CONSTANTS
    Messages,    \* what can be sent: records with a type
    Deliveries   \* what can arrive: records with msg, the position in sent

VARIABLES
    sent,        \* the messages of the connection
    registered,  \* the types that have a create function
    next,        \* the message that is to be delivered next
    got          \* what was delivered

vars == <<sent, registered, next, got>>

Init == sent = << >> /\ next = 1 /\ got = << >>

\* The sequence t over S is s with one more element.
Extends(t, s, S) ==
    t \in Seq(S) /\ Len(t) = Len(s) + 1 /\ t = Append(s, t[Len(t)])

Send ==
    /\ Extends(sent', sent, Messages)
    /\ UNCHANGED <<registered, next, got>>

Learn ==
    /\ registered \subseteq registered'
    /\ UNCHANGED <<sent, next, got>>

Deliver ==
    /\ next <= Len(sent) /\ sent[next].type \in registered
    /\ Extends(got', got, Deliveries) /\ got'[Len(got')].msg = next
    /\ next' = next + 1
    /\ UNCHANGED <<sent, registered>>

Lose ==
    /\ next <= Len(sent) /\ sent[next].type \notin registered
    /\ next' \in next + 1 .. Len(sent) + 1
    /\ UNCHANGED <<sent, registered, got>>

Next == Send \/ Learn \/ Deliver \/ Lose
Spec == Init /\ [][Next]_vars

-----------------------------------------------------------------------------
\* Messages are delivered in the order in which they were sent, each at most
\* once.
InOrder ==
    \A i, j \in 1 .. Len(got) : i < j => got[i].msg < got[j].msg

=============================================================================
