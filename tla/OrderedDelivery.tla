-------------------------- MODULE OrderedDelivery --------------------------
(***************************************************************************)
(* What the users of a MessageBroker are promised, without its threads,    *)
(* locks and flags.  A queued message is submitted, and stays behind the   *)
(* messages submitted before it: listeners are called only with the        *)
(* oldest message that is not completed.  The public headers name no       *)
(* order for a synchronous message: it is handed to listeners directly.    *)
(***************************************************************************)
EXTENDS Naturals, Sequences

CONSTANTS Listeners, Messages

VARIABLES
    submitted,   \* the queued messages, oldest first
    completed,   \* how many of them are done with
    got          \* what each listener accepted, in order

vars == <<submitted, completed, got>>

Init ==
    /\ submitted = << >>
    /\ completed = 0
    /\ got = [l \in Listeners |-> << >>]

Submitted == {submitted[i] : i \in 1 .. Len(submitted)}
Given(l) == {got[l][i] : i \in 1 .. Len(got[l])}

\* A message is queued or handed out directly, never both.
Submit(m) ==
    /\ m \notin Submitted
    /\ \A l \in Listeners : m \notin Given(l)
    /\ submitted' = Append(submitted, m)
    /\ UNCHANGED <<completed, got>>

\* The listener l accepts the oldest message that is not completed.
Give(l) ==
    /\ completed < Len(submitted)
    /\ got' = [got EXCEPT ![l] = Append(@, submitted[completed + 1])]
    /\ UNCHANGED <<submitted, completed>>

\* The listener l accepts a message that is not queued.
GiveDirectly(l, m) ==
    /\ m \notin Submitted
    /\ got' = [got EXCEPT ![l] = Append(@, m)]
    /\ UNCHANGED <<submitted, completed>>

Complete ==
    /\ completed < Len(submitted)
    /\ completed' = completed + 1
    /\ UNCHANGED <<submitted, got>>

Next ==
    \/ \E m \in Messages : Submit(m)
    \/ \E l \in Listeners : Give(l)
    \/ \E l \in Listeners, m \in Messages : GiveDirectly(l, m)
    \/ Complete

Spec == Init /\ [][Next]_vars
\* What the order of the queue means to a listener: it accepts submitted
\* messages in the order in which they were submitted.
InOrder ==
    \A l \in Listeners : \A i, j \in 1 .. Len(got[l]) :
        \A p, q \in 1 .. Len(submitted) :
            i < j /\ got[l][i] = submitted[p] /\ got[l][j] = submitted[q]
                => p <= q

=============================================================================
