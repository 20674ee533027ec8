------------------------ MODULE MessageStream_proofs ------------------------
(* Proof that the stream of messages keeps their order. *)
EXTENDS MessageStream, TLAPS

\* The invariant: what was delivered precedes the message that is next.
Passed ==
    /\ next \in Nat \ {0} /\ sent \in Seq(Messages) /\ got \in Seq(Deliveries)
    /\ \A i \in 1 .. Len(got) : got[i].msg \in Nat /\ got[i].msg < next
    /\ InOrder

LEMMA PassedStep == Passed /\ [Next]_vars => Passed'
<1> SUFFICES ASSUME Passed, [Next]_vars PROVE Passed'
  OBVIOUS
<1> USE DEF Passed
<1>1. CASE Send
  BY <1>1 DEF Send, Extends, InOrder
<1>2. CASE Learn
  BY <1>2 DEF Learn, InOrder
<1>3. CASE Deliver
  <2> DEFINE x == got'[Len(got')]
  <2>1. /\ got' \in Seq(Deliveries) /\ Len(got') = Len(got) + 1
        /\ got' = Append(got, x) /\ x.msg = next /\ next' = next + 1
        /\ sent' = sent
    BY <1>3 DEF Deliver, Extends
  <2>2. \A i \in 1 .. Len(got) : got'[i] = got[i]
    <3> HIDE DEF x
    <3> QED BY <2>1
  <2>3. got'[Len(got) + 1].msg = next
    BY <2>1
  <2>4. \A i \in 1 .. Len(got') : got'[i].msg \in Nat /\ got'[i].msg < next'
    BY <2>1, <2>2, <2>3
  <2>5. InOrder'
    BY <2>1, <2>2, <2>3 DEF InOrder
  <2> QED BY <2>1, <2>4, <2>5
<1>4. CASE Lose
  BY <1>4 DEF Lose, InOrder
<1>5. CASE UNCHANGED vars
  BY <1>5 DEF vars, InOrder
<1> QED BY <1>1, <1>2, <1>3, <1>4, <1>5 DEF Next

\* In the stream of messages, each is delivered after those sent before it that
\* are delivered at all.
THEOREM StreamInOrder == Spec => []InOrder
<1>1. Init => Passed
  BY DEF Init, Passed, InOrder
<1>2. Passed => InOrder
  BY DEF Passed
<1> QED BY <1>1, <1>2, PassedStep, PTL DEF Spec

=============================================================================
