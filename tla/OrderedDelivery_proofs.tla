----------------------- MODULE OrderedDelivery_proofs -----------------------
(* Ordered delivery follows from giving out only the oldest message. *)
EXTENDS OrderedDelivery, TLAPS

TypeOK ==
    /\ submitted \in Seq(Messages)
    /\ completed \in Nat
    /\ got \in [Listeners -> Seq(Messages)]

\* No message is submitted twice.
Distinct ==
    \A p, q \in 1 .. Len(submitted) : submitted[p] = submitted[q] => p = q

\* Nobody has a message that is behind the one that is being given out.
NoneAhead ==
    \A l \in Listeners : \A i \in 1 .. Len(got[l]) :
        \A p \in 1 .. Len(submitted) :
            got[l][i] = submitted[p] => p <= completed + 1

IInv == TypeOK /\ Distinct /\ NoneAhead /\ InOrder

LEMMA Submitting ==
    ASSUME IInv, NEW m \in Messages, Submit(m)
    PROVE  IInv'
<1> USE DEF IInv, TypeOK
<1>1. /\ submitted' \in Seq(Messages)
      /\ Len(submitted') = Len(submitted) + 1
      /\ submitted'[Len(submitted) + 1] = m
      /\ \A p \in 1 .. Len(submitted) : submitted'[p] = submitted[p]
  BY DEF Submit
<1>2. completed' = completed /\ got' = got
  BY DEF Submit
<1>3. \A p \in 1 .. Len(submitted) : submitted[p] # m
  BY DEF Submit, Submitted
<1>4. \A l \in Listeners : \A i \in 1 .. Len(got[l]) : got[l][i] # m
  BY DEF Submit, Given
<1>5. \A p \in 1 .. Len(submitted') : p \in 1 .. Len(submitted) \/ p = Len(submitted) + 1
  BY <1>1
<1>6. Distinct'
  BY <1>1, <1>3, <1>5 DEF Distinct
<1>7. \A l \in Listeners : \A i \in 1 .. Len(got[l]) :
        \A p \in 1 .. Len(submitted') : got[l][i] = submitted'[p] =>
            p \in 1 .. Len(submitted) /\ got[l][i] = submitted[p]
  BY <1>1, <1>4, <1>5
<1>8. NoneAhead'
  BY <1>2, <1>7 DEF NoneAhead
<1>9. InOrder'
  BY <1>2, <1>7 DEF InOrder
<1>10. QED
  BY <1>1, <1>2, <1>6, <1>8, <1>9

\* What one more message x at the end of got[l] means.
LEMMA Appending ==
    ASSUME TypeOK, NEW l \in Listeners, NEW x \in Messages,
           got' = [got EXCEPT ![l] = Append(@, x)]
    PROVE  /\ got' \in [Listeners -> Seq(Messages)]
           /\ \A k \in Listeners \ {l} : got'[k] = got[k]
           /\ Len(got'[l]) = Len(got[l]) + 1
           /\ got'[l][Len(got[l]) + 1] = x
           /\ \A i \in 1 .. Len(got[l]) : got'[l][i] = got[l][i]
<1>1. got[l] \in Seq(Messages) /\ got'[l] = Append(got[l], x)
  BY DEF TypeOK
<1>2. Append(got[l], x) \in Seq(Messages)
  BY <1>1
<1>3. got' \in [Listeners -> Seq(Messages)] /\ \A k \in Listeners \ {l} : got'[k] = got[k]
  BY <1>2 DEF TypeOK
<1>4. QED
  BY <1>1, <1>3

LEMMA Giving ==
    ASSUME IInv, NEW l \in Listeners, Give(l)
    PROVE  IInv'
<1> USE DEF IInv
<1> DEFINE x == submitted[completed + 1]
<1>1. x \in Messages /\ completed + 1 \in 1 .. Len(submitted)
  BY DEF TypeOK, Give
<1>2. submitted' = submitted /\ completed' = completed
  BY DEF Give
<1>3. got' = [got EXCEPT ![l] = Append(@, x)]
  BY DEF Give
<1> HIDE DEF x
<1>4. /\ got' \in [Listeners -> Seq(Messages)]
      /\ \A k \in Listeners \ {l} : got'[k] = got[k]
      /\ Len(got'[l]) = Len(got[l]) + 1
      /\ got'[l][Len(got[l]) + 1] = x
      /\ \A i \in 1 .. Len(got[l]) : got'[l][i] = got[l][i]
  BY <1>1, <1>3, Appending
<1>5. \A i \in 1 .. Len(got'[l]) : i \in 1 .. Len(got[l]) \/ i = Len(got[l]) + 1
  BY <1>4 DEF TypeOK
<1>6. \A p \in 1 .. Len(submitted) : x = submitted[p] => p = completed + 1
  BY <1>1 DEF Distinct, x
<1>7. Distinct'
  BY <1>2 DEF Distinct
<1>8. NoneAhead'
  <2>1. ASSUME NEW k \in Listeners, NEW i \in 1 .. Len(got'[k]),
               NEW p \in 1 .. Len(submitted), got'[k][i] = submitted[p]
        PROVE  p <= completed + 1
    <3>1. CASE k # l \/ i \in 1 .. Len(got[l])
      BY <1>4, <2>1, <3>1 DEF NoneAhead
    <3>2. CASE k = l /\ i = Len(got[l]) + 1
      BY <1>1, <1>4, <1>6, <2>1, <3>2
    <3>3. QED
      BY <1>5, <3>1, <3>2
  <2>2. QED
    BY <1>2, <2>1 DEF NoneAhead
<1>9. InOrder'
  <2>1. ASSUME NEW k \in Listeners, NEW i \in 1 .. Len(got'[k]), NEW j \in 1 .. Len(got'[k]),
               NEW p \in 1 .. Len(submitted), NEW q \in 1 .. Len(submitted),
               i < j, got'[k][i] = submitted[p], got'[k][j] = submitted[q]
        PROVE  p <= q
    <3>1. CASE k # l \/ j \in 1 .. Len(got[l])
      <4>1. i \in 1 .. Len(got[k]) /\ j \in 1 .. Len(got[k])
        BY <1>4, <2>1, <3>1 DEF TypeOK
      <4>2. got'[k][i] = got[k][i] /\ got'[k][j] = got[k][j]
        BY <1>4, <4>1
      <4>3. QED
        BY <2>1, <4>1, <4>2 DEF InOrder
    <3>2. CASE k = l /\ j = Len(got[l]) + 1
      <4>1. q = completed + 1
        BY <1>4, <1>6, <2>1, <3>2
      <4>2. i \in 1 .. Len(got[l]) /\ got[l][i] = submitted[p]
        BY <1>4, <2>1, <3>2 DEF TypeOK
      <4>3. QED
        BY <4>1, <4>2 DEF NoneAhead
    <3>3. QED
      BY <1>5, <3>1, <3>2
  <2>2. QED
    BY <1>2, <2>1 DEF InOrder
<1>10. QED
  BY <1>2, <1>4, <1>7, <1>8, <1>9 DEF TypeOK

LEMMA GivingDirectly ==
    ASSUME IInv, NEW l \in Listeners, NEW m \in Messages, GiveDirectly(l, m)
    PROVE  IInv'
<1> USE DEF IInv
<1>1. submitted' = submitted /\ completed' = completed
  BY DEF GiveDirectly
<1>2. \A p \in 1 .. Len(submitted) : m # submitted[p]
  BY DEF GiveDirectly, Submitted
<1>3. got' = [got EXCEPT ![l] = Append(@, m)]
  BY DEF GiveDirectly
<1>4. /\ got' \in [Listeners -> Seq(Messages)]
      /\ \A k \in Listeners \ {l} : got'[k] = got[k]
      /\ Len(got'[l]) = Len(got[l]) + 1
      /\ got'[l][Len(got[l]) + 1] = m
      /\ \A i \in 1 .. Len(got[l]) : got'[l][i] = got[l][i]
  BY <1>3, Appending
<1>5. \A i \in 1 .. Len(got'[l]) : i \in 1 .. Len(got[l]) \/ i = Len(got[l]) + 1
  BY <1>4 DEF TypeOK
<1>6. \A k \in Listeners : \A i \in 1 .. Len(got'[k]) :
        \A p \in 1 .. Len(submitted) : got'[k][i] = submitted[p] =>
            i \in 1 .. Len(got[k]) /\ got[k][i] = submitted[p]
  BY <1>2, <1>4, <1>5
<1>7. NoneAhead' /\ InOrder' /\ Distinct'
  BY <1>1, <1>6 DEF NoneAhead, InOrder, Distinct
<1>8. QED
  BY <1>1, <1>4, <1>7 DEF TypeOK

\* Whatever the listeners, messages and interleaving, a listener accepts the
\* queued messages in the order in which they were queued.
THEOREM OrderTheorem == Spec => []InOrder
<1>1. Init => IInv
  BY DEF Init, IInv, TypeOK, Distinct, NoneAhead, InOrder
<1>2. IInv /\ [Next]_vars => IInv'
  <2> SUFFICES ASSUME IInv, [Next]_vars PROVE IInv'
    OBVIOUS
  <2>1. CASE Complete
    BY <2>1 DEF IInv, TypeOK, Distinct, NoneAhead, InOrder, Complete
  <2>2. CASE UNCHANGED vars
    BY <2>2 DEF IInv, TypeOK, Distinct, NoneAhead, InOrder, vars
  <2>3. QED
    BY <2>1, <2>2, Submitting, Giving, GivingDirectly DEF Next
<1>3. IInv => InOrder
  BY DEF IInv
<1>4. QED
  BY <1>1, <1>2, <1>3, PTL DEF Spec
=============================================================================
