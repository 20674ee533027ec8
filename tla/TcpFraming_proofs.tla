-------------------------- MODULE TcpFraming_proofs --------------------------
(***************************************************************************)
(* Proofs about TcpFraming for all senders, messages, packets, moduli and  *)
(* capacities.  The invariant places the messages one behind the other,    *)
(* the last one as far as its sender has come with it, and puts the        *)
(* receiver at the start of a message as long as it has skipped none.      *)
(***************************************************************************)
EXTENDS TcpFraming, Integers, TLAPS

End == IF sent = << >> THEN 0 ELSE sent[Len(sent)].to

\* The messages follow each other without gaps.
Placed ==
    /\ \A i \in 1 .. Len(sent) : sent[i].to = sent[i].from + Header + sent[i].size
    /\ sent # << >> => sent[1].from = 0
    /\ \A i \in 1 .. Len(sent) - 1 : sent[i + 1].from = sent[i].to
    /\ written <= End

\* Who is in write(), and how far.
Mid(s) == ~Idle(s) /\ ~Untouched(s)
Writing ==
    /\ \A s \in Senders : out[s].left <= Header + out[s].size
    /\ loop = "peer" => \A s, t \in Senders : s = t \/ Idle(s) \/ Idle(t)
    /\ fault = "none" /\ link = "open" =>
          \/ written = End /\ \A s \in Senders : ~Mid(s)
          \/ \E s \in Senders :
                /\ Mid(s) /\ written + out[s].left = End
                /\ \A t \in Senders \ {s} : ~Mid(t)

Delivered ==
    /\ Len(got) + 1 <= next
    /\ \A i \in 1 .. Len(got) : got[i].msg \in 1 .. Len(sent)
    /\ WholeMessages

TooLong == \E i \in 1 .. Len(sent) : sent[i].size >= Width
Boundary == IF next <= Len(sent) THEN sent[next].from ELSE End
Stepping == Lost \/ TooLong \/ parsed = Boundary

IInv == TypeOK /\ Placed /\ Writing /\ Delivered /\ Stepping /\ StaysInStep

-----------------------------------------------------------------------------
LEMMA Positive == Header \in Nat /\ Header > 0 /\ Width \in Nat /\ Width > 0
  BY BoundsAssumption

LEMMA EndNatural ==
    ASSUME TypeOK
    PROVE  End \in Nat
<1>1. CASE sent = << >>
  BY <1>1 DEF End
<1>2. CASE sent # << >>
  <2>1. Len(sent) \in 1 .. Len(sent)
    BY <1>2 DEF TypeOK
  <2>2. sent[Len(sent)] \in Sent
    BY <2>1 DEF TypeOK
  <2> QED BY <1>2, <2>2 DEF End, Sent
<1> QED BY <1>1, <1>2

\* The length that a header holds, and when it is the length of the body.
LEMMA HeldLength ==
    ASSUME NEW m \in Sent
    PROVE  /\ BodyLength(m) \in Nat
           /\ m.size < Width => BodyLength(m) = m.size
  BY Positive DEF BodyLength, Sent

\* What only concerns the receiving end or the registry leaves the placement of
\* the messages and the senders as they are.
LEMMA SendingUnchanged ==
    ASSUME IInv, UNCHANGED <<loop, sending>>, fault' = "none" => fault = "none"
    PROVE  Placed' /\ Writing'
  BY DEF IInv, sending, Placed, Writing, End, Mid, Idle, Untouched

\* What does not touch the receiving loop, nor the messages, leaves it in step.
LEMMA ReceivingUnchanged ==
    ASSUME IInv, UNCHANGED <<sent, parsed, next, got>>, read <= read',
           read \in Nat, read' \in Nat
    PROVE  Delivered' /\ Stepping'
<1>1. \A i \in 1 .. Len(got) : got[i].msg \in 1 .. Len(sent) /\ got[i] \in Given
  BY DEF IInv, Delivered, TypeOK
<1>2. WholeMessages'
  <2> SUFFICES ASSUME NEW i \in 1 .. Len(got)
               PROVE  /\ sent[got[i].msg].size < Width => got[i].body = sent[got[i].msg].size
                      /\ sent[got[i].msg].from + Header + got[i].body <= read'
    BY DEF WholeMessages, IInv, TypeOK
  <2> DEFINE m == sent[got[i].msg]
  <2>0. m \in Sent /\ got[i] \in Given
    BY <1>1 DEF IInv, TypeOK
  <2>1. m.from \in Nat /\ got[i].body \in Nat
    BY <2>0 DEF Sent, Given
  <2>2. /\ m.size < Width => got[i].body = m.size
        /\ m.from + Header + got[i].body <= read
    BY DEF IInv, Delivered, WholeMessages, TypeOK
  <2>3. m.from + Header + got[i].body \in Nat
    <3> DEFINE f == m.from  b == got[i].body
    <3> HIDE DEF m, f, b
    <3>1. f \in Nat /\ b \in Nat => f + Header + b \in Nat
      BY Positive
    <3> QED BY <2>1, <3>1 DEF f, b
  <2>4. m.from + Header + got[i].body <= read'
    BY <2>2, <2>3
  <2> QED BY <2>2, <2>4
<1>4. Delivered'
  BY <1>1, <1>2 DEF IInv, Delivered
<1>3. Stepping'
  BY DEF IInv, Stepping, Lost, TooLong, Boundary, End
<1> QED BY <1>3, <1>4

LEMMA IInvInit == Init => IInv
<1> SUFFICES ASSUME Init PROVE IInv
  OBVIOUS
<1>1. TypeOK
  BY LoopsAssumption DEF Init, TypeOK, LibraryTypes, Types, Sent, Given
<1>2. Placed /\ Writing
  BY <1>1, Positive DEF Init, Placed, Writing, End, Mid, Idle
<1>3. Delivered /\ Stepping /\ StaysInStep
  BY DEF Init, Delivered, WholeMessages, Stepping, Boundary, End, StaysInStep
<1> QED BY <1>1, <1>2, <1>3 DEF IInv

-----------------------------------------------------------------------------
(* One lemma for each action, or for actions that change the same things. *)

LEMMA SendMessageStep ==
    ASSUME IInv, NEW s \in Senders, NEW kind \in Kinds, SendMessage(s, kind)
    PROVE  IInv'
<1> USE DEF SendMessage, receiving, registry
<1>0. kind.type \in Types /\ kind.size \in Nat
  BY KindsAssumption
<1>1. TypeOK'
  BY <1>0, Positive DEF IInv, TypeOK
<1>2. Placed'
  BY DEF IInv, Placed, End
<1>3. /\ out'[s].size = kind.size /\ out'[s].left = Header + kind.size
      /\ \A t \in Senders \ {s} : out'[t] = out[t]
  BY DEF IInv, TypeOK
<1>4. ~Mid(s) /\ ~Mid(s)'
  BY <1>3 DEF Mid, Idle, Untouched
<1>5. \A t \in Senders : Mid(t)' <=> Mid(t)
  BY <1>3, <1>4 DEF Mid, Idle, Untouched
<1>6. loop' = "peer" => \A r, t \in Senders : r = t \/ Idle(r)' \/ Idle(t)'
  BY <1>3 DEF MayWrite, Idle
<1>6a. \A t \in Senders : out'[t].left <= Header + out'[t].size
  <2> SUFFICES ASSUME NEW t \in Senders PROVE out'[t].left <= Header + out'[t].size
    OBVIOUS
  <2>1. CASE t = s
    BY <2>1, <1>0, <1>3, Positive
  <2>2. CASE t # s
    BY <2>2, <1>3 DEF IInv, Writing
  <2> QED BY <2>1, <2>2
<1>7. Writing'
  <2>1. CASE \E t \in Senders : Mid(t) /\ written + out[t].left = End /\
                             \A r \in Senders \ {t} : ~Mid(r)
    <3>1. PICK t \in Senders : /\ Mid(t) /\ written + out[t].left = End
                               /\ \A r \in Senders \ {t} : ~Mid(r)
      BY <2>1
    <3>2. out'[t] = out[t]
      BY <3>1, <1>3, <1>4
    <3> QED BY <3>1, <3>2, <1>5, <1>6, <1>6a DEF Writing, End
  <2>2. CASE written = End /\ \A t \in Senders : ~Mid(t)
    BY <2>2, <1>5, <1>6, <1>6a DEF Writing, End
  <2> QED BY <2>1, <2>2 DEF IInv, Writing
<1>8. Delivered' /\ Stepping'
  BY ReceivingUnchanged DEF IInv, TypeOK
<1>9. StaysInStep'
  BY DEF IInv, StaysInStep, Lost
<1> QED BY <1>1, <1>2, <1>7, <1>8, <1>9 DEF IInv

LEMMA WriteBetweenStep ==
    ASSUME IInv, NEW s \in Senders, WriteBetween(s)
    PROVE  IInv'
<1> USE DEF WriteBetween, sending, receiving, registry
<1>1. TypeOK'
  BY DEF IInv, TypeOK
<1>2. Placed' /\ Writing'
  BY DEF IInv, Placed, End, Writing, Idle
<1>3. Delivered' /\ Stepping'
  BY ReceivingUnchanged DEF IInv, TypeOK
<1>4. loop = "direct"
  <2>1. PICK t \in Senders : ~Idle(t) /\ ~Untouched(t)
    BY DEF Midway
  <2>2. s # t /\ ~Idle(s)
    BY <2>1
  <2> QED BY <2>1, <2>2 DEF IInv, Writing, TypeOK
<1>5. StaysInStep'
  BY <1>4 DEF IInv, StaysInStep, Lost
<1> QED BY <1>1, <1>2, <1>3, <1>5 DEF IInv

LEMMA EndLinkStep ==
    ASSUME IInv, EndLink
    PROVE  IInv'
<1> USE DEF EndLink, receiving, registry
<1>1. TypeOK'
  BY DEF IInv, TypeOK
<1>2. Placed'
  BY DEF IInv, Placed, End
<1>3. \A s \in Senders : Idle(s)' /\ out'[s].left <= Header + out'[s].size
  <2> SUFFICES ASSUME NEW s \in Senders
               PROVE  out'[s].left = 0 /\ 0 <= Header + out'[s].size
    BY DEF Idle
  <2>1. out[s] \in [type : Types, size : Nat, left : Nat]
    BY DEF IInv, TypeOK
  <2>2. out'[s].left = 0 /\ out'[s].size \in Nat
    BY <2>1
  <2> QED BY <2>2, Positive
<1>4. Writing'
  BY <1>3 DEF Writing
<1>5. Delivered' /\ Stepping'
  BY ReceivingUnchanged DEF IInv, TypeOK
<1>6. StaysInStep'
  BY DEF IInv, StaysInStep, Lost
<1> QED BY <1>1, <1>2, <1>4, <1>5, <1>6 DEF IInv

\* The actions of the receiving end that leave what was sent, and strMsg, but
\* for bytes that are added to it.
LEMMA ReceivingStep ==
    ASSUME IInv,
           \/ \E type \in Registering : RegisterMsg(type) \/ Grown(type)
           \/ Read \/ ReadReset \/ ReadNothing \/ ParseEnd \/ ParseRaced
           \/ ReadMore \/ CutOff \/ OverRead
    PROVE  IInv'
<1> USE DEF RegisterMsg, Grown, Read, ReadReset, ReadNothing, ParseEnd, ParseRaced,
            ReadMore, CutOff, OverRead, Known, Parsing
<1>1. /\ UNCHANGED <<loop, sending, parsed, next, got>>
      /\ fault = "none"
      /\ fault' \in {"none", "racedRegistry", "overread"} \/
         (fault' = "outOfRange" /\ loop = "direct")
  BY DEF sending, receiving, registry
<1>2. read' \in Nat /\ read <= read' /\ read' <= written
  <2>1. CASE Read
    <3>1. PICK k \in 1 .. Lower(MaxRead, Available) : read' = read + k
      BY <2>1
    <3>2. k \in Nat /\ k <= written - read
      BY <3>1, BoundsAssumption DEF Lower, Available, IInv, TypeOK
    <3> QED BY <3>1, <3>2 DEF IInv, TypeOK
  <2>2. CASE read' = read
    BY <2>2 DEF IInv, TypeOK
  <2> QED BY <2>1, <2>2 DEF receiving
<1>3. {registered', growing'} \subseteq SUBSET Types
  BY RegisteringAssumption DEF registry, IInv, TypeOK
<1>4. at' \in {"select", "parse", "more", "last", "closing", "left"}
  BY DEF receiving, ReadOn, After, IInv, TypeOK
<1>5. TypeOK'
  BY <1>1, <1>2, <1>3, <1>4 DEF IInv, TypeOK, sending
<1>6. Placed' /\ Writing'
  BY <1>1, SendingUnchanged
<1>7. Delivered' /\ Stepping'
  BY <1>1, <1>2, ReceivingUnchanged DEF IInv, TypeOK, sending
<1>8. StaysInStep'
  BY <1>1 DEF StaysInStep
<1> QED BY <1>5, <1>6, <1>7, <1>8 DEF IInv

LEMMA ParseGarbledStep ==
    ASSUME IInv, ParseGarbled
    PROVE  IInv'
<1> USE DEF ParseGarbled, Parsing, registry
<1>1. TypeOK'
  BY DEF IInv, TypeOK, receiving, sending
<1>2. Placed' /\ Writing' /\ Delivered' /\ Stepping'
  BY SendingUnchanged, ReceivingUnchanged DEF IInv, TypeOK, receiving, sending
<1>3. End \in Nat
  BY EndNatural DEF IInv
<1>4. Lost \/ TooLong
  <2> SUFFICES ASSUME parsed = Boundary PROVE FALSE
    BY DEF IInv, Stepping
  <2>1. CASE next <= Len(sent)
    BY <2>1 DEF Boundary, InStep
  <2>2. CASE ~(next <= Len(sent))
    BY <2>2, <1>3 DEF Boundary, Received, IInv, TypeOK, Placed
  <2> QED BY <2>1, <2>2
<1>5. StaysInStep'
  BY <1>4 DEF StaysInStep, Lost, TooLong, receiving, sending
<1> QED BY <1>1, <1>2, <1>5 DEF IInv

LEMMA ParseUnknownStep ==
    ASSUME IInv, ParseUnknown
    PROVE  IInv'
<1> USE DEF ParseUnknown, Parsing, registry
<1>1. /\ next' \in next + 1 .. Len(sent) + 1
      /\ parsed' = read /\ at' \in {"left", "select"}
      /\ UNCHANGED <<loop, sending, registry, read, got, fault>>
  OBVIOUS
<1>2. TypeOK'
  BY <1>1 DEF IInv, TypeOK, sending
<1>3. Placed' /\ Writing'
  BY <1>1, SendingUnchanged
<1>4. Delivered'
  BY <1>1 DEF IInv, Delivered, WholeMessages, TypeOK, sending
<1>5. Stepping'
  BY <1>1 DEF IInv, Delivered, Stepping, Lost, TypeOK
<1>6. StaysInStep'
  BY <1>1 DEF StaysInStep
<1> QED BY <1>2, <1>3, <1>4, <1>5, <1>6 DEF IInv

LEMMA DeliverStep ==
    ASSUME IInv, Deliver
    PROVE  IInv'
<1> DEFINE m == sent[next]
<1> DEFINE b == BodyLength(m)
<1> DEFINE g == [msg |-> next, body |-> b]
<1>1. /\ next <= Len(sent) /\ m.from = parsed /\ read - parsed >= b + Header
      /\ got' = Append(got, g) /\ next' = next + 1
      /\ parsed' = parsed + b + Header /\ at' = After(m, at)
      /\ at \in {"parse", "closing"} /\ fault = "none"
      /\ UNCHANGED <<loop, sent, sending, registry, read, fault>>
  BY DEF Deliver, Known, Parsing, InStep, Complete, Received, sending
<1>2. m \in Sent /\ next \in Nat
  BY <1>1 DEF IInv, TypeOK
<1>3. b \in Nat /\ (m.size < Width => b = m.size)
  BY <1>2, HeldLength
<1>4. got \in Seq(Given) /\ g \in Given
  BY <1>2, <1>3 DEF IInv, TypeOK, Given
<1> HIDE DEF b, m
<1>5. TypeOK'
  <2>1. got' \in Seq(Given)
    BY <1>1, <1>4
  <2>2. parsed' \in Nat /\ parsed' <= read
    BY <1>1, <1>3, Positive DEF IInv, TypeOK
  <2>3. next' \in Nat /\ next' \in 1 .. Len(sent) + 1
    BY <1>1 DEF IInv, TypeOK
  <2>4. at' \in {"select", "parse", "more", "closing", "left"}
    BY <1>1 DEF After
  <2> QED BY <1>1, <2>1, <2>2, <2>3, <2>4 DEF IInv, TypeOK, sending, registry
<1>6. Placed' /\ Writing'
  BY <1>1, SendingUnchanged
<1>7. /\ Len(got') = Len(got) + 1 /\ got'[Len(got) + 1] = g
      /\ \A i \in 1 .. Len(got) : got'[i] = got[i]
  BY <1>1, <1>4
<1>8. g.msg = next /\ g.body = b
  OBVIOUS
<1> HIDE DEF g
<1>9. Delivered'
  <2>1. Len(got') + 1 <= next'
    BY <1>1, <1>7 DEF IInv, Delivered, TypeOK
  <2>2. \A i \in 1 .. Len(got') : got'[i].msg \in 1 .. Len(sent)
    BY <1>1, <1>4, <1>7, <1>8 DEF IInv, Delivered, TypeOK
  <2>3. WholeMessages'
    <3> SUFFICES ASSUME NEW i \in 1 .. Len(got')
                 PROVE  /\ sent[got'[i].msg].size < Width
                              => got'[i].body = sent[got'[i].msg].size
                        /\ sent[got'[i].msg].from + Header + got'[i].body <= read
      BY <1>1 DEF WholeMessages
    <3>1. CASE i = Len(got) + 1
      <4>1. sent[got'[i].msg] = m /\ got'[i].body = b
        BY <3>1, <1>7, <1>8 DEF m
      <4>2. m.from + Header + b <= read
        BY <1>1, <1>3, Positive DEF IInv, TypeOK
      <4> QED BY <4>1, <4>2, <1>3
    <3>2. CASE i # Len(got) + 1
      <4>1. i \in 1 .. Len(got) /\ got'[i] = got[i]
        BY <3>2, <1>7, <1>4
      <4> QED BY <4>1 DEF IInv, Delivered, WholeMessages
    <3> QED BY <3>1, <3>2
  <2> QED BY <2>1, <2>2, <2>3, <1>1 DEF Delivered
<1>10. Stepping'
  <2> SUFFICES ASSUME ~Lost', ~TooLong' PROVE parsed' = Boundary'
    BY DEF Stepping
  <2>1. ~Lost /\ ~TooLong
    BY <1>1, <1>7 DEF Lost, TooLong, IInv, TypeOK
  <2>2. b = m.size
    <3>1. next \in 1 .. Len(sent)
      BY <1>1 DEF IInv, TypeOK
    <3>2. ~(m.size >= Width) /\ m.size \in Nat
      BY <2>1, <3>1, <1>2 DEF TooLong, m, Sent
    <3> QED BY <3>2, <1>3, Positive
  <2>3. parsed' = m.to
    <3>1. m.to = m.from + Header + m.size
      BY <1>1 DEF IInv, Placed, TypeOK, m
    <3> QED BY <3>1, <2>2, <1>1, <1>3, Positive DEF IInv, TypeOK
  <2>4. CASE next = Len(sent)
    <3>1. ~(next' <= Len(sent)) /\ sent # << >>
      BY <2>4, <1>1 DEF IInv, TypeOK
    <3>2. Boundary' = sent[Len(sent)].to
      BY <3>1, <1>1 DEF Boundary, End
    <3> QED BY <3>2, <2>3, <2>4 DEF m
  <2>5. CASE next # Len(sent)
    <3>1. next \in 1 .. Len(sent) - 1
      BY <2>5, <1>1 DEF IInv, TypeOK
    <3>2. sent[next + 1].from = m.to
      BY <3>1 DEF IInv, Placed, m
    <3> QED BY <2>3, <3>1, <3>2, <1>1 DEF Boundary
  <2> QED BY <2>4, <2>5
<1>11. StaysInStep'
  BY <1>1 DEF StaysInStep
<1> QED BY <1>5, <1>6, <1>9, <1>10, <1>11 DEF IInv

LEMMA WriteStep ==
    ASSUME IInv, NEW s \in Senders, Write(s)
    PROVE  IInv'
<1> DEFINE m == [type |-> out[s].type, size |-> out[s].size, from |-> written,
                 to |-> written + Header + out[s].size]
<1>1. PICK k \in 1 .. Lower(out[s].left, (read + Capacity) - written) :
         /\ written' = written + k
         /\ out' = [out EXCEPT ![s].left = @ - k]
  BY DEF Write
<1>2. out[s] \in [type : Types, size : Nat, left : Nat]
  BY DEF IInv, TypeOK
<1>3. k \in Nat /\ k > 0 /\ k <= out[s].left
  <2>1. out[s].left \in Nat /\ (read + Capacity) - written \in Int
    BY <1>2, BoundsAssumption DEF IInv, TypeOK
  <2> DEFINE a == out[s].left
  <2> DEFINE b == (read + Capacity) - written
  <2> HIDE DEF a, b
  <2>2. a \in Nat /\ b \in Int /\ k \in 1 .. Lower(a, b) => k \in Nat /\ k > 0 /\ k <= a
    BY DEF Lower
  <2> QED BY <1>1, <2>1, <2>2 DEF a, b
<1>4. /\ fault = "none" /\ link = "open" /\ ~Idle(s) /\ sent' = Place(s)
      /\ (Untouched(s) => ~Midway)
      /\ UNCHANGED <<loop, link, registered, growing, read, parsed, next, at, got, fault>>
  BY DEF Write, registry, receiving
<1>5. /\ out'[s].left = out[s].left - k /\ out'[s].size = out[s].size
      /\ \A t \in Senders \ {s} : out'[t] = out[t]
  BY <1>1, <1>2 DEF IInv, TypeOK
<1>6. out' \in [Senders -> [type : Types, size : Nat, left : Nat]]
  <2>1. out[s].left - k \in Nat
    BY <1>2, <1>3
  <2> QED BY <1>1, <1>2, <2>1 DEF IInv, TypeOK
<1>7. loop' = "peer" => \A r, t \in Senders : r = t \/ Idle(r)' \/ Idle(t)'
  BY <1>4, <1>5 DEF IInv, Writing, Idle
<1>7a. \A t \in Senders : out'[t].left <= Header + out'[t].size
  <2> SUFFICES ASSUME NEW t \in Senders PROVE out'[t].left <= Header + out'[t].size
    OBVIOUS
  <2>1. CASE t = s
    <3>1. out[s].left <= Header + out[s].size
      BY DEF IInv, Writing
    <3> QED BY <3>1, <2>1, <1>2, <1>3, <1>5, Positive
  <2>2. CASE t # s
    BY <2>2, <1>5 DEF IInv, Writing
  <2> QED BY <2>1, <2>2
<1>8. \A t \in Senders \ {s} : ~Mid(t)' /\ ~Mid(t)
  BY <1>4, <1>5 DEF IInv, Writing, Mid, Midway, Idle, Untouched
<1>9. written \in Nat /\ written' \in Nat /\ written' = written + k
  BY <1>1, <1>3 DEF IInv, TypeOK
<1>10. End \in Nat
  BY EndNatural DEF IInv
<1>11. out[s].size \in Nat /\ out[s].type \in Types /\ out[s].left \in Nat
  BY <1>2
<1>12. StaysInStep'
  BY <1>4 DEF StaysInStep

<1>13. CASE Untouched(s)
  <2>1. written = End /\ out[s].left = Header + out[s].size
    BY <1>13, <1>4 DEF IInv, Writing, Midway, Mid, Untouched
  <2>2. m \in Sent /\ sent' = Append(sent, m) /\ sent \in Seq(Sent)
    BY <1>13, <1>4, <1>9, <1>11, Positive DEF Sent, Place, IInv, TypeOK
  <2>3. m.from = written /\ m.to = written + Header + out[s].size /\ m.size = out[s].size
    OBVIOUS
  <2> HIDE DEF m
  <2>4. /\ sent' \in Seq(Sent) /\ sent' # << >> /\ Len(sent') = Len(sent) + 1
        /\ \A i \in 1 .. Len(sent) : sent'[i] = sent[i]
        /\ sent'[Len(sent) + 1] = m
    BY <2>2
  <2>5. End' = m.to
    BY <2>4 DEF End
  <2>6. End' = written + out[s].left
    BY <2>1, <2>3, <2>5, <1>9, <1>11, Positive
  <2>7. TypeOK'
    BY <2>4, <1>4, <1>6, <1>9, <1>3 DEF IInv, TypeOK
  <2>8. Placed'
    <3>1. \A i \in 1 .. Len(sent') : sent'[i].to = sent'[i].from + Header + sent'[i].size
      <4> SUFFICES ASSUME NEW i \in 1 .. Len(sent')
                   PROVE  sent'[i].to = sent'[i].from + Header + sent'[i].size
        OBVIOUS
      <4>1. CASE i = Len(sent) + 1
        BY <4>1, <2>3, <2>4
      <4>2. CASE i # Len(sent) + 1
        <5>1. i \in 1 .. Len(sent) /\ sent'[i] = sent[i]
          BY <4>2, <2>4, <2>2
        <5> QED BY <5>1 DEF IInv, Placed
      <4> QED BY <4>1, <4>2
    <3>2. sent'[1].from = 0
      <4>1. CASE sent = << >>
        BY <4>1, <2>1, <2>3, <2>4 DEF End
      <4>2. CASE sent # << >>
        <5>1. 1 \in 1 .. Len(sent)
          BY <4>2, <2>2
        <5> QED BY <4>2, <5>1, <2>4 DEF IInv, Placed
      <4> QED BY <4>1, <4>2
    <3>3. \A i \in 1 .. Len(sent') - 1 : sent'[i + 1].from = sent'[i].to
      <4> SUFFICES ASSUME NEW i \in 1 .. Len(sent') - 1
                   PROVE  sent'[i + 1].from = sent'[i].to
        OBVIOUS
      <4>1. i \in 1 .. Len(sent) /\ sent'[i] = sent[i] /\ Len(sent) \in Nat
        BY <2>4, <2>2
      <4>2. CASE i = Len(sent)
        <5>1. sent # << >>
          BY <4>1
        <5> QED BY <4>1, <4>2, <5>1, <2>1, <2>3, <2>4 DEF End
      <4>3. CASE i # Len(sent)
        <5>1. i \in 1 .. Len(sent) - 1 /\ i + 1 \in 1 .. Len(sent)
          BY <4>1, <4>3
        <5> QED BY <4>1, <5>1, <2>4 DEF IInv, Placed
      <4> QED BY <4>2, <4>3
    <3>4. written' <= End'
      BY <2>6, <1>9, <1>3, <1>11
    <3> QED BY <3>1, <3>2, <3>3, <3>4 DEF Placed
  <2>9. Writing'
    <3>1. written' + out'[s].left = End'
      BY <2>6, <1>5, <1>9, <1>3, <1>11
    <3>2. ~Untouched(s)'
      BY <2>1, <1>3, <1>5, <1>11, Positive DEF Untouched
    <3>3. CASE Idle(s)'
      <4>1. ~Mid(s)'
        BY <3>3 DEF Mid
      <4>2. written' = End'
        BY <3>1, <3>3, <1>9 DEF Idle
      <4> QED BY <4>1, <4>2, <1>7, <1>8, <1>7a DEF Writing
    <3>4. CASE ~Idle(s)'
      <4>1. Mid(s)'
        BY <3>2, <3>4 DEF Mid
      <4> QED BY <4>1, <3>1, <1>7, <1>8, <1>7a DEF Writing
    <3> QED BY <3>3, <3>4
  <2>10. Delivered'
    <3>1. \A i \in 1 .. Len(got) : /\ got[i].msg \in 1 .. Len(sent)
                                  /\ sent'[got[i].msg] = sent[got[i].msg]
      BY <2>4 DEF IInv, Delivered
    <3>2. \A i \in 1 .. Len(got) : got[i].msg \in 1 .. Len(sent')
      BY <3>1, <2>2, <2>4
    <3>3. WholeMessages'
      BY <3>1, <1>4 DEF IInv, Delivered, WholeMessages
    <3> QED BY <3>2, <3>3, <1>4 DEF IInv, Delivered
  <2>11. Stepping'
    <3> SUFFICES ASSUME ~Lost', ~TooLong' PROVE parsed' = Boundary'
      BY DEF Stepping
    <3>1. ~Lost /\ ~TooLong
      BY <1>4, <2>2, <2>4 DEF Lost, TooLong
    <3>2. parsed = Boundary
      BY <3>1 DEF IInv, Stepping
    <3>3. CASE next <= Len(sent)
      <4>1. next \in 1 .. Len(sent) /\ next <= Len(sent')
        BY <3>3, <2>2, <2>4 DEF IInv, TypeOK
      <4> QED BY <4>1, <3>2, <3>3, <1>4, <2>4 DEF Boundary
    <3>4. CASE ~(next <= Len(sent))
      <4>1. next = Len(sent) + 1 /\ next <= Len(sent')
        BY <3>4, <2>2, <2>4 DEF IInv, TypeOK
      <4>2. Boundary' = written
        BY <4>1, <1>4, <2>3, <2>4 DEF Boundary
      <4> QED BY <4>2, <3>2, <3>4, <2>1, <1>4 DEF Boundary
    <3> QED BY <3>3, <3>4
  <2> QED BY <2>7, <2>8, <2>9, <2>10, <2>11, <1>12 DEF IInv

<1>14. CASE ~Untouched(s)
  <2>1. Mid(s) /\ sent' = sent /\ End' = End
    BY <1>14, <1>4 DEF Mid, Place, End
  <2>2. written + out[s].left = End
    BY <2>1, <1>8, <1>4 DEF IInv, Writing
  <2>3. written' + out'[s].left = End'
    BY <2>1, <2>2, <1>5, <1>9, <1>3, <1>11
  <2>4. TypeOK'
    BY <2>1, <1>4, <1>6, <1>9, <1>3 DEF IInv, TypeOK
  <2>5. out'[s].left \in Nat
    BY <1>3, <1>5, <1>11
  <2>6. Placed'
    BY <2>1, <2>3, <2>5, <1>9, <1>10 DEF IInv, Placed
  <2>7. Writing'
    <3>1. CASE Idle(s)'
      <4>1. ~Mid(s)'
        BY <3>1 DEF Mid
      <4>2. written' = End'
        BY <2>3, <3>1, <1>9 DEF Idle
      <4> QED BY <4>1, <4>2, <1>7, <1>8, <1>7a DEF Writing
    <3>2. CASE ~Idle(s)'
      <4>1. Mid(s)'
        <5>1. out[s].left <= Header + out[s].size
          BY DEF IInv, Writing
        <5>2. out'[s].left # Header + out'[s].size
          BY <5>1, <1>3, <1>5, <1>11, Positive
        <5> QED BY <5>2, <3>2 DEF Mid, Untouched
      <4> QED BY <4>1, <2>3, <1>7, <1>8, <1>7a DEF Writing
    <3> QED BY <3>1, <3>2
  <2>8. Delivered' /\ Stepping'
    BY <2>1, <1>4, ReceivingUnchanged DEF IInv, TypeOK
  <2> QED BY <2>4, <2>6, <2>7, <2>8, <1>12 DEF IInv
<1> QED BY <1>13, <1>14

-----------------------------------------------------------------------------
LEMMA IInvStep == IInv /\ [Next]_vars => IInv'
<1> SUFFICES ASSUME IInv, [Next]_vars PROVE IInv'
  OBVIOUS
<1>1. CASE UNCHANGED vars
  <2>1. UNCHANGED <<loop, sending, registry, receiving, fault>>
    BY <1>1 DEF vars
  <2>2. TypeOK'
    BY <2>1 DEF IInv, TypeOK, sending, registry, receiving
  <2>3. Placed' /\ Writing'
    BY <2>1, SendingUnchanged
  <2>4. Delivered' /\ Stepping'
    BY <2>1, ReceivingUnchanged DEF IInv, TypeOK, sending, receiving
  <2>5. StaysInStep'
    BY <2>1 DEF IInv, StaysInStep, Lost, sending, receiving
  <2> QED BY <2>2, <2>3, <2>4, <2>5 DEF IInv
<1>2. CASE \E s \in Senders, kind \in Kinds : SendMessage(s, kind)
  BY <1>2, SendMessageStep
<1>3. CASE \E s \in Senders : Write(s) \/ WriteBetween(s)
  BY <1>3, WriteStep, WriteBetweenStep
<1>4. CASE EndLink
  BY <1>4, EndLinkStep
<1>5. CASE \E type \in Registering : RegisterMsg(type) \/ Grown(type)
  BY <1>5, ReceivingStep
<1>6. CASE Receive \/ Undefined
  BY <1>6, ReceivingStep, ParseGarbledStep, ParseUnknownStep, DeliverStep
     DEF Receive, Parse, Undefined
<1> QED BY <1>1, <1>2, <1>3, <1>4, <1>5, <1>6 DEF Next

LEMMA Invariant == Spec => []IInv
  BY IInvInit, IInvStep, PTL DEF Spec

\* Types, and where the two ends are in the stream of bytes: nothing is parsed
\* that was not read, and nothing is read that was not written.
THEOREM TypesAndOffsets == Spec => []TypeOK
<1>1. IInv => TypeOK
  BY DEF IInv
<1> QED BY <1>1, Invariant, PTL

\* However a message is cut into packets, it is delivered with its whole body,
\* unless this is longer than the header can say.
THEOREM DeliveredWhole == Spec => []WholeMessages
<1>1. IInv => WholeMessages
  BY DEF IInv, Delivered
<1> QED BY <1>1, Invariant, PTL

\* The receiver takes bytes from the middle of a message for a header only after
\* a message whose type was not registered, or one that was too long; the lock
\* of Peer keeps the messages of its senders apart.
THEOREM InStepUntilLoss == Spec => []StaysInStep
<1>1. IInv => StaysInStep
  BY DEF IInv
<1> QED BY <1>1, Invariant, PTL

-----------------------------------------------------------------------------
LEMMA StreamInit == Init => Stream!Init
  BY DEF Init, Stream!Init

LEMMA StreamStep == IInv /\ IInv' /\ [Next]_vars => [Stream!Next]_(Stream!vars)
<1> SUFFICES ASSUME IInv, IInv', [Next]_vars
             PROVE  Stream!Next \/ UNCHANGED <<sent, registered, next, got>>
  BY DEF Stream!vars
<1>1. CASE UNCHANGED vars
  BY <1>1 DEF vars, sending, registry, receiving
<1>2. CASE \E s \in Senders, kind \in Kinds : SendMessage(s, kind)
  BY <1>2 DEF SendMessage, registry, receiving
<1>3. ASSUME NEW s \in Senders, Write(s)
      PROVE  Stream!Next \/ UNCHANGED <<sent, registered, next, got>>
  <2> DEFINE m == [type |-> out[s].type, size |-> out[s].size, from |-> written,
                   to |-> written + Header + out[s].size]
  <2>1. sent' = Place(s) /\ UNCHANGED <<registered, next, got>>
    BY <1>3 DEF Write, registry, receiving
  <2>2. CASE Untouched(s)
    <3>1. sent' = Append(sent, m) /\ sent \in Seq(Sent) /\ sent' \in Seq(Sent)
      BY <2>1, <2>2 DEF Place, IInv, TypeOK
    <3>2. m \in Sent
      <4>1. out[s] \in [type : Types, size : Nat, left : Nat] /\ written \in Nat
        BY DEF IInv, TypeOK
      <4>2. written + Header + out[s].size \in Nat
        BY <4>1, Positive
      <4> QED BY <4>1, <4>2 DEF Sent
    <3> HIDE DEF m
    <3>3. Len(sent') = Len(sent) + 1 /\ sent'[Len(sent')] = m
      BY <3>1, <3>2
    <3> QED BY <2>1, <3>1, <3>3 DEF Stream!Next, Stream!Send, Stream!Extends
  <2>3. CASE ~Untouched(s)
    BY <2>1, <2>3 DEF Place
  <2> QED BY <2>2, <2>3
<1>4. CASE (\E s \in Senders : WriteBetween(s)) \/ EndLink
  BY <1>4 DEF WriteBetween, EndLink, sending, registry, receiving
<1>5. CASE \E type \in Registering : RegisterMsg(type) \/ Grown(type)
  <2>1. registered \subseteq registered' /\ UNCHANGED <<sent, next, got>>
    BY <1>5 DEF RegisterMsg, Grown, sending, receiving
  <2> QED BY <2>1 DEF Stream!Next, Stream!Learn
<1>6. CASE Read \/ ReadReset \/ ReadNothing \/ ParseEnd \/ ParseGarbled \/ ReadMore
           \/ CutOff \/ Undefined
  BY <1>6 DEF Read, ReadReset, ReadNothing, ParseEnd, ParseGarbled, ReadMore, CutOff,
     Undefined, ParseRaced, OverRead, sending, registry, receiving
<1>7. CASE ParseUnknown
  <2>1. /\ next <= Len(sent) /\ sent[next].type \notin registered
        /\ next' \in next + 1 .. Len(sent) + 1
        /\ UNCHANGED <<sent, registered, got>>
    BY <1>7 DEF ParseUnknown, InStep, sending, registry
  <2> QED BY <2>1 DEF Stream!Next, Stream!Lose
<1>8. CASE Deliver
  <2> DEFINE g == [msg |-> next, body |-> BodyLength(sent[next])]
  <2>1. /\ next <= Len(sent) /\ sent[next].type \in registered
        /\ got' = Append(got, g) /\ next' = next + 1
        /\ UNCHANGED <<sent, registered>>
    BY <1>8 DEF Deliver, Known, InStep, sending, registry
  <2>2. next \in 1 .. Len(sent) /\ sent[next] \in Sent
    BY <2>1 DEF IInv, TypeOK
  <2>3. g \in Given /\ g.msg = next
    BY <2>2, HeldLength DEF Given
  <2>4. got \in Seq(Given) /\ got' \in Seq(Given)
    BY DEF IInv, TypeOK
  <2> HIDE DEF g
  <2>5. Len(got') = Len(got) + 1 /\ got'[Len(got')] = g
    BY <2>1, <2>3, <2>4
  <2> QED BY <2>1, <2>3, <2>4, <2>5 DEF Stream!Next, Stream!Deliver, Stream!Extends
<1> QED BY <1>1, <1>2, <1>3, <1>4, <1>5, <1>6, <1>7, <1>8
        DEF Next, Receive, Parse

\* Bytes, packets, locks and the two receiving loops implement the stream of
\* messages of MessageStream.
THEOREM FramingImplementsStream == Spec => ImplementsMessageStream
  BY StreamInit, StreamStep, Invariant, PTL DEF Spec, Stream!Spec, ImplementsMessageStream

\* Messages are delivered in the order in which they were sent, and none twice.
InOrder == \A i, j \in 1 .. Len(got) : i < j => got[i].msg < got[j].msg

StreamProofs == INSTANCE MessageStream_proofs
                    WITH Messages <- Sent, Deliveries <- Given

\* Through either loop messages arrive in the order in which their first bytes
\* were sent, each at most once.
THEOREM DeliveredInOrder == Spec => []InOrder
<1>1. Stream!Init => StreamProofs!Init
  BY DEF Stream!Init, StreamProofs!Init
<1>2. [Stream!Next]_(Stream!vars) => [StreamProofs!Next]_(StreamProofs!vars)
  BY DEF Stream!vars, StreamProofs!vars, Stream!Next, StreamProofs!Next,
     Stream!Send, StreamProofs!Send, Stream!Extends, StreamProofs!Extends,
     Stream!Learn, StreamProofs!Learn, Stream!Deliver, StreamProofs!Deliver,
     Stream!Lose, StreamProofs!Lose
<1>3. StreamProofs!InOrder => InOrder
  BY DEF StreamProofs!InOrder, InOrder
<1> QED BY <1>1, <1>2, <1>3, FramingImplementsStream, StreamProofs!StreamInOrder, PTL
        DEF ImplementsMessageStream, Stream!Spec, StreamProofs!Spec

=============================================================================
