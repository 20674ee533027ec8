---------------------- MODULE DirectConNetwork_proofs ----------------------
(* Proofs about a DirectConNetwork, for any numbers of listeners, messages,  *)
(* connections and, where nothing else is said, threads.                     *)
EXTENDS DirectConNetwork, FiniteSetTheorems, WellFoundedInduction, TLAPS

-----------------------------------------------------------------------------
(* Invariants. *)

Taken(r)   == r.at \in {"copy", "call"}
FromTcp(r) == Taken(r) /\ r.via = "tcp"

\* A thread is beyond the start of run() only when there is a connection, and
\* holds messages only between parse() and the end of the delivery.
Control ==
    /\ app = "sockets" => conn < MaxConnects
    /\ app = "start" => conn # 0
    /\ \A n \in Nets :
          /\ thread[n].at \notin {"unborn", "enter"} => conn # 0
          /\ Taken(thread[n]) => thread[n].msg # 0
          /\ thread[n].batch # << >> => thread[n].at = "parse" \/ FromTcp(thread[n])

TypeInv == TypeOK /\ Control

Increasing(s) == \A i, j \in DOMAIN s : i < j => s[i] < s[j]

\* The messages that a thread has taken off the TCP socket and not pumped.
Hand(r) == Range(r.batch) \cup IF FromTcp(r) THEN {r.msg} ELSE {}

\* Messages keep the order in which they were said.
Ordered ==
    /\ \A c \in Conns : Increasing(stream[c])
    /\ \A n \in Nets :
          /\ Increasing(thread[n].batch)
          /\ FromTcp(thread[n]) => \A m \in Range(thread[n].batch) : thread[n].msg < m
    /\ \A c \in Conns : Range(stream[c]) \cup datagrams[c] \subseteq 1 .. said
    /\ \A n \in Nets : Hand(thread[n]) \subseteq 1 .. said
    /\ pumped \subseteq 1 .. said

\* A message is in one place: unread, in the hands of a thread, or pumped.
OnePlace ==
    /\ \A c, d \in Conns :
          /\ Range(stream[c]) \cap datagrams[d] = {}
          /\ c # d => /\ Range(stream[c]) \cap Range(stream[d]) = {}
                      /\ datagrams[c] \cap datagrams[d] = {}
    /\ \A c \in Conns, n \in Nets : Hand(thread[n]) \cap (Range(stream[c]) \cup datagrams[c]) = {}
    /\ \A n, k \in Nets : n # k => Hand(thread[n]) \cap Hand(thread[k]) = {}
    /\ \A c \in Conns : pumped \cap (Range(stream[c]) \cup datagrams[c]) = {}
    /\ \A n \in Nets : pumped \cap Hand(thread[n]) = {}
    /\ freed \subseteq pumped

PlaceInv == TypeInv /\ Ordered /\ OnePlace

\* A registered listener has accepted the message that a thread delivers, or is
\* still on the list of those that wait for it.
Delivering ==
    \A n \in Nets : thread[n].at = "call" /\ thread[n].via = "tcp" =>
        \A l \in Registered : thread[n].msg > since[l] =>
            l \in Range(thread[n].wait) \/ thread[n].msg \in Range(got[l])

FurtherInv == TypeInv /\ Delivering /\ FurtherMessages

\* With one network thread: what a listener has accepted comes before what
\* the thread holds, and that before what is not read of this connection.
OneThread == \A n, k \in Nets : n = k

Distinct(s) == \A i, j \in DOMAIN s : s[i] = s[j] => i = j

Lists ==
    /\ Distinct(listeners)
    /\ \A n \in Nets : Distinct(thread[n].wait)
    /\ \A c \in Conns : c > conn => stream[c] = << >> /\ sock[c] = {}

HandFirst ==
    \A n \in Nets : \A m \in Hand(thread[n]) :
        conn # 0 => \A k \in Range(stream[conn]) : m < k

AcceptedBefore ==
    \A l \in Listeners : \A m \in Range(got[l]) :
        /\ m <= said
        /\ conn # 0 => \A k \in Range(stream[conn]) : m < k
        /\ \A n \in Nets :
              /\ \A k \in Range(thread[n].batch) : m < k
              /\ FromTcp(thread[n]) =>
                    /\ m <= thread[n].msg
                    /\ thread[n].at = "copy" \/ l \in Range(thread[n].wait) => m # thread[n].msg

OrderInv == PlaceInv /\ Lists /\ HandFirst /\ AcceptedBefore /\ OnceInOrder

\* With one network thread and one connection: when a goodbye is said nothing
\* more is, nothing of this connection is read any more once it is noticed, and
\* the thread has nothing in its hands once it is pumped.
OnceConnected == OneThread /\ MaxConnects = 1

Noticed(g) == g \in pumped \/ \E n \in Nets : FromTcp(thread[n]) /\ thread[n].msg = g

LastWord ==
    /\ goodbyes \subseteq 1 .. said
    /\ goodbyes # {} => conn # 0 /\ Conns \subseteq eof
    /\ \A c \in Conns : datagrams[c] \cap goodbyes = {}
    /\ \A g \in goodbyes :
          /\ \A c \in Conns : \A m \in Range(stream[c]) : m <= g
          /\ \A n \in Nets : \A m \in Hand(thread[n]) : m <= g
          /\ Noticed(g) => /\ connected = FALSE
                           /\ \A c \in Conns : sock[c] = {} /\ stream[c] = << >>
          /\ g \in pumped => \A n \in Nets : Hand(thread[n]) = {}

GoodbyeInv == OrderInv /\ LastWord

-----------------------------------------------------------------------------
(* What a step does to the records of the threads. *)

Only(n) == /\ thread' \in [Nets -> Thread]
           /\ \A k \in Nets \ {n} : thread'[k] = thread[k]

\* Thread n keeps the messages that it holds.
Keeps(n) == /\ thread'[n].batch = thread[n].batch /\ thread'[n].msg = thread[n].msg
            /\ thread'[n].via = thread[n].via

LEMMA MessagesAreNat ==
    /\ Messages \subseteq Nat \ {0} /\ Messages \subseteq 0 .. MaxSaid
    /\ MaxSaid \in Nat /\ MaxConnects \in Nat
BY BoundsAssumption DEF Messages

LEMMA InConns ==
    ASSUME TypeInv, NEW n \in Nets, thread[n].at \notin {"unborn", "enter"}
    PROVE  conn \in Conns
<1>1. conn # 0
  BY DEF TypeInv, Control
<1>2. conn \in 0 .. MaxConnects
  BY DEF TypeInv, TypeOK
<1>3. QED
  BY <1>1, <1>2, BoundsAssumption DEF Conns

LEMMA TakenMessage ==
    ASSUME TypeInv, NEW n \in Nets, Taken(thread[n])
    PROVE  thread[n].msg \in Messages
<1>1. thread[n].msg # 0
  BY DEF TypeInv, Control
<1>2. thread[n] \in Thread
  BY DEF TypeInv, TypeOK
<1>3. thread[n].msg \in 0 .. MaxSaid
  BY <1>2 DEF Thread
<1>4. QED
  BY <1>1, <1>3, BoundsAssumption DEF Messages

LEMMA Becomes ==
    ASSUME TypeOK, NEW n \in Nets, NEW r \in Thread, thread' = [thread EXCEPT ![n] = r]
    PROVE  Only(n) /\ thread'[n] = r
BY DEF TypeOK, Only

LEMMA Fields ==
    ASSUME NEW r \in Thread
    PROVE  /\ r.at \in {"unborn", "enter", "while", "select", "read", "parse", "copy",
                        "call", "udp", "ended"}
           /\ r.conn \in 0 .. MaxConnects /\ r.ready \in SUBSET Receiving
           /\ r.batch \in Seq(Messages) /\ r.cut \in BOOLEAN
           /\ r.msg \in 0 .. MaxSaid /\ r.via \in Receiving /\ r.wait \in Seq(Listeners)
BY DEF Thread

LEMMA GotoIs ==
    ASSUME TypeOK, NEW n \in Nets,
           NEW label \in {"enter", "while", "select", "parse", "udp", "ended"},
           Goto(n, label)
    PROVE  Only(n) /\ Keeps(n) /\ thread'[n].at = label /\ thread'[n].wait = thread[n].wait
<1> DEFINE r == [thread[n] EXCEPT !.at = label]
<1>1. thread[n] \in Thread
  BY DEF TypeOK
<1>2. /\ r \in Thread /\ r.at = label /\ r.batch = thread[n].batch /\ r.msg = thread[n].msg
      /\ r.via = thread[n].via /\ r.wait = thread[n].wait
  BY <1>1 DEF Thread
<1>3. thread' = [thread EXCEPT ![n] = r]
  BY DEF Goto
<1> HIDE DEF r
<1>4. QED
  BY <1>2, <1>3, Becomes DEF Keeps

LEMMA SelectIs ==
    ASSUME TypeOK, NEW n \in Nets, Select(n)
    PROVE  /\ Only(n) /\ Keeps(n) /\ thread'[n].at \in {"while", "read"}
           /\ thread'[n].wait = thread[n].wait
<1>1. CASE Goto(n, "while")
  BY <1>1, GotoIs
<1>2. CASE ~Goto(n, "while")
  <2> DEFINE r == [thread[n] EXCEPT !.at = "read", !.conn = conn, !.ready = Readable(conn)]
  <2>1. thread[n] \in Thread /\ conn \in 0 .. MaxConnects
    BY DEF TypeOK
  <2>2. Readable(conn) \in SUBSET Receiving
    BY DEF Readable
  <2>3. /\ r \in Thread /\ r.at = "read" /\ r.batch = thread[n].batch
        /\ r.msg = thread[n].msg /\ r.via = thread[n].via /\ r.wait = thread[n].wait
    BY <2>1, <2>2 DEF Thread
  <2>4. thread' = [thread EXCEPT ![n] = r]
    BY <1>2 DEF Select
  <2> HIDE DEF r
  <2>5. QED
    BY <2>3, <2>4, Becomes DEF Keeps
<1>3. QED
  BY <1>1, <1>2

\* read() has data, of which the thread takes a part.
ReadSome(n, k) ==
    /\ conn \in Conns /\ k \in 1 .. Len(stream[conn]) /\ thread'[n].at = "parse"
    /\ thread'[n].batch = SubSeq(stream[conn], 1, k)
    /\ stream' = [stream EXCEPT ![conn] = SubSeq(@, k + 1, Len(@))]
    /\ thread'[n].msg = thread[n].msg /\ thread'[n].via = thread[n].via

LEMMA ReadIs ==
    ASSUME TypeInv, NEW n \in Nets, Read(n)
    PROVE  /\ Only(n) /\ thread'[n].wait = thread[n].wait
           /\ \/ thread'[n].at = "udp" /\ Keeps(n) /\ UNCHANGED stream
              \/ \E k \in 1 .. Len(stream[conn]) : ReadSome(n, k)
<1>1. TypeOK
  BY DEF TypeInv
<1>2. conn \in Conns
  <2>1. thread[n].at = "read"
    BY DEF Read, At
  <2>2. QED
    BY <2>1, InConns
<1>3. CASE Goto(n, "udp") /\ UNCHANGED stream
  BY <1>1, <1>3, GotoIs
<1>4. ASSUME NEW k \in 1 .. Len(stream[conn]), NEW part \in BOOLEAN,
             thread' = [thread EXCEPT ![n].at = "parse", ![n].cut = part,
                                      ![n].batch = SubSeq(stream[conn], 1, k)],
             stream' = [stream EXCEPT ![conn] = SubSeq(@, k + 1, Len(@))]
      PROVE  Only(n) /\ thread'[n].wait = thread[n].wait /\ ReadSome(n, k)
  <2> DEFINE b == SubSeq(stream[conn], 1, k)
             r == [thread[n] EXCEPT !.at = "parse", !.cut = part, !.batch = b]
  <2>1. thread[n] \in Thread /\ stream[conn] \in Seq(Messages)
    BY <1>1, <1>2 DEF TypeOK
  <2>2. b \in Seq(Messages)
    BY <2>1
  <2>3. thread' = [thread EXCEPT ![n] = r]
    BY <1>4
  <2> HIDE DEF b
  <2>4. /\ r \in Thread /\ r.at = "parse" /\ r.batch = b
        /\ r.msg = thread[n].msg /\ r.via = thread[n].via /\ r.wait = thread[n].wait
    BY <2>1, <2>2 DEF Thread
  <2> HIDE DEF r
  <2>5. Only(n) /\ thread'[n] = r
    BY <1>1, <2>3, <2>4, Becomes
  <2>6. QED
    BY <1>2, <1>4, <2>4, <2>5 DEF ReadSome, b
<1>5. QED
  BY <1>3, <1>4 DEF Read

LEMMA ParseIs ==
    ASSUME TypeOK, NEW n \in Nets, Parse(n)
    PROVE  \/ UNCHANGED <<thread, connected, sock>> /\ fault' = "outOfRange"
           \/ /\ Only(n) /\ thread'[n].wait = thread[n].wait /\ UNCHANGED fault
              /\ \/ /\ thread'[n].at = "udp" /\ Keeps(n) /\ thread[n].batch = << >>
                    /\ UNCHANGED <<connected, sock>>
                 \/ /\ thread[n].batch # << >> /\ NoteGoodbye(thread'[n].msg)
                    /\ thread'[n].at = "copy" /\ thread'[n].via = "tcp"
                    /\ thread'[n].batch = Tail(thread[n].batch)
                    /\ thread'[n].msg = Head(thread[n].batch)
<1> DEFINE b == thread[n].batch
           r == [thread[n] EXCEPT !.at = "copy", !.batch = Tail(b), !.msg = Head(b),
                                  !.via = "tcp"]
<1>1. CASE thread[n].cut /\ Len(b) = 1
  BY <1>1 DEF Parse
<1>2. CASE ~(thread[n].cut /\ Len(b) = 1) /\ b = << >>
  <2>1. Goto(n, "udp") /\ UNCHANGED <<connected, sock, fault>>
    BY <1>2 DEF Parse
  <2>2. QED
    BY <1>2, <2>1, GotoIs
<1>3. CASE ~(thread[n].cut /\ Len(b) = 1) /\ b # << >>
  <2>1. thread[n] \in Thread /\ b \in Seq(Messages)
    BY Fields DEF TypeOK
  <2>2. Tail(b) \in Seq(Messages) /\ Head(b) \in Messages
    BY <1>3, <2>1
  <2>3. Head(b) \in 0 .. MaxSaid /\ "tcp" \in Receiving
    BY <2>2, MessagesAreNat DEF Receiving
  <2>4. /\ r \in Thread /\ r.at = "copy" /\ r.via = "tcp" /\ r.batch = Tail(b)
        /\ r.msg = Head(b) /\ r.wait = thread[n].wait
    BY <2>1, <2>2, <2>3 DEF Thread
  <2>5. NoteGoodbye(Head(b)) /\ thread' = [thread EXCEPT ![n] = r] /\ UNCHANGED fault
    BY <1>3 DEF Parse
  <2> HIDE DEF r
  <2>6. Only(n) /\ thread'[n] = r
    BY <2>4, <2>5, Becomes
  <2>7. QED
    BY <1>3, <2>4, <2>5, <2>6
<1>4. QED
  BY <1>1, <1>2, <1>3

LEMMA CopyIs ==
    ASSUME TypeOK, NEW n \in Nets, Copy(n)
    PROVE  /\ Only(n) /\ Keeps(n) /\ thread'[n].at = "call" /\ thread'[n].wait = listeners
<1> DEFINE r == [thread[n] EXCEPT !.at = "call", !.wait = listeners]
<1>1. thread[n] \in Thread /\ listeners \in Seq(Listeners)
  BY DEF TypeOK
<1>2. /\ r \in Thread /\ r.at = "call" /\ r.batch = thread[n].batch /\ r.msg = thread[n].msg
      /\ r.via = thread[n].via /\ r.wait = listeners
  BY <1>1 DEF Thread
<1>3. thread' = [thread EXCEPT ![n] = r]
  BY DEF Copy
<1> HIDE DEF r
<1>4. QED
  BY <1>2, <1>3, Becomes DEF Keeps

LEMMA AskIs ==
    ASSUME TypeOK, NEW n \in Nets, Accept(n) \/ Refuse(n)
    PROVE  /\ Only(n) /\ Keeps(n) /\ thread[n].at = "call" /\ thread'[n].at = "call"
           /\ thread[n].wait # << >> /\ thread[n].wait \in Seq(Listeners)
           /\ Accept(n) => thread'[n].wait = Tail(thread[n].wait)
           /\ Refuse(n) => thread'[n].wait = Append(Tail(thread[n].wait), Head(thread[n].wait))
<1> DEFINE wa == Tail(thread[n].wait)
           wr == Append(Tail(thread[n].wait), Head(thread[n].wait))
<1>1. thread[n] \in Thread /\ thread[n].wait \in Seq(Listeners)
  BY Fields DEF TypeOK
<1>2. thread[n].at = "call" /\ thread[n].wait # << >>
  BY DEF Accept, Refuse, Asks, At
<1>3. wa \in Seq(Listeners) /\ wr \in Seq(Listeners)
  BY <1>1, <1>2
<1>4. /\ Accept(n) => thread' = [thread EXCEPT ![n] = [thread[n] EXCEPT !.wait = wa]]
      /\ Refuse(n) => thread' = [thread EXCEPT ![n] = [thread[n] EXCEPT !.wait = wr]]
  BY DEF Accept, Refuse
<1> HIDE DEF wa, wr
<1>5. ASSUME NEW w \in Seq(Listeners), thread' = [thread EXCEPT ![n] = [thread[n] EXCEPT !.wait = w]]
      PROVE  Only(n) /\ Keeps(n) /\ thread'[n].at = "call" /\ thread'[n].wait = w
  <2> DEFINE r == [thread[n] EXCEPT !.wait = w]
  <2>1. /\ r \in Thread /\ r.at = "call" /\ r.batch = thread[n].batch
        /\ r.msg = thread[n].msg /\ r.via = thread[n].via /\ r.wait = w
    BY <1>1, <1>2 DEF Thread
  <2>2. thread' = [thread EXCEPT ![n] = r]
    BY <1>5
  <2> HIDE DEF r
  <2>3. QED
    BY <2>1, <2>2, Becomes DEF Keeps
<1>6. QED
  BY <1>1, <1>2, <1>3, <1>4, <1>5 DEF wa, wr

LEMMA PumpIs ==
    ASSUME TypeOK, NEW n \in Nets, Pump(n)
    PROVE  /\ Only(n) /\ Keeps(n) /\ thread'[n].wait = thread[n].wait
           /\ thread[n].at = "call" /\ thread[n].wait = << >>
           /\ thread[n].via \in Receiving
           /\ thread'[n].at = IF thread[n].via = "tcp" THEN "parse" ELSE "while"
<1>1. thread[n].at = "call" /\ thread[n].wait = << >> /\ thread[n].via \in Receiving
  BY Fields DEF TypeOK, Pump, At
<1>2. Goto(n, IF thread[n].via = "tcp" THEN "parse" ELSE "while")
  BY DEF Pump
<1>3. QED
  BY <1>1, <1>2, GotoIs

LEMMA UdpIs ==
    ASSUME TypeInv, NEW n \in Nets, Udp(n)
    PROVE  /\ Only(n) /\ thread'[n].wait = thread[n].wait
           /\ thread'[n].batch = thread[n].batch
           /\ \/ /\ thread'[n].at = "while" /\ Keeps(n)
                 /\ UNCHANGED <<datagrams, pumped>>
              \/ \E m \in datagrams[conn] :
                    /\ conn \in Conns /\ "udp" \in sock[conn]
                    /\ thread'[n].at = "copy" /\ thread'[n].msg = m /\ thread'[n].via = "udp"
                    /\ datagrams' = [datagrams EXCEPT ![conn] = @ \ {m}]
                    /\ pumped' = pumped \cup {m}
<1>1. TypeOK
  BY DEF TypeInv
<1>2. conn \in Conns
  <2>1. thread[n].at = "udp"
    BY DEF Udp, At
  <2>2. QED
    BY <2>1, InConns
<1>3. CASE Goto(n, "while") /\ UNCHANGED <<datagrams, pumped>>
  BY <1>1, <1>3, GotoIs DEF Keeps
<1>4. ASSUME NEW m \in datagrams[conn],
             thread' = [thread EXCEPT ![n].at = "copy", ![n].msg = m, ![n].via = "udp"]
      PROVE  /\ Only(n) /\ thread'[n].wait = thread[n].wait
             /\ thread'[n].batch = thread[n].batch /\ thread'[n].at = "copy"
             /\ thread'[n].msg = m /\ thread'[n].via = "udp"
  <2> DEFINE r == [thread[n] EXCEPT !.at = "copy", !.msg = m, !.via = "udp"]
  <2>1. thread[n] \in Thread /\ m \in 0 .. MaxSaid /\ "udp" \in Receiving
    BY <1>1, <1>2, MessagesAreNat DEF TypeOK, Receiving
  <2>2. /\ r \in Thread /\ r.at = "copy" /\ r.batch = thread[n].batch
        /\ r.msg = m /\ r.via = "udp" /\ r.wait = thread[n].wait
    BY <2>1 DEF Thread
  <2>3. thread' = [thread EXCEPT ![n] = r]
    BY <1>4
  <2> HIDE DEF r
  <2>4. QED
    BY <1>1, <2>2, <2>3, Becomes
<1>5. QED
  BY <1>2, <1>3, <1>4 DEF Udp

LEMMA NewThreadIs ==
    ASSUME TypeOK, NewThread \/ NoThread
    PROVE  \/ UNCHANGED thread
           \/ \E n \in Nets : /\ Only(n) /\ Keeps(n) /\ thread[n].at = "unborn"
                              /\ thread'[n].at = "enter" /\ thread'[n].wait = thread[n].wait
<1>1. ASSUME NEW n \in Nets, thread' = [thread EXCEPT ![n].at = "enter"]
      PROVE  Goto(n, "enter")
  BY <1>1 DEF Goto
<1>2. QED
  BY <1>1, GotoIs DEF NewThread, NoThread

-----------------------------------------------------------------------------
(* Types and control. *)

\* A thread whose step leaves conn alone.
LEMMA ControlStep ==
    ASSUME TypeInv, NEW n \in Nets, Only(n), UNCHANGED <<conn, app>>,
           thread[n].at \notin {"unborn", "enter"} \/ thread'[n].at = "enter" \/ conn # 0,
           Taken(thread'[n]) => thread'[n].msg # 0,
           thread'[n].batch # << >> => thread'[n].at = "parse" \/ FromTcp(thread'[n])
    PROVE  Control'
BY DEF TypeInv, Control, Only, Taken, FromTcp

\* What is not the business of the threads.
LEMMA ControlStay ==
    ASSUME TypeInv, UNCHANGED thread, conn' = conn \/ conn' # 0,
           app' = "sockets" => conn' < MaxConnects,
           app' = "start" => conn' # 0
    PROVE  Control'
BY DEF TypeInv, Control, Taken, FromTcp

LEMMA TypeNewThread ==
    ASSUME TypeInv, NewThread \/ NoThread, UNCHANGED conn, app' = "idle"
    PROVE  thread' \in [Nets -> Thread] /\ Control'
<1>1. CASE UNCHANGED thread
  BY <1>1, ControlStay DEF TypeInv, TypeOK
<1>2. ASSUME NEW n \in Nets, Only(n), Keeps(n), thread[n].at = "unborn", thread'[n].at = "enter"
      PROVE  thread' \in [Nets -> Thread] /\ Control'
  <2>1. thread[n].batch = << >>
    BY <1>2 DEF TypeInv, Control, FromTcp, Taken
  <2>2. QED
    BY <1>2, <2>1 DEF TypeInv, Control, Only, Keeps, Taken, FromTcp
<1>3. QED
  BY <1>1, <1>2, NewThreadIs DEF TypeInv

LEMMA WriteType ==
    ASSUME TypeOK, Write
    PROVE  sock' \in [Conns -> SUBSET Receiving]
BY DEF TypeOK, Write

LEMMA BegunMax ==
    ASSUME TypeInv, Begun # {}
    PROVE  /\ Begun \subseteq Messages
           /\ \E m \in Begun : \A k \in Begun : k <= m
<1>1. Begun \subseteq 0 .. MaxSaid /\ Begun \subseteq Messages
  <2>1. handled \subseteq Messages
    BY DEF TypeInv, TypeOK
  <2>2. ASSUME NEW n \in Nets, thread[n].at = "call" PROVE thread[n].msg \in Messages
    BY <2>2, TakenMessage DEF Taken
  <2>3. QED
    BY <2>1, <2>2, MessagesAreNat DEF Begun
<1> DEFINE T == {MaxSaid - m : m \in Begun}
<1>2. T \subseteq Nat /\ T # {}
  <2>1. ASSUME NEW m \in Begun PROVE MaxSaid - m \in Nat
    BY <1>1, MessagesAreNat
  <2>2. QED
    BY <2>1
<1>3. PICK x \in T : \A y \in T : ~(<<y, x>> \in OpToRel(<, Nat))
  <2> HIDE DEF T
  <2>1. QED
    BY <1>2, NatLessThanWellFounded, WFMin
<1>4. \A y \in T : x <= y
  <2> HIDE DEF T
  <2>1. \A y \in T : ~(y < x)
    BY <1>2, <1>3 DEF OpToRel
  <2>2. QED
    BY <1>2, <2>1
<1>5. PICK m \in Begun : x = MaxSaid - m
  BY <1>3
<1>6. ASSUME NEW k \in Begun PROVE k <= m
  <2>1. MaxSaid - k \in T
    OBVIOUS
  <2>2. MaxSaid - m <= MaxSaid - k
    BY <1>4, <1>5, <2>1
  <2>3. m \in Nat /\ k \in Nat /\ MaxSaid \in Nat
    BY <1>1, MessagesAreNat
  <2>4. QED
    BY <2>2, <2>3
<1>7. QED
  BY <1>1, <1>6

\* What is remembered when a listener is registered.
LEMMA SinceIs ==
    ASSUME TypeInv, NEW l \in Listeners, Register(l)
    PROVE  /\ since' \in [Listeners -> 0 .. MaxSaid]
           /\ \A k \in Listeners \ {l} : since'[k] = since[k]
           /\ \A m \in Begun : m <= since'[l]
<1> DEFINE latest == CHOOSE m \in Begun : \A k \in Begun : k <= m
           s == IF Begun = {} THEN 0 ELSE latest
<1>1. since' = [since EXCEPT ![l] = s] /\ since \in [Listeners -> 0 .. MaxSaid]
  BY DEF Register, TypeInv, TypeOK
<1>2. s \in 0 .. MaxSaid /\ \A m \in Begun : m <= s
  <2>1. CASE Begun = {}
    BY <2>1, MessagesAreNat
  <2>2. CASE Begun # {}
    <3>1. latest \in Begun /\ \A k \in Begun : k <= latest
      BY <2>2, BegunMax
    <3>2. latest \in 0 .. MaxSaid
      BY <2>2, <3>1, BegunMax, MessagesAreNat
    <3>3. s = latest
      BY <2>2
    <3> HIDE DEF latest
    <3>4. QED
      BY <3>1, <3>2, <3>3
  <2>3. QED
    BY <2>1, <2>2
<1> HIDE DEF s
<1>3. QED
  BY <1>1, <1>2

\* The list without the first entry of a listener.
LEMMA Erased ==
    ASSUME NEW S, NEW s \in Seq(S), NEW i \in DOMAIN s
    PROVE  /\ RemoveAt(s, i) \in Seq(S)
           /\ Len(RemoveAt(s, i)) = Len(s) - 1
           /\ \A j \in 1 .. Len(s) - 1 : RemoveAt(s, i)[j] = s[IF j < i THEN j ELSE j + 1]
<1>1. i \in 1 .. Len(s) /\ Len(s) \in Nat
  OBVIOUS
<1> DEFINE a == SubSeq(s, 1, i - 1)
           b == SubSeq(s, i + 1, Len(s))
<1>2. a \in Seq(S) /\ Len(a) = i - 1 /\ \A j \in 1 .. i - 1 : a[j] = s[j]
  BY <1>1
<1>3. b \in Seq(S) /\ Len(b) = Len(s) - i /\ \A j \in 1 .. Len(s) - i : b[j] = s[i + j]
  BY <1>1
<1>4. RemoveAt(s, i) = a \o b
  BY DEF RemoveAt
<1> HIDE DEF a, b
<1>5. a \o b \in Seq(S) /\ Len(a \o b) = Len(s) - 1
  BY <1>1, <1>2, <1>3
<1>6. ASSUME NEW j \in 1 .. Len(s) - 1 PROVE (a \o b)[j] = s[IF j < i THEN j ELSE j + 1]
  <2>1. CASE j < i
    BY <1>1, <1>2, <1>3, <2>1
  <2>2. CASE j >= i
    <3>1. (a \o b)[j] = b[j - (i - 1)] /\ j - (i - 1) \in 1 .. Len(s) - i
      BY <1>1, <1>2, <1>3, <2>2
    <3>2. b[j - (i - 1)] = s[i + (j - (i - 1))]
      BY <1>3, <3>1
    <3>3. i + (j - (i - 1)) = j + 1
      BY <1>1
    <3>4. QED
      BY <1>1, <2>2, <3>1, <3>2, <3>3
  <2>3. j < i \/ j >= i
    BY <1>1
  <2>4. QED
    BY <2>1, <2>2, <2>3
<1>7. QED
  BY <1>4, <1>5, <1>6

LEMMA ErasedRange ==
    ASSUME NEW S, NEW s \in Seq(S), NEW i \in DOMAIN s
    PROVE  /\ Range(RemoveAt(s, i)) \subseteq Range(s)
           /\ Distinct(s) => Distinct(RemoveAt(s, i))
<1> DEFINE r == RemoveAt(s, i)
           at(j) == IF j < i THEN j ELSE j + 1
<1>1. /\ i \in 1 .. Len(s) /\ Len(s) \in Nat /\ DOMAIN s = 1 .. Len(s)
      /\ \A j \in 1 .. Len(s) - 1 : at(j) \in 1 .. Len(s)
      /\ \A j, k \in 1 .. Len(s) - 1 : at(j) = at(k) => j = k
  OBVIOUS
<1>2. r \in Seq(S) /\ Len(r) = Len(s) - 1 /\ \A j \in 1 .. Len(s) - 1 : r[j] = s[at(j)]
  BY Erased
<1> HIDE DEF r, at
<1>3. DOMAIN r = 1 .. Len(s) - 1
  BY <1>1, <1>2
<1>4. Range(r) \subseteq Range(s)
  BY <1>1, <1>2, <1>3 DEF Range
<1>5. Distinct(s) => Distinct(r)
  BY <1>1, <1>2, <1>3 DEF Distinct
<1>6. QED
  BY <1>4, <1>5 DEF r

LEMMA ProgramType ==
    ASSUME TypeInv, Program
    PROVE  TypeInv'
<1> USE DEF members, arrived, broker, history, MayCall
<1>1. TypeOK
  BY DEF TypeInv
<1>2. conn \in 0 .. MaxConnects /\ MaxConnects \in Nat
  BY <1>1, BoundsAssumption DEF TypeOK
<1>3. CASE Connect
  <2>1. TypeOK'
    BY <1>1, <1>3 DEF TypeOK, Connect
  <2>2. conn < MaxConnects
    BY <1>3 DEF Connect
  <2>3. Control'
    BY <1>3, <2>2, ControlStay DEF Connect
  <2>4. QED
    BY <2>1, <2>3 DEF TypeInv
<1>4. CASE Sockets
  <2>1. conn < MaxConnects /\ conn' = conn + 1
    BY <1>4 DEF Sockets, TypeInv, Control
  <2>2. conn' \in 0 .. MaxConnects /\ conn' \in Conns /\ conn' # 0
    BY <1>2, <2>1 DEF Conns
  <2>3. connected' \in BOOLEAN /\ sock' \in [Conns -> SUBSET Receiving]
    BY <1>1, <1>4, <2>2 DEF TypeOK, Sockets
  <2>4. TypeOK'
    BY <1>1, <1>4, <2>2, <2>3 DEF TypeOK, Sockets
  <2>5. Control'
    BY <1>4, <2>2, ControlStay DEF Sockets
  <2>6. QED
    BY <2>4, <2>5 DEF TypeInv
<1>5. CASE Start
  <2>1. sock' \in [Conns -> SUBSET Receiving]
    BY <1>1, <1>5, WriteType DEF Start, TypeOK
  <2>2. thread' \in [Nets -> Thread] /\ Control'
    BY <1>5, TypeNewThread, ControlStay, <1>1 DEF Start, TypeOK
  <2>3. TypeOK'
    BY <1>1, <1>5, <2>1, <2>2 DEF TypeOK, Start
  <2>4. QED
    BY <2>2, <2>3 DEF TypeInv
<1>6. CASE Listen
  <2>1. app = "idle"
    BY <1>6 DEF Listen
  <2>2. thread' \in [Nets -> Thread] /\ Control'
    BY <1>1, <1>6, <2>1, TypeNewThread, ControlStay DEF Listen, TypeOK
  <2>3. TypeOK'
    BY <1>1, <1>6, <2>2 DEF TypeOK, Listen
  <2>4. QED
    BY <2>2, <2>3 DEF TypeInv
<1>7. CASE SendMessage
  <2>1. sock' \in [Conns -> SUBSET Receiving]
    BY <1>1, <1>7, WriteType DEF SendMessage
  <2>2. app = "idle"
    BY <1>7 DEF SendMessage
  <2>3. TypeOK'
    BY <1>1, <1>7, <2>1 DEF TypeOK, SendMessage
  <2>4. Control'
    BY <1>7, <2>2, ControlStay DEF SendMessage
  <2>5. QED
    BY <2>3, <2>4 DEF TypeInv
<1>8. CASE Disconnect \/ Destroy
  <2>1. sock' \in [Conns -> SUBSET Receiving]
    BY <1>1, <1>8 DEF TypeOK, Disconnect, Destroy, CloseAll
  <2>2. app = "idle" /\ app' \in {"idle", "done"}
    BY <1>8 DEF Disconnect, Destroy
  <2>3. TypeOK'
    BY <1>1, <1>8, <2>1, <2>2 DEF TypeOK, Disconnect, Destroy, CloseAll
  <2>4. Control'
    BY <1>8, <2>2, ControlStay DEF Disconnect, Destroy, CloseAll
  <2>5. QED
    BY <2>3, <2>4 DEF TypeInv
<1>9. CASE DisconnectNothing
  <2>1. TypeOK'
    BY <1>1, <1>9 DEF TypeOK, DisconnectNothing
  <2>2. app = "idle"
    BY <1>9 DEF DisconnectNothing
  <2>3. Control'
    BY <1>9, <2>2, ControlStay DEF DisconnectNothing
  <2>4. QED
    BY <2>1, <2>3 DEF TypeInv
<1>10. ASSUME NEW new \in Seq(Listeners), ChangeListeners(new), app = "idle",
              since' \in [Listeners -> 0 .. MaxSaid]
       PROVE  TypeInv'
  <2>1. TypeOK'
    BY <1>1, <1>10 DEF TypeOK, ChangeListeners
  <2>2. Control'
    BY <1>10, ControlStay DEF ChangeListeners
  <2>3. QED
    BY <2>1, <2>2 DEF TypeInv
<1>11. ASSUME NEW l \in Listeners, Register(l) PROVE TypeInv'
  <2>1. Append(listeners, l) \in Seq(Listeners)
    BY <1>1 DEF TypeOK
  <2>2. QED
    BY <1>10, <1>11, <2>1, SinceIs DEF Register
<1>12. ASSUME NEW l \in Listeners, Unregister(l) PROVE TypeInv'
  <2>1. PICK i \in DOMAIN listeners : ChangeListeners(RemoveAt(listeners, i))
    BY <1>12 DEF Unregister
  <2>2. RemoveAt(listeners, i) \in Seq(Listeners)
    BY <1>1, Erased DEF TypeOK
  <2>3. QED
    BY <1>1, <1>10, <1>12, <2>1, <2>2 DEF Unregister, TypeOK
<1>13. QED
  BY <1>3, <1>4, <1>5, <1>6, <1>7, <1>8, <1>9, <1>11, <1>12 DEF Program

LEMMA NoteGoodbyeType ==
    ASSUME TypeOK, NEW m, NoteGoodbye(m), conn \in Conns
    PROVE  connected' \in BOOLEAN /\ sock' \in [Conns -> SUBSET Receiving]
BY DEF TypeOK, NoteGoodbye

LEMMA RunType ==
    ASSUME TypeInv, NEW n \in Nets, Run(n)
    PROVE  TypeInv'
<1> USE DEF members, arrived, broker, history, At
<1>1. TypeOK
  BY DEF TypeInv
<1>2. ASSUME UNCHANGED <<members, app, thread, arrived, broker, history>>,
             fault' \in {"nullSocket", "outOfRange", "freedMessage", "freedNetwork"}
      PROVE  TypeInv'
  <2>1. TypeOK'
    BY <1>1, <1>2 DEF TypeOK
  <2>2. Control'
    BY <1>2 DEF TypeInv, Control, Taken, FromTcp
  <2>3. QED
    BY <2>1, <2>2 DEF TypeInv
<1>3. CASE Enter(n)
  <2>1. CASE Goto(n, "while") /\ UNCHANGED fault /\ conn # 0
    <3>1. Only(n) /\ Keeps(n) /\ thread'[n].at = "while"
      BY <1>1, <2>1, GotoIs
    <3>2. thread[n].batch = << >>
      BY <1>3 DEF Enter, TypeInv, Control, FromTcp, Taken
    <3>3. Control'
      BY <1>3, <2>1, <3>1, <3>2, ControlStep DEF Keeps, Enter, Taken
    <3>4. TypeOK'
      BY <1>1, <1>3, <2>1, <3>1 DEF TypeOK, Enter, Only
    <3>5. QED
      BY <3>3, <3>4 DEF TypeInv
  <2>2. CASE fault' = "nullSocket" /\ UNCHANGED thread
    BY <1>2, <1>3, <2>2 DEF Enter
  <2>3. QED
    BY <1>3, <2>1, <2>2 DEF Enter
<1>4. CASE While(n) \/ Select(n)
  <2>1. Only(n) /\ Keeps(n) /\ thread'[n].at \in {"while", "select", "read", "ended"}
    BY <1>1, <1>4, GotoIs, SelectIs DEF While
  <2>2. thread[n].batch = << >> /\ thread[n].at \in {"while", "select"}
    BY <1>4 DEF While, Select, TypeInv, Control, FromTcp, Taken
  <2>3. UNCHANGED <<members, app, fault, arrived, broker, history>>
    BY <1>4 DEF While, Select
  <2>4. Control'
    BY <2>1, <2>2, <2>3, ControlStep DEF Keeps, Taken
  <2>5. TypeOK'
    BY <1>1, <2>1, <2>3 DEF TypeOK, Only
  <2>6. QED
    BY <2>4, <2>5 DEF TypeInv
<1>5. CASE Read(n)
  <2>1. /\ Only(n) /\ thread[n].at = "read" /\ conn \in Conns
        /\ UNCHANGED <<members, app, fault, datagrams, eof, goodbyes, said, broker, history>>
    BY <1>5, ReadIs, InConns DEF Read
  <2>2. thread[n].batch = << >>
    BY <2>1 DEF TypeInv, Control, FromTcp, Taken
  <2>3. stream' \in [Conns -> Seq(Messages)]
    <3>1. stream \in [Conns -> Seq(Messages)]
      BY <1>1 DEF TypeOK
    <3>2. ASSUME NEW k \in 1 .. Len(stream[conn])
          PROVE  SubSeq(stream[conn], k + 1, Len(stream[conn])) \in Seq(Messages)
      BY <2>1, <3>1
    <3>3. QED
      BY <1>5, <3>1, <3>2, ReadIs DEF ReadSome
  <2>4. TypeOK'
    BY <1>1, <2>1, <2>3 DEF TypeOK, Only
  <2>5. \/ thread'[n].at = "udp" /\ Keeps(n)
        \/ thread'[n].at = "parse"
    BY <1>5, ReadIs DEF ReadSome
  <2>6. Control'
    BY <2>1, <2>2, <2>5, ControlStep DEF Keeps, Taken
  <2>7. QED
    BY <2>4, <2>6 DEF TypeInv
<1>6. CASE Parse(n)
  <2>1. thread[n].at = "parse" /\ conn \in Conns
    BY <1>6, InConns DEF Parse
  <2>2. CASE UNCHANGED <<thread, connected, sock>> /\ fault' = "outOfRange"
    BY <1>2, <1>6, <2>2 DEF Parse
  <2>3. CASE Only(n) /\ fault' = fault
    <3>1. /\ connected' \in BOOLEAN /\ sock' \in [Conns -> SUBSET Receiving]
      BY <1>1, <1>6, <2>1, ParseIs, NoteGoodbyeType DEF TypeOK
    <3>2. TypeOK'
      BY <1>1, <1>6, <2>3, <3>1 DEF TypeOK, Only, Parse
    <3>3. ASSUME thread[n].batch # << >> PROVE Head(thread[n].batch) # 0
      <4>1. thread[n].batch \in Seq(Messages)
        BY <1>1, Fields DEF TypeOK
      <4>2. Head(thread[n].batch) \in Messages
        BY <3>3, <4>1
      <4>3. QED
        BY <4>2, MessagesAreNat
    <3>4. Control'
      BY <1>1, <1>6, <2>1, <2>2, <2>3, <3>3, ParseIs, ControlStep
         DEF Keeps, Taken, FromTcp, Parse
    <3>5. QED
      BY <3>2, <3>4 DEF TypeInv
  <2>4. QED
    BY <1>1, <1>6, <2>2, <2>3, ParseIs DEF Parse
<1>7. CASE Copy(n)
  <2>1. Only(n) /\ Keeps(n) /\ thread'[n].at = "call" /\ thread[n].at = "copy"
    BY <1>1, <1>7, CopyIs DEF Copy
  <2>2. TypeOK'
    BY <1>1, <1>7, <2>1 DEF TypeOK, Only, Copy
  <2>3. /\ thread[n].msg # 0
        /\ thread[n].batch # << >> => thread[n].via = "tcp"
    BY <2>1 DEF TypeInv, Control, FromTcp, Taken
  <2>4. Control'
    BY <1>7, <2>1, <2>3, ControlStep DEF Keeps, Taken, FromTcp, Copy
  <2>5. QED
    BY <2>2, <2>4 DEF TypeInv
<1>8. CASE AskFreed(n) \/ UseFreedNetwork(n)
  BY <1>2, <1>8 DEF AskFreed, UseFreedNetwork
<1>9. CASE Accept(n) \/ Refuse(n)
  <2>1. /\ Only(n) /\ Keeps(n) /\ thread'[n].at = "call" /\ thread[n].at = "call"
        /\ Head(thread[n].wait) \in Listeners
    BY <1>1, <1>9, AskIs
  <2>2. got' \in [Listeners -> Seq(Messages)]
    <3>1. thread[n].msg \in Messages
      BY <2>1, TakenMessage DEF Taken
    <3>2. got \in [Listeners -> Seq(Messages)]
      BY <1>1 DEF TypeOK
    <3>3. Append(got[Head(thread[n].wait)], thread[n].msg) \in Seq(Messages)
      BY <2>1, <3>1, <3>2
    <3>4. QED
      BY <1>9, <2>1, <3>2, <3>3 DEF Accept, Refuse
  <2>3. UNCHANGED <<members, app, fault, arrived, broker, since, handled>>
    BY <1>9 DEF Accept, Refuse
  <2>4. TypeOK'
    BY <1>1, <2>1, <2>2, <2>3 DEF TypeOK, Only
  <2>5. /\ thread[n].msg # 0
        /\ thread[n].batch # << >> => thread[n].via = "tcp"
    BY <2>1 DEF TypeInv, Control, FromTcp, Taken
  <2>6. Control'
    BY <2>1, <2>3, <2>5, ControlStep DEF Keeps, Taken, FromTcp
  <2>7. QED
    BY <2>4, <2>6 DEF TypeInv
<1>10. CASE Pump(n)
  <2>1. /\ Only(n) /\ Keeps(n) /\ thread[n].at = "call" /\ thread[n].via \in Receiving
        /\ thread'[n].at = IF thread[n].via = "tcp" THEN "parse" ELSE "while"
    BY <1>1, <1>10, PumpIs
  <2>2. thread[n].batch # << >> => thread[n].via = "tcp"
    BY <2>1 DEF TypeInv, Control, FromTcp, Taken
  <2>3. pumped' \subseteq Messages /\ handled' \subseteq Messages
    <3>1. thread[n].msg \in Messages
      BY <2>1, TakenMessage DEF Taken
    <3>2. QED
      BY <1>1, <1>10, <3>1 DEF Pump, TypeOK
  <2>4. UNCHANGED <<members, app, fault, arrived, freed, got, since>>
    BY <1>10 DEF Pump
  <2>5. TypeOK'
    BY <1>1, <2>1, <2>3, <2>4 DEF TypeOK, Only
  <2>6. Control'
    BY <2>1, <2>2, <2>4, ControlStep DEF Keeps, Taken, FromTcp
  <2>7. QED
    BY <2>5, <2>6 DEF TypeInv
<1>11. CASE Udp(n)
  <2>1. Only(n) /\ thread'[n].batch = thread[n].batch /\ thread[n].at = "udp"
    BY <1>11, UdpIs DEF Udp
  <2>2. thread[n].batch = << >>
    BY <2>1 DEF TypeInv, Control, FromTcp, Taken
  <2>3. UNCHANGED <<members, app, fault, stream, eof, goodbyes, said, freed, history>>
    BY <1>11 DEF Udp
  <2>4. /\ datagrams' \in [Conns -> SUBSET Messages] /\ pumped' \subseteq Messages
        /\ Taken(thread'[n]) => thread'[n].msg # 0
    <3>1. /\ datagrams \in [Conns -> SUBSET Messages] /\ pumped \subseteq Messages
      BY <1>1 DEF TypeOK
    <3>2. 0 \notin Messages
      BY MessagesAreNat
    <3>3. QED
      BY <1>11, <3>1, <3>2, UdpIs DEF Taken
  <2>5. TypeOK'
    BY <1>1, <2>1, <2>3, <2>4 DEF TypeOK, Only
  <2>6. Control'
    BY <2>1, <2>2, <2>3, <2>4, ControlStep
  <2>7. QED
    BY <2>5, <2>6 DEF TypeInv
<1>12. QED
  BY <1>3, <1>4, <1>5, <1>6, <1>7, <1>8, <1>9, <1>10, <1>11 DEF Run

LEMMA RemoteType ==
    ASSUME TypeInv, Remote \/ \E m \in Messages : BrokerDeletes(m)
    PROVE  TypeInv'
<1> USE DEF members, arrived, broker, history
<1>1. TypeOK
  BY DEF TypeInv
<1>2. UNCHANGED <<members, app, thread, fault, pumped, history>>
  BY DEF Remote, BrokerDeletes
<1>3. Control'
  BY <1>2, ControlStay DEF TypeInv, Control
<1>4. ASSUME NEW c \in Conns, \E goodbye \in BOOLEAN : Say(c, goodbye)
      PROVE  /\ said' \in 0 .. MaxSaid /\ stream' \in [Conns -> Seq(Messages)]
             /\ eof' \subseteq Conns /\ goodbyes' \subseteq Messages /\ UNCHANGED datagrams
  <2>1. said' = said + 1 /\ said < MaxSaid /\ said \in 0 .. MaxSaid
    BY <1>1, <1>4 DEF Say, TypeOK
  <2>2. said' \in Messages /\ said' \in 0 .. MaxSaid
    BY <2>1, BoundsAssumption DEF Messages
  <2>3. Append(stream[c], said') \in Seq(Messages)
    BY <1>1, <2>2 DEF TypeOK
  <2>4. QED
    BY <1>1, <1>4, <2>2, <2>3 DEF Say, TypeOK
<1>5. ASSUME NEW c \in Conns, SayUdp(c)
      PROVE  /\ said' \in 0 .. MaxSaid /\ datagrams' \in [Conns -> SUBSET Messages]
             /\ UNCHANGED <<stream, eof, goodbyes>>
  <2>1. said' = said + 1 /\ said < MaxSaid /\ said \in 0 .. MaxSaid
    BY <1>1, <1>5 DEF SayUdp, TypeOK
  <2>2. said' \in Messages /\ said' \in 0 .. MaxSaid
    BY <2>1, BoundsAssumption DEF Messages
  <2>3. QED
    BY <1>1, <1>5, <2>2 DEF SayUdp, TypeOK
<1>6. ASSUME Remote PROVE TypeOK'
  BY <1>1, <1>2, <1>4, <1>5, <1>6 DEF Remote, Lose, TypeOK
<1>7. ASSUME NEW m \in Messages, BrokerDeletes(m) PROVE TypeOK'
  BY <1>1, <1>7 DEF BrokerDeletes, TypeOK
<1>8. QED
  BY <1>3, <1>6, <1>7 DEF TypeInv

LEMMA InitType == Init => TypeInv
<1> SUFFICES ASSUME Init PROVE TypeInv
  OBVIOUS
<1> DEFINE r == [at |-> "unborn", conn |-> 0, ready |-> {}, batch |-> << >>,
                 cut |-> FALSE, msg |-> 0, via |-> "tcp", wait |-> << >>]
<1>1. thread = [n \in Nets |-> r]
  BY DEF Init
<1>2. r \in Thread /\ r.at = "unborn" /\ r.batch = << >>
  <2>1. 0 \in 0 .. MaxConnects /\ 0 \in 0 .. MaxSaid /\ "tcp" \in Receiving
    BY BoundsAssumption DEF Receiving
  <2>2. QED
    BY <2>1 DEF Thread
<1> HIDE DEF r
<1>3. thread \in [Nets -> Thread] /\ \A n \in Nets : thread[n] = r
  BY <1>1, <1>2
<1>4. 0 \in 0 .. MaxConnects /\ 0 \in 0 .. MaxSaid
  BY BoundsAssumption
<1>5. TypeOK
  <2>1. << >> \in Seq(Messages) /\ << >> \in Seq(Listeners)
    OBVIOUS
  <2>2. /\ stream \in [Conns -> Seq(Messages)] /\ got \in [Listeners -> Seq(Messages)]
        /\ listeners \in Seq(Listeners)
    BY <2>1 DEF Init
  <2>3. /\ sock \in [Conns -> SUBSET Receiving] /\ datagrams \in [Conns -> SUBSET Messages]
        /\ since \in [Listeners -> 0 .. MaxSaid]
    BY <1>4 DEF Init
  <2>4. QED
    BY <1>3, <1>4, <2>2, <2>3 DEF TypeOK, Init
<1>6. Control
  BY <1>2, <1>3 DEF Control, Init, Taken, FromTcp
<1>7. QED
  BY <1>5, <1>6 DEF TypeInv

LEMMA NextType == TypeInv /\ [Next]_vars => TypeInv'
<1> SUFFICES ASSUME TypeInv, [Next]_vars PROVE TypeInv'
  OBVIOUS
<1>1. ASSUME UNCHANGED vars PROVE TypeInv'
  <2>1. TypeOK'
    BY <1>1 DEF TypeInv, TypeOK, vars, members, arrived, broker, history
  <2>2. Control'
    BY <1>1 DEF TypeInv, Control, Taken, FromTcp, vars, members
  <2>3. QED
    BY <2>1, <2>2 DEF TypeInv
<1>2. QED
  BY <1>1, ProgramType, RunType, RemoteType DEF Next, Over

\* Every step keeps the types.
THEOREM TypeCorrect == Spec => []TypeOK
<1>1. TypeInv => TypeOK
  BY DEF TypeInv
<1>2. QED
  BY <1>1, InitType, NextType, PTL DEF Spec

-----------------------------------------------------------------------------
(* Every message is in one place, and messages keep their order. *)

\* The messages of every thread are where they were.
Still ==
    /\ UNCHANGED <<stream, datagrams, said, pumped>>
    /\ \A n \in Nets :
          /\ thread'[n].batch = thread[n].batch
          /\ FromTcp(thread'[n]) <=> FromTcp(thread[n])
          /\ thread'[n].msg = thread[n].msg

LEMMA StillStep ==
    ASSUME Ordered, OnePlace, Still, freed' \subseteq pumped
    PROVE  Ordered' /\ OnePlace'
<1>1. \A n \in Nets : Hand(thread'[n]) = Hand(thread[n])
  BY DEF Still, Hand
<1>2. Ordered'
  BY <1>1 DEF Still, Ordered
<1>3. OnePlace'
  BY <1>1 DEF Still, OnePlace
<1>4. QED
  BY <1>2, <1>3

LEMMA KeepsIsStill ==
    ASSUME NEW n \in Nets, Only(n), Keeps(n), Taken(thread'[n]) <=> Taken(thread[n]),
           UNCHANGED <<stream, datagrams, said, pumped>>
    PROVE  Still
BY DEF Only, Keeps, Still, FromTcp

LEMMA ProgramStill ==
    ASSUME TypeInv, Program
    PROVE  Still /\ UNCHANGED freed
<1> USE DEF arrived, broker
<1>1. UNCHANGED <<stream, datagrams, said, pumped, freed>>
  BY DEF Program, Connect, Sockets, Start, Listen, SendMessage, Disconnect, DisconnectNothing,
         Destroy, CloseAll, Register, Unregister, ChangeListeners
<1>2. UNCHANGED thread \/ NewThread \/ NoThread
  BY DEF Program, Connect, Sockets, Start, Listen, SendMessage, Disconnect, DisconnectNothing,
         Destroy, CloseAll, Register, Unregister, ChangeListeners
<1>3. CASE UNCHANGED thread
  BY <1>1, <1>3 DEF Still
<1>4. ASSUME NEW n \in Nets, Only(n), Keeps(n), thread[n].at = "unborn", thread'[n].at = "enter"
      PROVE  Still
  BY <1>1, <1>4, KeepsIsStill DEF Taken
<1>5. QED
  BY <1>1, <1>2, <1>3, <1>4, NewThreadIs DEF TypeInv

LEMMA RunStill ==
    ASSUME TypeInv, NEW n \in Nets, Run(n), ~Read(n), ~Parse(n), ~Pump(n), ~Udp(n)
    PROVE  Still /\ UNCHANGED freed
<1> USE DEF arrived, broker, At
<1>1. TypeOK
  BY DEF TypeInv
<1>2. UNCHANGED <<stream, datagrams, said, pumped, freed>>
  BY DEF Run, Enter, While, Select, Copy, AskFreed, Accept, Refuse, UseFreedNetwork
<1>3. CASE UNCHANGED thread
  BY <1>2, <1>3 DEF Still
<1>4. ASSUME Only(n), Keeps(n),
             Taken(thread'[n]) <=> Taken(thread[n])
      PROVE  Still
  BY <1>2, <1>4, KeepsIsStill
<1>5. CASE Enter(n)
  BY <1>1, <1>3, <1>4, <1>5, GotoIs DEF Enter, Taken
<1>6. CASE While(n)
  BY <1>1, <1>4, <1>6, GotoIs DEF While, Taken
<1>7. CASE Select(n)
  <2>1. Only(n) /\ Keeps(n) /\ thread'[n].at \in {"while", "read"} /\ thread[n].at = "select"
    BY <1>1, <1>7, SelectIs DEF Select
  <2>2. Taken(thread'[n]) <=> Taken(thread[n])
    BY <2>1 DEF Taken
  <2>3. QED
    BY <1>2, <1>4, <2>1, <2>2
<1>8. CASE Copy(n)
  BY <1>1, <1>4, <1>8, CopyIs DEF Copy, Taken
<1>9. CASE Accept(n) \/ Refuse(n)
  <2>1. Only(n) /\ Keeps(n) /\ thread'[n].at = "call" /\ thread[n].at = "call"
    BY <1>1, <1>9, AskIs
  <2>2. Taken(thread'[n]) <=> Taken(thread[n])
    BY <2>1 DEF Taken
  <2>3. QED
    BY <1>2, <1>4, <2>1, <2>2
<1>10. CASE AskFreed(n) \/ UseFreedNetwork(n)
  BY <1>3, <1>10 DEF AskFreed, UseFreedNetwork
<1>11. QED
  BY <1>2, <1>5, <1>6, <1>7, <1>8, <1>9, <1>10 DEF Run

LEMMA Divided ==
    ASSUME NEW s \in Seq(Messages), NEW k \in 1 .. Len(s)
    PROVE  LET a == SubSeq(s, 1, k)
               b == SubSeq(s, k + 1, Len(s))
           IN  /\ a \in Seq(Messages) /\ b \in Seq(Messages)
               /\ Range(a) \subseteq Range(s) /\ Range(b) \subseteq Range(s)
               /\ Increasing(s) => /\ Increasing(a) /\ Increasing(b)
                                   /\ \A m \in Range(a), j \in Range(b) : m < j
<1> DEFINE a == SubSeq(s, 1, k)
           b == SubSeq(s, k + 1, Len(s))
<1>1. /\ Len(s) \in Nat /\ k \in Nat /\ 1 <= k /\ k <= Len(s) /\ DOMAIN s = 1 .. Len(s)
  OBVIOUS
<1>2. a \in Seq(Messages) /\ DOMAIN a = 1 .. k /\ \A i \in 1 .. k : a[i] = s[i]
  BY <1>1
<1>3. b \in Seq(Messages) /\ DOMAIN b = 1 .. Len(s) - k /\ \A i \in 1 .. Len(s) - k : b[i] = s[k + i]
  BY <1>1
<1> HIDE DEF a, b
<1>4. Range(a) \subseteq Range(s)
  BY <1>1, <1>2 DEF Range
<1>5. Range(b) \subseteq Range(s)
  <2>1. \A i \in 1 .. Len(s) - k : k + i \in DOMAIN s
    BY <1>1
  <2>2. QED
    BY <1>3, <2>1 DEF Range
<1>6. Increasing(s) => Increasing(a)
  BY <1>1, <1>2 DEF Increasing
<1>7. Increasing(s) => Increasing(b)
  <2>1. ASSUME Increasing(s), NEW i \in DOMAIN b, NEW j \in DOMAIN b, i < j PROVE b[i] < b[j]
    <3>1. k + i \in DOMAIN s /\ k + j \in DOMAIN s /\ k + i < k + j
      BY <1>1, <1>3, <2>1
    <3>2. s[k + i] < s[k + j]
      BY <2>1, <3>1 DEF Increasing
    <3>3. QED
      BY <1>3, <3>2
  <2>2. QED
    BY <2>1 DEF Increasing
<1>8. ASSUME Increasing(s), NEW m \in Range(a), NEW j \in Range(b) PROVE m < j
  <2>1. PICK x \in 1 .. k : m = s[x]
    BY <1>2 DEF Range
  <2>2. PICK y \in 1 .. Len(s) - k : j = s[k + y]
    BY <1>3 DEF Range
  <2>3. x < k + y /\ x \in DOMAIN s /\ k + y \in DOMAIN s
    BY <1>1, <2>1, <2>2
  <2>4. QED
    BY <1>8, <2>1, <2>2, <2>3 DEF Increasing
<1>9. QED
  BY <1>2, <1>3, <1>4, <1>5, <1>6, <1>7, <1>8 DEF a, b

LEMMA HeadTailRange ==
    ASSUME NEW S, NEW s \in Seq(S), s # << >>
    PROVE  Head(s) \in S /\ Tail(s) \in Seq(S) /\ Range(s) = {Head(s)} \cup Range(Tail(s))
<1> DEFINE t == Tail(s)
<1>1. /\ Len(s) \in Nat \ {0} /\ DOMAIN s = 1 .. Len(s) /\ Head(s) = s[1] /\ Head(s) \in S
      /\ t \in Seq(S) /\ DOMAIN t = 1 .. Len(s) - 1
      /\ \A i \in 1 .. Len(s) - 1 : t[i] = s[i + 1]
  OBVIOUS
<1> HIDE DEF t
<1>2. ASSUME NEW i \in 1 .. Len(s) PROVE s[i] \in {Head(s)} \cup Range(t)
  <2>1. CASE i = 1
    BY <1>1, <2>1
  <2>2. CASE i # 1
    <3>1. i - 1 \in DOMAIN t /\ t[i - 1] = s[i]
      BY <1>1, <2>2
    <3>2. QED
      BY <3>1 DEF Range
  <2>3. QED
    BY <2>1, <2>2
<1>3. ASSUME NEW i \in DOMAIN t PROVE t[i] \in Range(s)
  BY <1>1 DEF Range
<1>4. Head(s) \in Range(s)
  BY <1>1 DEF Range
<1>5. Range(s) = {Head(s)} \cup Range(t)
  BY <1>1, <1>2, <1>3, <1>4 DEF Range
<1>6. QED
  BY <1>1, <1>5 DEF t

LEMMA HeadAndTail ==
    ASSUME NEW s \in Seq(Messages), s # << >>
    PROVE  /\ Head(s) \in Messages /\ Tail(s) \in Seq(Messages)
           /\ Range(s) = {Head(s)} \cup Range(Tail(s))
           /\ Increasing(s) => /\ Increasing(Tail(s))
                               /\ \A m \in Range(Tail(s)) : Head(s) < m
<1> DEFINE t == Tail(s)
<1>1. /\ Len(s) \in Nat \ {0} /\ DOMAIN s = 1 .. Len(s) /\ Head(s) = s[1]
      /\ t \in Seq(Messages) /\ DOMAIN t = 1 .. Len(s) - 1
      /\ \A i \in 1 .. Len(s) - 1 : t[i] = s[i + 1]
  OBVIOUS
<1> HIDE DEF t
<1>2. Range(s) = {Head(s)} \cup Range(t)
  BY HeadTailRange DEF t
<1>3. ASSUME Increasing(s) PROVE Increasing(t) /\ \A m \in Range(t) : Head(s) < m
  <2>1. Increasing(t)
    <3>1. ASSUME NEW i \in DOMAIN t, NEW j \in DOMAIN t, i < j PROVE t[i] < t[j]
      <4>1. i + 1 \in DOMAIN s /\ j + 1 \in DOMAIN s /\ i + 1 < j + 1
        BY <1>1, <3>1
      <4>2. s[i + 1] < s[j + 1]
        BY <1>3, <4>1 DEF Increasing
      <4>3. QED
        BY <1>1, <4>2
    <3>2. QED
      BY <3>1 DEF Increasing
  <2>2. ASSUME NEW i \in DOMAIN t PROVE Head(s) < t[i]
    BY <1>1, <1>3 DEF Increasing
  <2>3. QED
    BY <2>1, <2>2 DEF Range
<1>4. QED
  BY <1>1, <1>2, <1>3 DEF t

LEMMA Appended ==
    ASSUME NEW S, NEW s \in Seq(S), NEW x \in S
    PROVE  /\ Range(Append(s, x)) = Range(s) \cup {x}
           /\ Increasing(s) /\ (\A m \in Range(s) : m < x) => Increasing(Append(s, x))
<1> DEFINE a == Append(s, x)
<1>1. /\ Len(s) \in Nat /\ DOMAIN s = 1 .. Len(s) /\ DOMAIN a = 1 .. Len(s) + 1
      /\ a[Len(s) + 1] = x /\ \A i \in 1 .. Len(s) : a[i] = s[i]
  OBVIOUS
<1> HIDE DEF a
<1>2. Range(a) = Range(s) \cup {x}
  BY <1>1 DEF Range
<1>3. ASSUME Increasing(s), \A m \in Range(s) : m < x PROVE Increasing(a)
  <2>1. ASSUME NEW i \in DOMAIN a, NEW j \in DOMAIN a, i < j PROVE a[i] < a[j]
    <3>1. i \in DOMAIN s /\ a[i] = s[i]
      BY <1>1, <2>1
    <3>2. CASE j = Len(s) + 1
      <4>1. s[i] \in Range(s)
        BY <3>1 DEF Range
      <4>2. QED
        BY <1>1, <1>3, <3>1, <3>2, <4>1
    <3>3. CASE j # Len(s) + 1
      <4>1. j \in DOMAIN s /\ a[j] = s[j]
        BY <1>1, <3>3
      <4>2. QED
        BY <1>3, <2>1, <3>1, <4>1 DEF Increasing
    <3>4. QED
      BY <3>2, <3>3
  <2>2. QED
    BY <2>1 DEF Increasing
<1>4. QED
  BY <1>2, <1>3 DEF a

\* Messages X go from one place to another.
LEMMA MoveStep ==
    ASSUME OnePlace, NEW n \in Nets, NEW c \in Conns, NEW X, UNCHANGED freed,
           \A k \in Nets \ {n} : Hand(thread'[k]) = Hand(thread[k]),
           \A d \in Conns : /\ Range(stream'[d]) \subseteq Range(stream[d])
                            /\ datagrams'[d] \subseteq datagrams[d],
           X \subseteq Range(stream[c]) \cup datagrams[c] \cup Hand(thread[n]),
           X \cap (Range(stream'[c]) \cup datagrams'[c]) = {},
           \/ pumped' = pumped /\ Hand(thread'[n]) \subseteq Hand(thread[n]) \cup X
           \/ pumped' = pumped \cup X /\ Hand(thread'[n]) \subseteq Hand(thread[n]) \ X
    PROVE  OnePlace'
<1>1. \A d \in Conns : X \cap (Range(stream'[d]) \cup datagrams'[d]) = {}
  BY DEF OnePlace
<1>2. \A k \in Nets \ {n} : X \cap Hand(thread[k]) = {}
  BY DEF OnePlace
<1>3. X \cap pumped = {}
  BY DEF OnePlace
<1>4. \A d, e \in Conns :
          /\ Range(stream'[d]) \cap datagrams'[e] = {}
          /\ d # e => /\ Range(stream'[d]) \cap Range(stream'[e]) = {}
                      /\ datagrams'[d] \cap datagrams'[e] = {}
  BY DEF OnePlace
<1>5. \A d \in Conns, k \in Nets :
          Hand(thread'[k]) \cap (Range(stream'[d]) \cup datagrams'[d]) = {}
  BY <1>1 DEF OnePlace
<1>6. \A j, k \in Nets : j # k => Hand(thread'[j]) \cap Hand(thread'[k]) = {}
  BY <1>2 DEF OnePlace
<1>7. \A d \in Conns : pumped' \cap (Range(stream'[d]) \cup datagrams'[d]) = {}
  BY <1>1 DEF OnePlace
<1>8. \A k \in Nets : pumped' \cap Hand(thread'[k]) = {}
  BY <1>2, <1>3 DEF OnePlace
<1>9. freed' \subseteq pumped'
  BY DEF OnePlace
<1>10. QED
  BY <1>4, <1>5, <1>6, <1>7, <1>8, <1>9 DEF OnePlace

\* A message comes in.
LEMMA NewStep ==
    ASSUME Ordered, OnePlace, NEW c \in Conns, UNCHANGED <<thread, pumped, freed>>,
           said \in Nat, said' = said + 1,
           \A d \in Conns \ {c} : stream'[d] = stream[d] /\ datagrams'[d] = datagrams[d],
           \/ Range(stream'[c]) = Range(stream[c]) \cup {said'} /\ datagrams'[c] = datagrams[c]
           \/ stream'[c] = stream[c] /\ datagrams'[c] = datagrams[c] \cup {said'}
    PROVE  OnePlace'
<1>1. \A X : X \subseteq 1 .. said => said' \notin X
  OBVIOUS
<1>2. \A d \in Conns : said' \notin Range(stream[d]) /\ said' \notin datagrams[d]
  BY <1>1 DEF Ordered
<1>3. \A n \in Nets : said' \notin Hand(thread[n])
  BY <1>1 DEF Ordered
<1>4. said' \notin pumped
  BY <1>1 DEF Ordered
<1>5. \A d, e \in Conns :
          /\ Range(stream'[d]) \cap datagrams'[e] = {}
          /\ d # e => /\ Range(stream'[d]) \cap Range(stream'[e]) = {}
                      /\ datagrams'[d] \cap datagrams'[e] = {}
  BY <1>2 DEF OnePlace
<1>6. \A d \in Conns, k \in Nets :
          Hand(thread'[k]) \cap (Range(stream'[d]) \cup datagrams'[d]) = {}
  BY <1>3 DEF OnePlace
<1>7. \A j, k \in Nets : j # k => Hand(thread'[j]) \cap Hand(thread'[k]) = {}
  BY DEF OnePlace
<1>8. \A d \in Conns : pumped' \cap (Range(stream'[d]) \cup datagrams'[d]) = {}
  BY <1>4 DEF OnePlace
<1>9. (\A k \in Nets : pumped' \cap Hand(thread'[k]) = {}) /\ freed' \subseteq pumped'
  BY DEF OnePlace
<1>10. QED
  BY <1>5, <1>6, <1>7, <1>8, <1>9 DEF OnePlace

LEMMA HandIs ==
    ASSUME TypeOK, NEW n \in Nets
    PROVE  /\ Range(thread[n].batch) \subseteq Hand(thread[n])
           /\ FromTcp(thread[n]) => Hand(thread[n]) = Range(thread[n].batch) \cup {thread[n].msg}
           /\ ~FromTcp(thread[n]) => Hand(thread[n]) = Range(thread[n].batch)
           /\ thread[n].batch \in Seq(Messages)
BY Fields DEF Hand, TypeOK

LEMMA EmptyRange == Range(<< >>) = {}
BY DEF Range

LEMMA ReadPlace ==
    ASSUME PlaceInv, NEW n \in Nets, Read(n)
    PROVE  Ordered' /\ OnePlace'
<1>1. TypeInv /\ TypeOK /\ Ordered /\ OnePlace /\ TypeInv'
  BY RunType DEF PlaceInv, TypeInv, Run
<1>2. /\ UNCHANGED <<datagrams, said, pumped, freed>> /\ thread[n].at = "read"
  BY DEF Read, At, broker
<1>3. Only(n) /\ thread[n].batch = << >> /\ ~FromTcp(thread[n])
  BY <1>1, <1>2, ReadIs DEF TypeInv, Control, FromTcp, Taken
<1>4. CASE thread'[n].at = "udp" /\ Keeps(n) /\ UNCHANGED stream
  <2>1. Still
    BY <1>2, <1>3, <1>4 DEF Still, Keeps, Only, FromTcp, Taken
  <2>2. QED
    BY <1>1, <1>2, <2>1, StillStep DEF OnePlace
<1>5. ASSUME NEW k \in 1 .. Len(stream[conn]), ReadSome(n, k)
      PROVE  Ordered' /\ OnePlace'
  <2> DEFINE s == stream[conn]
             a == SubSeq(s, 1, k)
             b == SubSeq(s, k + 1, Len(s))
  <2>1. conn \in Conns /\ s \in Seq(Messages) /\ Increasing(s)
    BY <1>1, <1>5 DEF TypeOK, Ordered, ReadSome
  <2>2. /\ Range(a) \subseteq Range(s) /\ Range(b) \subseteq Range(s)
        /\ Increasing(a) /\ Increasing(b)
        /\ \A m \in Range(a), j \in Range(b) : m < j
        /\ a \in Seq(Messages)
    BY <2>1, Divided
  <2>3. /\ thread'[n].batch = a /\ ~FromTcp(thread'[n]) /\ stream'[conn] = b
        /\ \A d \in Conns \ {conn} : stream'[d] = stream[d]
    BY <1>1, <1>5, <2>1 DEF ReadSome, FromTcp, Taken, TypeOK
  <2> HIDE DEF a, b
  <2>4. /\ Hand(thread[n]) = {} /\ Hand(thread'[n]) = Range(a)
        /\ \A k2 \in Nets \ {n} : thread'[k2] = thread[k2]
    BY <1>3, <2>3, EmptyRange DEF Hand, Only
  <2>5. \A m \in Range(a) : ~(m < m)
    <3>1. Range(a) \subseteq Messages
      BY <2>2 DEF Range
    <3>2. \A m \in Range(a) : m \in Nat
      BY <3>1, MessagesAreNat
    <3>3. QED
      BY <3>2
  <2>6. Range(a) \cap (Range(b) \cup datagrams[conn]) = {}
    BY <1>1, <2>1, <2>2, <2>5 DEF OnePlace
  <2>7. OnePlace'
    <3>1. \A d \in Conns : /\ Range(stream'[d]) \subseteq Range(stream[d])
                           /\ datagrams'[d] \subseteq datagrams[d]
      BY <1>2, <2>2, <2>3
    <3>2. \A j \in Nets \ {n} : Hand(thread'[j]) = Hand(thread[j])
      BY <2>4
    <3>3. Range(a) \cap (Range(stream'[conn]) \cup datagrams'[conn]) = {}
      BY <1>2, <2>3, <2>6
    <3>4. /\ Range(a) \subseteq Range(stream[conn]) \cup datagrams[conn] \cup Hand(thread[n])
          /\ Hand(thread'[n]) \subseteq Hand(thread[n]) \cup Range(a)
          /\ pumped' = pumped /\ UNCHANGED freed
      BY <1>2, <2>2, <2>4
    <3>5. QED
      BY <1>1, <2>1, <3>1, <3>2, <3>3, <3>4, MoveStep
  <2>8. Ordered'
    <3>1. \A c \in Conns : Increasing(stream'[c]) /\ Range(stream'[c]) \subseteq 1 .. said
      BY <1>1, <2>1, <2>2, <2>3 DEF Ordered
    <3>2. \A j \in Nets : /\ Increasing(thread'[j].batch)
                          /\ FromTcp(thread'[j]) => \A m \in Range(thread'[j].batch) : thread'[j].msg < m
                          /\ Hand(thread'[j]) \subseteq 1 .. said
      BY <1>1, <2>1, <2>2, <2>3, <2>4 DEF Ordered
    <3>3. QED
      BY <1>1, <1>2, <3>1, <3>2 DEF Ordered
  <2>9. QED
    BY <2>7, <2>8
<1>6. QED
  BY <1>1, <1>4, <1>5, ReadIs

LEMMA ParsePlace ==
    ASSUME PlaceInv, NEW n \in Nets, Parse(n)
    PROVE  Ordered' /\ OnePlace'
<1>1. TypeInv /\ TypeOK /\ Ordered /\ OnePlace /\ freed \subseteq pumped
  BY DEF PlaceInv, TypeInv, OnePlace
<1>2. /\ UNCHANGED <<stream, datagrams, said, pumped, freed>> /\ thread[n].at = "parse"
  BY DEF Parse, At, broker, arrived
<1>3. CASE UNCHANGED thread
  <2>1. Still
    BY <1>2, <1>3 DEF Still
  <2>2. QED
    BY <1>1, <1>2, <2>1, StillStep
<1>4. CASE Only(n) /\ thread'[n].at = "udp" /\ Keeps(n)
  <2>1. Still
    BY <1>2, <1>4 DEF Still, Keeps, Only, FromTcp, Taken
  <2>2. QED
    BY <1>1, <1>2, <2>1, StillStep
<1>5. CASE /\ Only(n) /\ thread[n].batch # << >>
           /\ thread'[n].at = "copy" /\ thread'[n].via = "tcp"
           /\ thread'[n].batch = Tail(thread[n].batch) /\ thread'[n].msg = Head(thread[n].batch)
  <2> DEFINE b == thread[n].batch
  <2>1. b \in Seq(Messages) /\ b # << >> /\ Increasing(b)
    BY <1>1, <1>5, HandIs DEF Ordered
  <2>2. /\ Range(b) = {Head(b)} \cup Range(Tail(b))
        /\ Increasing(Tail(b)) /\ \A m \in Range(Tail(b)) : Head(b) < m
    BY <2>1, HeadAndTail
  <2>3. ~FromTcp(thread[n]) /\ FromTcp(thread'[n])
    BY <1>2, <1>5 DEF FromTcp, Taken
  <2>4. Hand(thread'[n]) = Hand(thread[n])
    BY <1>5, <2>2, <2>3 DEF Hand
  <2>5. \A k \in Nets \ {n} : thread'[k] = thread[k]
    BY <1>5 DEF Only
  <2>6. \A k \in Nets : Hand(thread'[k]) = Hand(thread[k])
    BY <2>4, <2>5
  <2>7. OnePlace'
    BY <1>1, <1>2, <2>6 DEF OnePlace
  <2>8. \A k \in Nets : /\ Increasing(thread'[k].batch)
                        /\ FromTcp(thread'[k]) => \A m \in Range(thread'[k].batch) : thread'[k].msg < m
    BY <1>1, <1>5, <2>2, <2>5 DEF Ordered
  <2>9. Ordered'
    BY <1>1, <1>2, <2>6, <2>8 DEF Ordered
  <2>10. QED
    BY <2>7, <2>9
<1>6. QED
  BY <1>1, <1>3, <1>4, <1>5, ParseIs

LEMMA PumpPlace ==
    ASSUME PlaceInv, NEW n \in Nets, Pump(n)
    PROVE  Ordered' /\ OnePlace'
<1>1. TypeInv /\ TypeOK /\ Ordered /\ OnePlace /\ freed \subseteq pumped
  BY DEF PlaceInv, TypeInv, OnePlace
<1>2. /\ UNCHANGED <<stream, datagrams, said, freed>> /\ Only(n) /\ Keeps(n)
      /\ thread[n].at = "call" /\ thread'[n].at = IF thread[n].via = "tcp" THEN "parse" ELSE "while"
      /\ pumped' = pumped \cup IF thread[n].via = "tcp" THEN {thread[n].msg} ELSE {}
  BY <1>1, PumpIs DEF Pump, arrived
<1>3. conn \in Conns
  BY <1>1, <1>2, InConns
<1>4. \A k \in Nets \ {n} : thread'[k] = thread[k]
  BY <1>2 DEF Only
<1>5. CASE thread[n].via = "tcp"
  <2> DEFINE m == thread[n].msg
             b == thread[n].batch
  <2>1. /\ FromTcp(thread[n]) /\ ~FromTcp(thread'[n])
        /\ thread'[n].batch = b
    BY <1>2, <1>5 DEF FromTcp, Taken, Keeps
  <2>2. Hand(thread[n]) = Range(b) \cup {m} /\ Hand(thread'[n]) = Range(b)
    BY <2>1 DEF Hand
  <2>3. m \notin Range(b)
    <3>1. \A k \in Range(b) : m < k
      BY <1>1, <2>1 DEF Ordered
    <3>2. m \in 0 .. MaxSaid
      BY <1>1, Fields DEF TypeOK
    <3>3. ~(m < m)
      BY <3>2
    <3>4. QED
      BY <3>1, <3>3
  <2>4. {m} \cap (Range(stream[conn]) \cup datagrams[conn]) = {}
    BY <1>1, <1>3, <2>2 DEF OnePlace
  <2>5. pumped' = pumped \cup {m}
    BY <1>2, <1>5
  <2>6. OnePlace'
    <3>1. \A d \in Conns : /\ Range(stream'[d]) \subseteq Range(stream[d])
                           /\ datagrams'[d] \subseteq datagrams[d]
      BY <1>2
    <3>2. \A k \in Nets \ {n} : Hand(thread'[k]) = Hand(thread[k])
      BY <1>4
    <3>3. /\ {m} \subseteq Range(stream[conn]) \cup datagrams[conn] \cup Hand(thread[n])
          /\ {m} \cap (Range(stream'[conn]) \cup datagrams'[conn]) = {}
          /\ Hand(thread'[n]) \subseteq Hand(thread[n]) \ {m}
      BY <1>2, <2>2, <2>3, <2>4
    <3>4. QED
      BY <1>1, <1>2, <1>3, <2>5, <3>1, <3>2, <3>3, MoveStep
  <2>7. pumped' \subseteq 1 .. said
    BY <1>1, <2>2, <2>5 DEF Ordered
  <2>8. Ordered'
    <3>1. \A k \in Nets : /\ Increasing(thread'[k].batch)
                          /\ FromTcp(thread'[k]) => \A j \in Range(thread'[k].batch) : thread'[k].msg < j
                          /\ Hand(thread'[k]) \subseteq 1 .. said
      BY <1>1, <1>4, <2>1, <2>2 DEF Ordered
    <3>2. QED
      BY <1>1, <1>2, <2>7, <3>1 DEF Ordered
  <2>9. QED
    BY <2>6, <2>8
<1>6. CASE thread[n].via # "tcp"
  <2>1. Still
    BY <1>2, <1>4, <1>6 DEF Still, FromTcp, Keeps
  <2>2. QED
    BY <1>1, <1>2, <2>1, StillStep
<1>7. QED
  BY <1>5, <1>6

LEMMA UdpPlace ==
    ASSUME PlaceInv, NEW n \in Nets, Udp(n)
    PROVE  Ordered' /\ OnePlace'
<1>1. TypeInv /\ TypeOK /\ Ordered /\ OnePlace /\ freed \subseteq pumped
  BY DEF PlaceInv, TypeInv, OnePlace
<1>2. /\ UNCHANGED <<stream, said, freed>> /\ Only(n) /\ thread[n].at = "udp"
      /\ thread'[n].batch = thread[n].batch
  BY <1>1, UdpIs DEF Udp, At
<1>3. ~FromTcp(thread[n]) /\ thread[n].batch = << >> /\ conn \in Conns
  BY <1>1, <1>2, InConns DEF TypeInv, Control, FromTcp, Taken
<1>4. \A k \in Nets \ {n} : thread'[k] = thread[k]
  BY <1>2 DEF Only
<1>5. CASE thread'[n].at = "while" /\ Keeps(n) /\ UNCHANGED <<datagrams, pumped>>
  <2>1. Still
    BY <1>2, <1>3, <1>4, <1>5 DEF Still, FromTcp, Taken, Keeps
  <2>2. QED
    BY <1>1, <1>2, <2>1, StillStep
<1>6. ASSUME NEW m \in datagrams[conn], thread'[n].via = "udp",
             datagrams' = [datagrams EXCEPT ![conn] = @ \ {m}], pumped' = pumped \cup {m}
      PROVE  Ordered' /\ OnePlace'
  <2>1. Hand(thread'[n]) = {} /\ Hand(thread[n]) = {} /\ ~FromTcp(thread'[n])
    BY <1>2, <1>3, <1>6, EmptyRange DEF Hand, FromTcp
  <2>2. /\ datagrams'[conn] = datagrams[conn] \ {m}
        /\ \A d \in Conns \ {conn} : datagrams'[d] = datagrams[d]
    BY <1>1, <1>3, <1>6 DEF TypeOK
  <2>3. {m} \cap (Range(stream[conn]) \cup datagrams'[conn]) = {}
    BY <1>1, <1>3, <1>6, <2>2 DEF OnePlace
  <2>4. \A d \in Conns : /\ Range(stream'[d]) \subseteq Range(stream[d])
                         /\ datagrams'[d] \subseteq datagrams[d]
    BY <1>2, <2>2
  <2>5. OnePlace'
    <3>1. \A k \in Nets \ {n} : Hand(thread'[k]) = Hand(thread[k])
      BY <1>4
    <3>2. /\ {m} \subseteq Range(stream[conn]) \cup datagrams[conn] \cup Hand(thread[n])
          /\ {m} \cap (Range(stream'[conn]) \cup datagrams'[conn]) = {}
          /\ Hand(thread'[n]) \subseteq Hand(thread[n]) \ {m}
      BY <1>2, <1>6, <2>1, <2>3
    <3>3. QED
      BY <1>1, <1>2, <1>3, <1>6, <2>4, <3>1, <3>2, MoveStep
  <2>6. pumped' \subseteq 1 .. said
    BY <1>1, <1>3, <1>6 DEF Ordered
  <2>7. \A k \in Nets : /\ Increasing(thread'[k].batch)
                        /\ FromTcp(thread'[k]) => \A j \in Range(thread'[k].batch) : thread'[k].msg < j
                        /\ Hand(thread'[k]) \subseteq 1 .. said
    BY <1>1, <1>2, <1>4, <2>1 DEF Ordered
  <2>8. Ordered'
    BY <1>1, <1>2, <2>4, <2>6, <2>7 DEF Ordered
  <2>9. QED
    BY <2>5, <2>8
<1>7. QED
  BY <1>1, <1>5, <1>6, UdpIs

LEMMA RemotePlace ==
    ASSUME PlaceInv, Remote
    PROVE  Ordered' /\ OnePlace'
<1>1. TypeInv /\ TypeOK /\ Ordered /\ OnePlace
  BY DEF PlaceInv, TypeInv
<1>2. UNCHANGED <<thread, pumped, freed>> /\ said \in Nat
  BY <1>1, BoundsAssumption DEF Remote, broker, TypeOK
<1>3. PICK c \in Conns : (\E goodbye \in BOOLEAN : Say(c, goodbye)) \/ SayUdp(c) \/ Lose(c)
  BY DEF Remote
<1>4. CASE UNCHANGED <<stream, datagrams, said>>
  BY <1>1, <1>2, <1>4 DEF Ordered, OnePlace
<1>5. CASE \E goodbye \in BOOLEAN : Say(c, goodbye)
  <2> DEFINE a == Append(stream[c], said + 1)
  <2>1. /\ said' = said + 1 /\ datagrams' = datagrams /\ stream' = [stream EXCEPT ![c] = a]
        /\ said < MaxSaid
    BY <1>5 DEF Say
  <2>2. said + 1 \in Messages /\ stream[c] \in Seq(Messages)
    BY <1>1, <1>2, <2>1, BoundsAssumption DEF Messages, TypeOK
  <2>3. \A m \in 1 .. said : m < said + 1 /\ m \in 1 .. said + 1
    BY <1>2
  <2>4. Range(a) = Range(stream[c]) \cup {said + 1} /\ Increasing(a)
    BY <1>1, <2>2, <2>3, Appended DEF Ordered
  <2> HIDE DEF a
  <2>5. stream'[c] = a /\ \A d \in Conns \ {c} : stream'[d] = stream[d]
    BY <1>1, <2>1 DEF TypeOK
  <2>6. OnePlace'
    BY <1>1, <1>2, <2>1, <2>4, <2>5, NewStep
  <2>7. said + 1 \in 1 .. said + 1
    BY <1>2
  <2>8. \A d \in Conns : /\ Increasing(stream'[d])
                         /\ Range(stream'[d]) \cup datagrams'[d] \subseteq 1 .. said + 1
    BY <1>1, <2>1, <2>3, <2>4, <2>5, <2>7 DEF Ordered
  <2>9. Ordered'
    BY <1>1, <1>2, <2>1, <2>3, <2>8 DEF Ordered
  <2>10. QED
    BY <2>6, <2>9
<1>6. CASE SayUdp(c)
  <2>1. /\ said' = said + 1 /\ stream' = stream
        /\ datagrams' = [datagrams EXCEPT ![c] = datagrams[c] \cup {said + 1}]
    BY <1>6 DEF SayUdp
  <2>2. /\ datagrams'[c] = datagrams[c] \cup {said + 1}
        /\ \A d \in Conns \ {c} : datagrams'[d] = datagrams[d]
    BY <1>1, <2>1 DEF TypeOK
  <2>3. OnePlace'
    BY <1>1, <1>2, <2>1, <2>2, NewStep
  <2>4. said + 1 \in 1 .. said + 1 /\ \A m \in 1 .. said : m \in 1 .. said + 1
    BY <1>2
  <2>5. \A d \in Conns : /\ Increasing(stream'[d])
                         /\ Range(stream'[d]) \cup datagrams'[d] \subseteq 1 .. said + 1
    BY <1>1, <2>1, <2>2, <2>4 DEF Ordered
  <2>6. Ordered'
    BY <1>1, <1>2, <2>1, <2>4, <2>5 DEF Ordered
  <2>7. QED
    BY <2>3, <2>6
<1>7. CASE Lose(c)
  BY <1>4, <1>7 DEF Lose
<1>8. QED
  BY <1>3, <1>5, <1>6, <1>7

LEMMA InitPlace == Init => PlaceInv
<1> SUFFICES ASSUME Init PROVE PlaceInv
  OBVIOUS
<1>1. TypeInv
  BY InitType
<1>2. \A n \in Nets : thread[n].batch = << >> /\ thread[n].at = "unborn"
  BY DEF Init
<1>3. \A n \in Nets : ~FromTcp(thread[n]) /\ Hand(thread[n]) = {}
  BY <1>2, EmptyRange DEF Hand, FromTcp, Taken
<1>4. \A c \in Conns : stream[c] = << >> /\ datagrams[c] = {}
  BY DEF Init
<1>5. Increasing(<< >>)
  BY DEF Increasing
<1>6. Ordered
  BY <1>2, <1>3, <1>4, <1>5, EmptyRange DEF Ordered, Init
<1>7. OnePlace
  BY <1>3, <1>4, EmptyRange DEF OnePlace, Init
<1>8. QED
  BY <1>1, <1>6, <1>7 DEF PlaceInv

LEMMA NextPlace == PlaceInv /\ [Next]_vars => PlaceInv'
<1> SUFFICES ASSUME PlaceInv, [Next]_vars PROVE PlaceInv'
  OBVIOUS
<1>1. TypeInv /\ Ordered /\ OnePlace /\ TypeInv' /\ freed \subseteq pumped
  BY NextType DEF PlaceInv, OnePlace
<1>2. ASSUME Still, UNCHANGED freed PROVE Ordered' /\ OnePlace'
  BY <1>1, <1>2, StillStep
<1>3. ASSUME UNCHANGED vars PROVE Ordered' /\ OnePlace'
  BY <1>2, <1>3 DEF vars, arrived, broker, Still
<1>4. ASSUME NEW m \in Messages, BrokerDeletes(m) PROVE Ordered' /\ OnePlace'
  <2>1. Still /\ freed' \subseteq pumped
    BY <1>1, <1>4 DEF BrokerDeletes, Still, arrived
  <2>2. QED
    BY <1>1, <2>1, StillStep
<1>5. ASSUME Program PROVE Ordered' /\ OnePlace'
  BY <1>1, <1>2, <1>5, ProgramStill
<1>6. ASSUME NEW n \in Nets, Run(n) PROVE Ordered' /\ OnePlace'
  BY <1>1, <1>2, <1>6, RunStill, ReadPlace, ParsePlace, PumpPlace, UdpPlace
<1>7. Ordered' /\ OnePlace'
  BY <1>3, <1>4, <1>5, <1>6, RemotePlace DEF Next, Over
<1>8. QED
  BY <1>1, <1>7 DEF PlaceInv

LEMMA PlaceIsAlive == PlaceInv => CalledAlive
<1> SUFFICES ASSUME PlaceInv, NEW n \in Nets, thread[n].at = "call", thread[n].via = "tcp"
             PROVE  thread[n].msg \notin freed
  BY DEF CalledAlive
<1>1. thread[n].msg \in Hand(thread[n])
  BY DEF Hand, FromTcp, Taken
<1>2. QED
  BY <1>1 DEF PlaceInv, OnePlace

\* With any number of network threads, over any number of connections: no
\* listener is called with a message of the TCP socket that a broker deleted.
THEOREM ListenersGetLiveMessages == Spec => []CalledAlive
<1>1. QED
  BY InitPlace, NextPlace, PlaceIsAlive, PTL DEF Spec

-----------------------------------------------------------------------------
(* A registered listener gets every further message. *)

Calling(r) == r.at = "call" /\ r.via = "tcp"

\* What is delivered, to whom, and what was delivered stays as it was.
SameDelivery ==
    /\ UNCHANGED <<listeners, since, got, handled>>
    /\ \A n \in Nets : Calling(thread'[n]) => /\ Calling(thread[n])
                                              /\ thread'[n].msg = thread[n].msg
                                              /\ thread'[n].wait = thread[n].wait

LEMMA SameDeliveryStep ==
    ASSUME Delivering, FurtherMessages, SameDelivery
    PROVE  Delivering' /\ FurtherMessages'
<1>1. FurtherMessages'
  BY DEF SameDelivery, FurtherMessages, Registered
<1>2. Delivering'
  BY DEF SameDelivery, Delivering, Registered, Calling
<1>3. QED
  BY <1>1, <1>2

\* The other steps of the program, and of its threads.
LEMMA ProgramSameDelivery ==
    ASSUME TypeInv, Program, \A l \in Listeners : ~Register(l) /\ ~Unregister(l)
    PROVE  SameDelivery
<1> USE DEF members, history
<1>1. UNCHANGED <<listeners, since, got, handled>>
  BY DEF Program, Connect, Sockets, Start, Listen, SendMessage, Disconnect, DisconnectNothing,
         Destroy, CloseAll
<1>2. UNCHANGED thread \/ NewThread \/ NoThread
  BY DEF Program, Connect, Sockets, Start, Listen, SendMessage, Disconnect, DisconnectNothing,
         Destroy, CloseAll
<1>3. CASE UNCHANGED thread
  BY <1>1, <1>3 DEF SameDelivery
<1>4. ASSUME NEW n \in Nets, Only(n), thread'[n].at = "enter" PROVE SameDelivery
  BY <1>1, <1>4 DEF SameDelivery, Only, Calling
<1>5. QED
  BY <1>2, <1>3, <1>4, NewThreadIs DEF TypeInv

LEMMA RunSameDelivery ==
    ASSUME TypeInv, NEW n \in Nets, Run(n), ~Copy(n), ~Accept(n), ~Refuse(n), ~Pump(n)
    PROVE  SameDelivery
<1> USE DEF members, history, At
<1>1. TypeOK
  BY DEF TypeInv
<1>2. UNCHANGED <<listeners, since, got, handled>>
  BY DEF Run, Enter, While, Select, Read, Parse, Udp, AskFreed, UseFreedNetwork
<1>3. CASE UNCHANGED thread
  BY <1>2, <1>3 DEF SameDelivery
<1>4. ASSUME Only(n), thread'[n].at # "call" PROVE SameDelivery
  BY <1>2, <1>4 DEF SameDelivery, Only, Calling
<1>5. CASE Enter(n)
  BY <1>1, <1>3, <1>4, <1>5, GotoIs DEF Enter
<1>6. CASE While(n)
  BY <1>1, <1>4, <1>6, GotoIs DEF While
<1>7. CASE Select(n)
  <2>1. Only(n) /\ thread'[n].at \in {"while", "read"}
    BY <1>1, <1>7, SelectIs
  <2>2. QED
    BY <1>4, <2>1
<1>8. CASE Read(n)
  <2>1. Only(n) /\ thread'[n].at \in {"udp", "parse"}
    BY <1>8, ReadIs DEF ReadSome
  <2>2. QED
    BY <1>4, <2>1
<1>9. CASE Parse(n)
  BY <1>1, <1>3, <1>4, <1>9, ParseIs
<1>10. CASE Udp(n)
  <2>1. Only(n) /\ thread'[n].at \in {"while", "copy"}
    BY <1>10, UdpIs
  <2>2. QED
    BY <1>4, <2>1
<1>11. CASE AskFreed(n) \/ UseFreedNetwork(n)
  BY <1>3, <1>11 DEF AskFreed, UseFreedNetwork
<1>12. QED
  BY <1>5, <1>6, <1>7, <1>8, <1>9, <1>10, <1>11 DEF Run

LEMMA CopyFurther ==
    ASSUME FurtherInv, NEW n \in Nets, Copy(n)
    PROVE  Delivering' /\ FurtherMessages'
<1>1. /\ Only(n) /\ thread'[n].wait = listeners
      /\ UNCHANGED <<listeners, since, got, handled>>
  BY CopyIs DEF FurtherInv, TypeInv, Copy, members, history
<1>2. FurtherMessages'
  BY <1>1 DEF FurtherInv, FurtherMessages, Registered
<1>3. Delivering'
  BY <1>1 DEF FurtherInv, Delivering, Registered, Only
<1>4. QED
  BY <1>2, <1>3

\* Accepting adds to what listeners have accepted; refusing loses no listener.
LEMMA AskFurther ==
    ASSUME FurtherInv, NEW n \in Nets, Accept(n) \/ Refuse(n)
    PROVE  Delivering' /\ FurtherMessages'
<1> DEFINE w == thread[n].wait
           m == thread[n].msg
<1>1. TypeOK
  BY DEF FurtherInv, TypeInv
<1>2. /\ Only(n) /\ Keeps(n) /\ thread[n].at = "call" /\ w # << >> /\ w \in Seq(Listeners)
      /\ UNCHANGED <<listeners, since, handled>>
  BY <1>1, AskIs DEF Accept, Refuse, members, history
<1>3. Head(w) \in Listeners /\ Tail(w) \in Seq(Listeners) /\ Range(w) = {Head(w)} \cup Range(Tail(w))
  BY <1>2, HeadTailRange
<1>4. ASSUME NEW l \in Listeners
      PROVE  /\ Range(got[l]) \subseteq Range(got'[l])
             /\ Accept(n) /\ thread[n].via = "tcp" /\ l = Head(w) => m \in Range(got'[l])
  <2>1. got[l] \in Seq(Messages)
    BY <1>1 DEF TypeOK
  <2>2. CASE got'[l] = got[l] /\ ~(Accept(n) /\ thread[n].via = "tcp" /\ l = Head(w))
    BY <2>2
  <2>3. CASE got'[l] = Append(got[l], m)
    <3>1. m \in Messages
      BY <1>2, TakenMessage DEF FurtherInv, Taken
    <3>2. Range(got'[l]) = Range(got[l]) \cup {m}
      BY <2>1, <2>3, <3>1, Appended
    <3>3. QED
      BY <3>2
  <2>4. QED
    BY <1>1, <1>3, <2>2, <2>3 DEF Accept, Refuse, history, TypeOK
<1>5. FurtherMessages'
  <2>1. Registered \subseteq Listeners
    BY <1>1 DEF TypeOK, Registered, Range
  <2>2. QED
    BY <1>2, <1>4, <2>1 DEF FurtherInv, FurtherMessages, Registered
<1>6. ASSUME NEW l \in Registered, thread[n].via = "tcp", m > since[l]
      PROVE  l \in Range(thread'[n].wait) \/ m \in Range(got'[l])
  <2>1. l \in Listeners
    BY <1>1 DEF TypeOK, Registered, Range
  <2>2. l \in Range(w) \/ m \in Range(got[l])
    BY <1>2, <1>6 DEF FurtherInv, Delivering
  <2>3. CASE m \in Range(got[l])
    BY <1>4, <2>1, <2>3
  <2>4. CASE l \in Range(w) /\ Accept(n)
    <3>1. thread'[n].wait = Tail(w)
      BY <1>1, <2>4, AskIs
    <3>2. QED
      BY <1>3, <1>4, <1>6, <2>1, <2>4, <3>1
  <2>5. CASE l \in Range(w) /\ Refuse(n)
    <3>1. thread'[n].wait = Append(Tail(w), Head(w))
      BY <1>1, <2>5, AskIs
    <3>2. \A s \in Seq(Listeners), x \in Listeners : Range(Append(s, x)) = Range(s) \cup {x}
      BY Appended
    <3>3. QED
      BY <1>3, <2>5, <3>1, <3>2
  <2>6. QED
    BY <2>2, <2>3, <2>4, <2>5
<1>7. Delivering'
  <2>1. ASSUME NEW k \in Nets, thread'[k].at = "call", thread'[k].via = "tcp",
               NEW l \in Registered, thread'[k].msg > since[l]
        PROVE  l \in Range(thread'[k].wait) \/ thread'[k].msg \in Range(got'[l])
    <3>1. l \in Listeners
      BY <1>1 DEF TypeOK, Registered, Range
    <3>2. CASE k = n
      BY <1>2, <1>6, <2>1, <3>2 DEF Keeps
    <3>3. CASE k # n
      BY <1>2, <1>4, <2>1, <3>1, <3>3 DEF Only, FurtherInv, Delivering
    <3>4. QED
      BY <3>2, <3>3
  <2>2. QED
    BY <1>2, <2>1 DEF Delivering, Registered
<1>8. QED
  BY <1>5, <1>7

LEMMA PumpFurther ==
    ASSUME FurtherInv, NEW n \in Nets, Pump(n)
    PROVE  Delivering' /\ FurtherMessages'
<1>1. /\ Only(n) /\ thread[n].at = "call" /\ thread[n].wait = << >> /\ thread'[n].at # "call"
      /\ UNCHANGED <<listeners, since, got>>
      /\ handled' = handled \cup IF thread[n].via = "tcp" THEN {thread[n].msg} ELSE {}
  BY PumpIs DEF FurtherInv, TypeInv, Pump, members
<1>2. Delivering'
  BY <1>1 DEF FurtherInv, Delivering, Registered, Only
<1>3. ASSUME thread[n].via = "tcp", NEW l \in Registered, thread[n].msg > since[l]
      PROVE  thread[n].msg \in Range(got[l])
  BY <1>1, <1>3, EmptyRange DEF FurtherInv, Delivering
<1>4. FurtherMessages'
  BY <1>1, <1>3 DEF FurtherInv, FurtherMessages, Registered
<1>5. QED
  BY <1>2, <1>4

LEMMA RegisterFurther ==
    ASSUME FurtherInv, NEW l \in Listeners, Register(l)
    PROVE  Delivering' /\ FurtherMessages'
<1>1. TypeInv /\ UNCHANGED <<thread, got, handled>> /\ l \notin Registered
  BY DEF FurtherInv, Register, ChangeListeners
<1>2. Registered' \subseteq Registered \cup {l}
  <2>1. listeners \in Seq(Listeners)
    BY <1>1 DEF TypeInv, TypeOK
  <2>2. Range(Append(listeners, l)) = Range(listeners) \cup {l}
    BY <2>1, Appended
  <2>3. listeners' = listeners \/ listeners' = Append(listeners, l)
    BY DEF Register, ChangeListeners
  <2>4. QED
    BY <2>2, <2>3 DEF Registered
<1>3. /\ \A k \in Listeners \ {l} : since'[k] = since[k]
      /\ \A m \in Begun : m <= since'[l] /\ ~(m > since'[l])
  <2>1. since'[l] \in 0 .. MaxSaid /\ \A m \in Begun : m <= since'[l]
    BY <1>1, SinceIs
  <2>2. \A m \in Begun : m \in Nat
    BY <1>1, BegunMax, MessagesAreNat
  <2>3. QED
    BY <1>1, <2>1, <2>2, SinceIs
<1>4. \A k \in Registered : k \in Listeners \ {l}
  BY <1>1 DEF TypeInv, TypeOK, Registered, Range
<1>5. FurtherMessages'
  <2>1. \A m \in handled : ~(m > since'[l])
    BY <1>3 DEF Begun
  <2>2. QED
    BY <1>1, <1>2, <1>3, <1>4, <2>1 DEF FurtherInv, FurtherMessages
<1>6. Delivering'
  <2>1. \A n \in Nets : thread[n].at = "call" /\ thread[n].via = "tcp" =>
            ~(thread[n].msg > since'[l])
    BY <1>3 DEF Begun
  <2>2. QED
    BY <1>1, <1>2, <1>3, <1>4, <2>1 DEF FurtherInv, Delivering
<1>7. QED
  BY <1>5, <1>6

LEMMA UnregisterFurther ==
    ASSUME FurtherInv, NEW l \in Listeners, Unregister(l)
    PROVE  Delivering' /\ FurtherMessages'
<1>1. TypeOK /\ UNCHANGED <<thread, got, handled, since>>
  BY DEF FurtherInv, TypeInv, Unregister, ChangeListeners
<1>2. Registered' \subseteq Registered
  <2>1. listeners \in Seq(Listeners)
    BY <1>1 DEF TypeOK
  <2>2. \A i \in DOMAIN listeners : Range(RemoveAt(listeners, i)) \subseteq Range(listeners)
    BY <2>1, ErasedRange
  <2>3. QED
    BY <2>2 DEF Unregister, ChangeListeners, Registered
<1>3. QED
  BY <1>1, <1>2 DEF FurtherInv, FurtherMessages, Delivering

LEMMA NextFurther == FurtherInv /\ [Next]_vars => FurtherInv'
<1> SUFFICES ASSUME FurtherInv, [Next]_vars PROVE FurtherInv'
  OBVIOUS
<1>1. TypeInv /\ Delivering /\ FurtherMessages /\ TypeInv'
  BY NextType DEF FurtherInv
<1>2. ASSUME UNCHANGED vars PROVE SameDelivery
  BY <1>2 DEF vars, members, history, SameDelivery
<1>3. ASSUME Remote \/ \E m \in Messages : BrokerDeletes(m) PROVE SameDelivery
  BY <1>3 DEF Remote, BrokerDeletes, members, history, SameDelivery
<1>4. ASSUME Program PROVE Delivering' /\ FurtherMessages'
  BY <1>1, <1>4, ProgramSameDelivery, SameDeliveryStep, RegisterFurther, UnregisterFurther
<1>5. ASSUME NEW n \in Nets, Run(n) PROVE Delivering' /\ FurtherMessages'
  BY <1>1, <1>5, RunSameDelivery, SameDeliveryStep, CopyFurther, AskFurther, PumpFurther
<1>6. Delivering' /\ FurtherMessages'
  BY <1>1, <1>2, <1>3, <1>4, <1>5, SameDeliveryStep DEF Next, Over
<1>7. QED
  BY <1>1, <1>6 DEF FurtherInv

LEMMA InitFurther == Init => FurtherInv
<1> SUFFICES ASSUME Init PROVE FurtherInv
  OBVIOUS
<1>1. Delivering
  BY DEF Init, Delivering
<1>2. FurtherMessages
  BY DEF Init, FurtherMessages
<1>3. QED
  BY <1>1, <1>2, InitType DEF FurtherInv

\* With any number of network threads: a registered listener accepts every
\* further message, however listeners refuse, come and go meanwhile.
THEOREM EveryFurtherMessage == Spec => []FurtherMessages
<1>1. FurtherInv => FurtherMessages
  BY DEF FurtherInv
<1>2. QED
  BY <1>1, InitFurther, NextFurther, PTL DEF Spec

-----------------------------------------------------------------------------
(* With one network thread: once, and in order. *)

LEMMA DistinctAppend ==
    ASSUME NEW S, NEW s \in Seq(S), NEW x \in S, Distinct(s), x \notin Range(s)
    PROVE  Distinct(Append(s, x))
<1> DEFINE a == Append(s, x)
<1>1. /\ Len(s) \in Nat /\ DOMAIN s = 1 .. Len(s) /\ DOMAIN a = 1 .. Len(s) + 1
      /\ a[Len(s) + 1] = x /\ \A i \in 1 .. Len(s) : a[i] = s[i]
  OBVIOUS
<1> HIDE DEF a
<1>2. \A i \in DOMAIN s : s[i] # x
  BY DEF Range
<1>3. \A i \in DOMAIN a : i \in DOMAIN s \/ i = Len(s) + 1
  BY <1>1
<1>4. Distinct(a)
  BY <1>1, <1>2, <1>3 DEF Distinct
<1>5. QED
  BY <1>4 DEF a

LEMMA DistinctTail ==
    ASSUME NEW S, NEW s \in Seq(S), s # << >>, Distinct(s)
    PROVE  /\ Distinct(Tail(s)) /\ Head(s) \notin Range(Tail(s))
           /\ Distinct(Append(Tail(s), Head(s)))
<1> DEFINE t == Tail(s)
           r == Append(t, Head(s))
<1>1. /\ Len(s) \in Nat \ {0} /\ DOMAIN s = 1 .. Len(s) /\ Head(s) = s[1] /\ Head(s) \in S
      /\ t \in Seq(S) /\ Len(t) = Len(s) - 1 /\ DOMAIN t = 1 .. Len(s) - 1
      /\ \A i \in 1 .. Len(s) - 1 : t[i] = s[i + 1]
  OBVIOUS
<1> HIDE DEF t
<1>2. Distinct(t)
  <2>1. ASSUME NEW i \in DOMAIN t, NEW j \in DOMAIN t, t[i] = t[j] PROVE i = j
    <3>1. i + 1 \in DOMAIN s /\ j + 1 \in DOMAIN s /\ s[i + 1] = s[j + 1]
      BY <1>1, <2>1
    <3>2. i + 1 = j + 1
      BY <3>1 DEF Distinct
    <3>3. QED
      BY <1>1, <3>2
  <2>2. QED
    BY <2>1 DEF Distinct
<1>3. \A i \in DOMAIN t : t[i] # Head(s)
  <2>1. ASSUME NEW i \in DOMAIN t PROVE t[i] # Head(s)
    <3>1. i + 1 \in DOMAIN s /\ 1 \in DOMAIN s /\ i + 1 # 1
      BY <1>1
    <3>2. s[i + 1] # s[1]
      BY <3>1 DEF Distinct
    <3>3. QED
      BY <1>1, <3>2
  <2>2. QED
    BY <2>1
<1>4. Head(s) \notin Range(t)
  BY <1>3 DEF Range
<1>5. Distinct(r)
  BY <1>1, <1>2, <1>4, DistinctAppend
<1>6. QED
  BY <1>2, <1>4, <1>5 DEF t

\* Who a listener or a thread is, and what it holds, is no more than before.
QuietOrder ==
    /\ UNCHANGED <<got, stream, conn>> /\ said \in Nat /\ said' \in Nat /\ said <= said'
    /\ \A n \in Nets :
          /\ Hand(thread'[n]) \subseteq Hand(thread[n])
          /\ thread'[n].batch = thread[n].batch
          /\ FromTcp(thread'[n]) =>
                /\ FromTcp(thread[n]) /\ thread'[n].msg = thread[n].msg
                /\ thread'[n].at = "copy" => thread[n].at = "copy"
                /\ thread[n].at # "copy" => Range(thread'[n].wait) \subseteq Range(thread[n].wait)

LEMMA QuietOrderStep ==
    ASSUME TypeOK, HandFirst, AcceptedBefore, OnceInOrder, QuietOrder
    PROVE  HandFirst' /\ AcceptedBefore' /\ OnceInOrder'
<1>1. HandFirst'
  BY DEF QuietOrder, HandFirst
<1>2. OnceInOrder'
  BY DEF QuietOrder, OnceInOrder
<1>3. ASSUME NEW l \in Listeners, NEW m \in Range(got[l]) PROVE m <= said'
  <2>1. got[l] \in Seq(Messages)
    BY DEF TypeOK
  <2>2. Range(got[l]) \subseteq Messages /\ m \in Nat
    <3>1. Range(got[l]) \subseteq Messages
      BY <2>1 DEF Range
    <3>2. QED
      BY <3>1, MessagesAreNat
  <2>3. m <= said
    BY <1>3 DEF AcceptedBefore
  <2>4. QED
    BY <2>2, <2>3 DEF QuietOrder
<1>4. AcceptedBefore'
  BY <1>3 DEF QuietOrder, AcceptedBefore
<1>5. QED
  BY <1>1, <1>2, <1>4

\* Neither the list nor the sockets that are not created yet are touched.
QuietLists ==
    /\ UNCHANGED <<listeners, conn>>
    /\ \A n \in Nets : thread'[n].wait = thread[n].wait
    /\ \A c \in Conns : c > conn => /\ stream[c] = << >> => stream'[c] = << >>
                                    /\ sock[c] = {} => sock'[c] = {}

LEMMA QuietListsStep ==
    ASSUME Lists, QuietLists
    PROVE  Lists'
BY DEF QuietLists, Lists

LEMMA ProgramQuiet ==
    ASSUME TypeInv, Program, ~Sockets
    PROVE  QuietOrder
<1>1. UNCHANGED <<got, stream, conn, said>>
  BY DEF Program, Connect, Start, Listen, SendMessage, Disconnect, DisconnectNothing,
         Destroy, CloseAll, Register, Unregister, ChangeListeners, arrived, history, members
<1>2. said \in Nat
  BY BoundsAssumption DEF TypeInv, TypeOK
<1>3. UNCHANGED thread \/ NewThread \/ NoThread
  BY DEF Program, Connect, Start, Listen, SendMessage, Disconnect, DisconnectNothing,
         Destroy, CloseAll, Register, Unregister, ChangeListeners
<1>4. CASE UNCHANGED thread
  BY <1>1, <1>2, <1>4 DEF QuietOrder
<1>5. ASSUME NEW n \in Nets, Only(n), Keeps(n), thread'[n].at = "enter" PROVE QuietOrder
  <2>1. Hand(thread'[n]) \subseteq Hand(thread[n])
    BY <1>5 DEF Hand, Keeps, FromTcp, Taken
  <2>2. QED
    BY <1>1, <1>2, <1>5, <2>1 DEF QuietOrder, Only, Keeps, FromTcp, Taken
<1>6. QED
  BY <1>3, <1>4, <1>5, NewThreadIs DEF TypeInv

LEMMA ProgramLists ==
    ASSUME TypeInv, Program, Lists
    PROVE  Lists'
<1> USE DEF members, arrived
<1>1. TypeOK
  BY DEF TypeInv
<1>2. conn \in 0 .. MaxConnects /\ \A c \in Conns : c \in Nat
  BY <1>1 DEF TypeOK, Conns
<1>3. ASSUME NewThread \/ NoThread PROVE \A n \in Nets : thread'[n].wait = thread[n].wait
  BY <1>1, <1>3, NewThreadIs DEF Only
<1>4. ASSUME Write PROVE \A c \in Conns : sock[c] = {} => sock'[c] = {}
  BY <1>1, <1>4 DEF Write, TypeOK
<1>5. CASE Connect \/ Listen \/ DisconnectNothing
  <2>1. QuietLists
    BY <1>3, <1>5 DEF QuietLists, Connect, Listen, DisconnectNothing
  <2>2. QED
    BY <2>1, QuietListsStep
<1>6. CASE Sockets
  <2>1. /\ conn' = conn + 1 /\ UNCHANGED <<listeners, thread, stream>>
        /\ sock' = [sock EXCEPT ![conn'] = sock'[conn']]
    BY <1>1, <1>6 DEF Sockets, TypeOK
  <2>2. \A c \in Conns : c > conn + 1 => c > conn /\ c # conn + 1
    BY <1>2
  <2>3. \A c \in Conns : c > conn' => sock'[c] = sock[c]
    BY <1>1, <2>1, <2>2 DEF TypeOK
  <2>4. QED
    BY <2>1, <2>2, <2>3 DEF Lists
<1>7. CASE Start \/ SendMessage
  <2>1. QuietLists
    BY <1>3, <1>4, <1>7 DEF QuietLists, Start, SendMessage
  <2>2. QED
    BY <2>1, QuietListsStep
<1>8. CASE Disconnect \/ Destroy
  <2>1. \A c \in Conns : sock[c] = {} => sock'[c] = {}
    BY <1>1, <1>8 DEF Disconnect, Destroy, CloseAll, TypeOK
  <2>2. QuietLists
    BY <1>8, <2>1 DEF QuietLists, Disconnect, Destroy, CloseAll
  <2>3. QED
    BY <2>2, QuietListsStep
<1>9. ASSUME NEW new, Distinct(new), ChangeListeners(new) PROVE Lists'
  <2>1. /\ UNCHANGED <<thread, conn, sock, stream>>
        /\ listeners' = new \/ listeners' = listeners
    BY <1>9 DEF ChangeListeners
  <2>2. QED
    BY <1>9, <2>1 DEF Lists
<1>10. ASSUME NEW l \in Listeners, Register(l) PROVE Lists'
  <2>1. listeners \in Seq(Listeners) /\ Distinct(listeners) /\ l \notin Range(listeners)
    BY <1>1, <1>10 DEF TypeOK, Lists, Register, Registered
  <2>2. Distinct(Append(listeners, l))
    BY <2>1, DistinctAppend
  <2>3. QED
    BY <1>9, <1>10, <2>2 DEF Register
<1>11. ASSUME NEW l \in Listeners, Unregister(l) PROVE Lists'
  <2>1. listeners \in Seq(Listeners) /\ Distinct(listeners)
    BY <1>1 DEF TypeOK, Lists
  <2>2. \A i \in DOMAIN listeners : Distinct(RemoveAt(listeners, i))
    BY <2>1, ErasedRange
  <2>3. QED
    BY <1>9, <1>11, <2>2 DEF Unregister
<1>12. QED
  BY <1>5, <1>6, <1>7, <1>8, <1>10, <1>11 DEF Program

LEMMA RunLists ==
    ASSUME TypeInv, NEW n \in Nets, Run(n), Lists
    PROVE  Lists'
<1> USE DEF members, arrived, At
<1>1. TypeOK
  BY DEF TypeInv
<1>2. conn \in 0 .. MaxConnects /\ (\A c \in Conns : c \in Nat) /\ \A c \in Conns : c > conn => c # conn
  BY <1>1 DEF TypeOK, Conns
<1>3. UNCHANGED <<listeners, conn>>
  BY DEF Run, Enter, While, Select, Read, Parse, Copy, AskFreed, Accept, Refuse, Pump, Udp,
         UseFreedNetwork
<1>4. /\ \A c \in Conns : c > conn => stream'[c] = stream[c]
      /\ \A c \in Conns : sock[c] = {} => sock'[c] = {}
  <2>1. CASE Read(n)
    <3>1. sock' = sock
      BY <2>1 DEF Read
    <3>2. \A c \in Conns : c > conn => stream'[c] = stream[c]
      BY <1>1, <1>2, <2>1, ReadIs DEF ReadSome, TypeOK
    <3>3. QED
      BY <3>1, <3>2
  <2>2. CASE Parse(n)
    <3>1. stream' = stream
      BY <2>2 DEF Parse
    <3>2. \A c \in Conns : sock[c] = {} => sock'[c] = {}
      BY <1>1, <2>2, ParseIs DEF NoteGoodbye, TypeOK
    <3>3. QED
      BY <3>1, <3>2
  <2>3. CASE ~Read(n) /\ ~Parse(n)
    BY <2>3 DEF Run, Enter, While, Select, Copy, AskFreed, Accept, Refuse, Pump, Udp,
                UseFreedNetwork
  <2>4. QED
    BY <2>1, <2>2, <2>3
<1>5. ASSUME \A k \in Nets : Distinct(thread'[k].wait) PROVE Lists'
  BY <1>3, <1>4, <1>5 DEF Lists
<1>6. CASE UNCHANGED thread
  BY <1>5, <1>6 DEF Lists
<1>7. ASSUME Only(n), Distinct(thread'[n].wait) PROVE Lists'
  BY <1>5, <1>7 DEF Lists, Only
<1>8. ASSUME Only(n), thread'[n].wait = thread[n].wait PROVE Lists'
  BY <1>7, <1>8 DEF Lists
<1>9. CASE Enter(n) \/ While(n)
  BY <1>1, <1>6, <1>8, <1>9, GotoIs DEF Enter, While
<1>10. CASE Select(n) \/ Read(n) \/ Parse(n) \/ Udp(n) \/ Pump(n)
  BY <1>1, <1>6, <1>8, <1>10, SelectIs, ReadIs, ParseIs, UdpIs, PumpIs
<1>11. CASE Copy(n)
  BY <1>1, <1>7, <1>11, CopyIs DEF Lists
<1>12. CASE Accept(n) \/ Refuse(n)
  <2>1. /\ Only(n) /\ thread[n].wait # << >> /\ thread[n].wait \in Seq(Listeners)
        /\ Distinct(thread[n].wait)
    BY <1>1, <1>12, AskIs DEF Lists
  <2>2. /\ Distinct(Tail(thread[n].wait))
        /\ Distinct(Append(Tail(thread[n].wait), Head(thread[n].wait)))
    BY <2>1, DistinctTail
  <2>3. QED
    BY <1>1, <1>7, <1>12, <2>1, <2>2, AskIs
<1>13. CASE AskFreed(n) \/ UseFreedNetwork(n)
  BY <1>6, <1>13 DEF AskFreed, UseFreedNetwork
<1>14. QED
  BY <1>9, <1>10, <1>11, <1>12, <1>13 DEF Run

LEMMA RunQuiet ==
    ASSUME TypeInv, NEW n \in Nets, Run(n), ~Read(n), ~Parse(n), ~Accept(n)
    PROVE  QuietOrder
<1> USE DEF members, arrived, history, At
<1>1. TypeOK /\ said \in Nat
  BY BoundsAssumption DEF TypeInv, TypeOK
<1>2. UNCHANGED <<got, stream, conn, said>>
  BY DEF Run, Enter, While, Select, Copy, AskFreed, Refuse, Pump, Udp, UseFreedNetwork
<1>3. CASE UNCHANGED thread
  BY <1>1, <1>2, <1>3 DEF QuietOrder
<1>4. ASSUME Only(n), thread'[n].batch = thread[n].batch, ~FromTcp(thread'[n]) PROVE QuietOrder
  <2>1. Hand(thread'[n]) \subseteq Hand(thread[n])
    BY <1>4 DEF Hand
  <2>2. QED
    BY <1>1, <1>2, <1>4, <2>1 DEF QuietOrder, Only
<1>5. CASE Enter(n)
  BY <1>1, <1>3, <1>4, <1>5, GotoIs DEF Enter, Keeps, FromTcp, Taken
<1>6. CASE While(n)
  BY <1>1, <1>4, <1>6, GotoIs DEF While, Keeps, FromTcp, Taken
<1>7. CASE Select(n)
  <2>1. Only(n) /\ Keeps(n) /\ thread'[n].at \in {"while", "read"}
    BY <1>1, <1>7, SelectIs
  <2>2. ~FromTcp(thread'[n])
    BY <2>1 DEF FromTcp, Taken
  <2>3. QED
    BY <1>4, <2>1, <2>2 DEF Keeps
<1>8. ASSUME Only(n), Keeps(n), thread'[n].at = "call",
             thread[n].at = "copy" \/ Range(thread'[n].wait) \subseteq Range(thread[n].wait),
             Taken(thread[n])
      PROVE  QuietOrder
  <2>1. FromTcp(thread'[n]) => FromTcp(thread[n])
    BY <1>8 DEF FromTcp, Keeps
  <2>2. Hand(thread'[n]) \subseteq Hand(thread[n])
    BY <1>8, <2>1 DEF Hand, Keeps
  <2>3. QED
    BY <1>1, <1>2, <1>8, <2>1, <2>2 DEF QuietOrder, Only, Keeps
<1>9. CASE Copy(n)
  BY <1>1, <1>8, <1>9, CopyIs DEF Copy, Taken
<1>10. CASE Refuse(n)
  <2> DEFINE w == thread[n].wait
  <2>1. /\ Only(n) /\ Keeps(n) /\ thread[n].at = "call" /\ thread'[n].at = "call"
        /\ w # << >> /\ w \in Seq(Listeners) /\ thread'[n].wait = Append(Tail(w), Head(w))
    BY <1>1, <1>10, AskIs
  <2>2. Head(w) \in Listeners /\ Tail(w) \in Seq(Listeners) /\ Range(w) = {Head(w)} \cup Range(Tail(w))
    BY <2>1, HeadTailRange
  <2>3. \A s \in Seq(Listeners), x \in Listeners : Range(Append(s, x)) = Range(s) \cup {x}
    BY Appended
  <2>4. Range(thread'[n].wait) = Range(w)
    <3>1. Range(Append(Tail(w), Head(w))) = Range(Tail(w)) \cup {Head(w)}
      BY <2>2, <2>3
    <3>2. QED
      BY <2>1, <2>2, <3>1
  <2>5. QED
    BY <1>8, <2>1, <2>4 DEF Taken
<1>11. CASE Pump(n)
  <2>1. Only(n) /\ Keeps(n) /\ thread'[n].at \in {"parse", "while"}
    BY <1>1, <1>11, PumpIs
  <2>2. ~FromTcp(thread'[n])
    BY <2>1 DEF FromTcp, Taken
  <2>3. QED
    BY <1>4, <2>1, <2>2 DEF Keeps
<1>12. CASE Udp(n)
  <2>1. /\ Only(n) /\ thread'[n].batch = thread[n].batch
        /\ thread'[n].at = "while" \/ thread'[n].via = "udp"
    BY <1>12, UdpIs
  <2>2. ~FromTcp(thread'[n])
    BY <2>1 DEF FromTcp, Taken
  <2>3. QED
    BY <1>4, <2>1, <2>2
<1>13. CASE AskFreed(n) \/ UseFreedNetwork(n)
  BY <1>3, <1>13 DEF AskFreed, UseFreedNetwork
<1>14. QED
  BY <1>5, <1>6, <1>7, <1>9, <1>10, <1>11, <1>12, <1>13 DEF Run

LEMMA AcceptedAreNat ==
    ASSUME TypeOK, NEW l \in Listeners
    PROVE  got[l] \in Seq(Messages) /\ Range(got[l]) \subseteq Nat
<1>1. got[l] \in Seq(Messages)
  BY DEF TypeOK
<1>2. Range(got[l]) \subseteq Messages
  BY <1>1 DEF Range
<1>3. QED
  BY <1>1, <1>2, MessagesAreNat

LEMMA SocketsOrder ==
    ASSUME TypeInv, Lists, HandFirst, AcceptedBefore, OnceInOrder, Sockets
    PROVE  HandFirst' /\ AcceptedBefore' /\ OnceInOrder'
<1>1. conn < MaxConnects /\ conn' = conn + 1 /\ UNCHANGED <<got, stream, said, thread>>
  BY DEF TypeInv, Control, Sockets, history, arrived
<1>2. conn' \in Conns /\ conn' > conn
  BY <1>1, BoundsAssumption DEF TypeInv, TypeOK, Conns
<1>3. Range(stream'[conn']) = {}
  BY <1>1, <1>2, EmptyRange DEF Lists
<1>4. QED
  BY <1>1, <1>3 DEF HandFirst, AcceptedBefore, OnceInOrder

LEMMA ReadOrder ==
    ASSUME OneThread, OrderInv, NEW n \in Nets, Read(n)
    PROVE  HandFirst' /\ AcceptedBefore' /\ OnceInOrder'
<1>1. TypeInv /\ TypeOK /\ Ordered
  BY DEF OrderInv, PlaceInv, TypeInv
<1>2. UNCHANGED <<got, conn, said>> /\ Only(n) /\ thread[n].at = "read" /\ conn # 0
  BY <1>1, ReadIs DEF Read, history, members, At, TypeInv, Control
<1>3. \A k \in Nets : k = n
  BY DEF OneThread
<1>4. OnceInOrder'
  BY <1>2 DEF OrderInv, OnceInOrder
<1>5. CASE thread'[n].at = "udp" /\ Keeps(n) /\ UNCHANGED stream
  <2>1. ~FromTcp(thread'[n]) /\ Hand(thread'[n]) \subseteq Hand(thread[n])
    BY <1>5 DEF FromTcp, Taken, Hand, Keeps
  <2>2. said \in Nat
    BY <1>1, BoundsAssumption DEF TypeOK
  <2>3. QuietOrder
    BY <1>2, <1>3, <1>5, <2>1, <2>2 DEF QuietOrder, Keeps
  <2>4. QED
    BY <1>1, <2>3, QuietOrderStep DEF OrderInv
<1>6. ASSUME NEW k \in 1 .. Len(stream[conn]), ReadSome(n, k)
      PROVE  HandFirst' /\ AcceptedBefore'
  <2> DEFINE s == stream[conn]
             a == SubSeq(s, 1, k)
             b == SubSeq(s, k + 1, Len(s))
  <2>1. conn \in Conns /\ s \in Seq(Messages) /\ Increasing(s)
    BY <1>1, <1>6 DEF TypeOK, Ordered, ReadSome
  <2>2. /\ Range(a) \subseteq Range(s) /\ Range(b) \subseteq Range(s)
        /\ \A m \in Range(a), j \in Range(b) : m < j
    BY <2>1, Divided
  <2>3. thread'[n].batch = a /\ ~FromTcp(thread'[n]) /\ stream'[conn] = b
    BY <1>1, <1>6, <2>1 DEF ReadSome, FromTcp, Taken, TypeOK
  <2> HIDE DEF a, b
  <2>4. Hand(thread'[n]) = Range(a)
    BY <2>3 DEF Hand
  <2>5. HandFirst'
    BY <1>2, <1>3, <2>2, <2>3, <2>4 DEF HandFirst
  <2>6. AcceptedBefore'
    BY <1>2, <1>3, <2>2, <2>3 DEF OrderInv, AcceptedBefore
  <2>7. QED
    BY <2>5, <2>6
<1>7. QED
  BY <1>1, <1>4, <1>5, <1>6, ReadIs

LEMMA ParseOrder ==
    ASSUME OneThread, OrderInv, NEW n \in Nets, Parse(n)
    PROVE  HandFirst' /\ AcceptedBefore' /\ OnceInOrder'
<1>1. TypeInv /\ TypeOK /\ Ordered /\ said \in Nat
  BY BoundsAssumption DEF OrderInv, PlaceInv, TypeInv, TypeOK
<1>2. UNCHANGED <<got, conn, said, stream>> /\ thread[n].at = "parse"
  BY DEF Parse, history, arrived, At
<1>3. \A k \in Nets : k = n
  BY DEF OneThread
<1>4. CASE UNCHANGED thread
  <2>1. QuietOrder
    BY <1>1, <1>2, <1>4 DEF QuietOrder
  <2>2. QED
    BY <1>1, <2>1, QuietOrderStep DEF OrderInv
<1>5. CASE thread'[n].at = "udp" /\ Keeps(n)
  <2>1. ~FromTcp(thread'[n]) /\ Hand(thread'[n]) \subseteq Hand(thread[n])
    BY <1>5 DEF FromTcp, Taken, Hand, Keeps
  <2>2. QuietOrder
    BY <1>1, <1>2, <1>3, <1>5, <2>1 DEF QuietOrder, Keeps
  <2>3. QED
    BY <1>1, <2>2, QuietOrderStep DEF OrderInv
<1>6. CASE /\ thread[n].batch # << >>
           /\ thread'[n].at = "copy" /\ thread'[n].via = "tcp"
           /\ thread'[n].batch = Tail(thread[n].batch) /\ thread'[n].msg = Head(thread[n].batch)
  <2> DEFINE b == thread[n].batch
  <2>1. b \in Seq(Messages) /\ b # << >>
    BY <1>1, <1>6, HandIs
  <2>2. Range(b) = {Head(b)} \cup Range(Tail(b)) /\ Head(b) \in Messages
    BY <2>1, HeadAndTail
  <2>3. ~FromTcp(thread[n]) /\ FromTcp(thread'[n])
    BY <1>2, <1>6 DEF FromTcp, Taken
  <2>4. Hand(thread'[n]) = Hand(thread[n])
    BY <1>6, <2>2, <2>3 DEF Hand
  <2>5. HandFirst'
    BY <1>2, <1>3, <2>4 DEF OrderInv, HandFirst
  <2>6. \A l \in Listeners : \A m \in Range(got[l]) : m <= Head(b) /\ m # Head(b)
    <3>1. \A l \in Listeners : \A m \in Range(got[l]) : m < Head(b)
      BY <2>2 DEF OrderInv, AcceptedBefore
    <3>2. Head(b) \in Nat /\ \A l \in Listeners : \A m \in Range(got[l]) : m \in Nat
      BY <1>1, <2>2, AcceptedAreNat, MessagesAreNat
    <3>3. QED
      BY <3>1, <3>2
  <2>7. AcceptedBefore'
    BY <1>2, <1>3, <1>6, <2>2, <2>6 DEF OrderInv, AcceptedBefore
  <2>8. OnceInOrder'
    BY <1>2 DEF OrderInv, OnceInOrder
  <2>9. QED
    BY <2>5, <2>7, <2>8
<1>7. QED
  BY <1>1, <1>4, <1>5, <1>6, ParseIs

LEMMA AcceptOrder ==
    ASSUME OneThread, OrderInv, NEW n \in Nets, Accept(n)
    PROVE  HandFirst' /\ AcceptedBefore' /\ OnceInOrder'
<1> DEFINE w == thread[n].wait
           m == thread[n].msg
           h == Head(w)
<1>1. TypeInv /\ TypeOK /\ Ordered /\ said \in Nat /\ said <= said
  BY BoundsAssumption DEF OrderInv, PlaceInv, TypeInv, TypeOK
<1>2. /\ UNCHANGED <<conn, said, stream>> /\ Only(n) /\ Keeps(n)
      /\ thread[n].at = "call" /\ thread'[n].at = "call"
      /\ w # << >> /\ w \in Seq(Listeners) /\ thread'[n].wait = Tail(w)
  BY <1>1, AskIs DEF Accept, members, arrived
<1>3. \A k \in Nets : k = n
  BY DEF OneThread
<1>4. /\ h \in Listeners /\ Range(w) = {h} \cup Range(Tail(w)) /\ h \notin Range(Tail(w))
  <2>1. Distinct(w)
    BY DEF OrderInv, Lists
  <2>2. QED
    BY <1>2, <2>1, HeadTailRange, DistinctTail
<1>5. FromTcp(thread'[n]) <=> FromTcp(thread[n])
  BY <1>2 DEF FromTcp, Taken, Keeps
<1>6. Hand(thread'[n]) = Hand(thread[n])
  BY <1>2, <1>5 DEF Hand, Keeps
<1>7. HandFirst'
  BY <1>2, <1>3, <1>6 DEF OrderInv, HandFirst
<1>8. CASE thread[n].via # "tcp"
  <2>1. got' = got /\ ~FromTcp(thread'[n])
    BY <1>2, <1>8 DEF Accept, FromTcp, Keeps
  <2>2. QuietOrder
    BY <1>1, <1>2, <1>3, <1>6, <2>1 DEF QuietOrder, Keeps
  <2>3. QED
    BY <1>1, <2>2, QuietOrderStep DEF OrderInv
<1>9. CASE thread[n].via = "tcp"
  <2>1. FromTcp(thread[n]) /\ m \in Hand(thread[n]) /\ m \in Messages
    BY <1>1, <1>2, <1>9, TakenMessage DEF FromTcp, Taken, Hand
  <2>2. got \in [Listeners -> Seq(Messages)] /\ got' = [got EXCEPT ![h] = Append(got[h], m)]
    BY <1>1, <1>9 DEF Accept, TypeOK
  <2>3. got'[h] = Append(got[h], m) /\ \A l \in Listeners \ {h} : got'[l] = got[l]
    BY <1>4, <2>2
  <2>4. \A k \in Range(got[h]) : k < m
    <3>1. \A k \in Range(got[h]) : k <= m /\ k # m
      BY <1>4, <2>1 DEF OrderInv, AcceptedBefore
    <3>2. m \in Nat /\ \A k \in Range(got[h]) : k \in Nat
      BY <1>1, <1>4, <2>1, AcceptedAreNat, MessagesAreNat
    <3>3. QED
      BY <3>1, <3>2
  <2>5. \A l \in Listeners : Increasing(got[l])
    BY DEF OrderInv, OnceInOrder, Increasing
  <2>6. got[h] \in Seq(Messages)
    BY <1>4, <2>2
  <2>7. Range(got'[h]) = Range(got[h]) \cup {m} /\ Increasing(got'[h])
    <3>1. Increasing(got[h])
      BY <1>4, <2>5
    <3>2. Range(Append(got[h], m)) = Range(got[h]) \cup {m} /\ Increasing(Append(got[h], m))
      BY <2>1, <2>4, <2>6, <3>1, Appended
    <3>3. QED
      BY <2>3, <3>2
  <2>8. OnceInOrder'
    <3>1. \A l \in Listeners : Increasing(got'[l])
      BY <2>3, <2>5, <2>7
    <3>2. QED
      BY <3>1 DEF OnceInOrder, Increasing
  <2>9. /\ m <= said /\ m <= m
        /\ conn # 0 => \A k \in Range(stream[conn]) : m < k
        /\ \A k \in Range(thread[n].batch) : m < k
    <3>1. m \in 1 .. said
      BY <1>1, <2>1 DEF Ordered
    <3>2. m <= said /\ m <= m
      BY <3>1
    <3>3. QED
      BY <1>1, <2>1, <3>2 DEF Ordered, OrderInv, HandFirst
  <2>10. AcceptedBefore'
    <3>1. ASSUME NEW l \in Listeners, NEW k \in Range(got'[l])
          PROVE  /\ k <= said
                 /\ conn # 0 => \A j \in Range(stream[conn]) : k < j
                 /\ \A j \in Range(thread[n].batch) : k < j
                 /\ k <= m
                 /\ l \in Range(Tail(w)) => k # m
      <4>1. CASE k \in Range(got[l])
        BY <1>4, <2>1, <4>1 DEF OrderInv, AcceptedBefore
      <4>2. CASE l = h /\ k = m
        BY <1>4, <2>9, <4>2
      <4>3. QED
        BY <2>3, <2>7, <3>1, <4>1, <4>2
    <3>2. QED
      BY <1>2, <1>3, <3>1 DEF AcceptedBefore, Keeps
  <2>11. QED
    BY <1>7, <2>8, <2>10
<1>10. QED
  BY <1>8, <1>9

LEMMA RemoteOrder ==
    ASSUME OrderInv, Remote
    PROVE  Lists' /\ HandFirst' /\ AcceptedBefore' /\ OnceInOrder'
<1>1. /\ TypeOK /\ Ordered /\ Lists /\ HandFirst /\ AcceptedBefore /\ OnceInOrder
      /\ said \in Nat /\ conn \in Nat /\ \A c \in Conns : c \in Nat
  BY BoundsAssumption DEF OrderInv, PlaceInv, TypeInv, TypeOK, Conns
<1>2. UNCHANGED <<listeners, conn, sock, thread, got>>
  BY DEF Remote, members, history
<1>3. PICK c \in Conns : (\E goodbye \in BOOLEAN : Say(c, goodbye)) \/ SayUdp(c) \/ Lose(c)
  BY DEF Remote
<1>4. CASE SayUdp(c) \/ Lose(c)
  <2>1. stream' = stream /\ said' \in Nat /\ said <= said'
    BY <1>1, <1>4 DEF SayUdp, Lose
  <2>2. QuietOrder /\ QuietLists
    BY <1>1, <1>2, <2>1 DEF QuietOrder, QuietLists
  <2>3. QED
    BY <1>1, <2>2, QuietOrderStep, QuietListsStep
<1>5. CASE \E goodbye \in BOOLEAN : Say(c, goodbye)
  <2> DEFINE a == Append(stream[c], said + 1)
  <2>1. /\ said' = said + 1 /\ stream' = [stream EXCEPT ![c] = a]
        /\ said < MaxSaid /\ "tcp" \in sock[c]
    BY <1>5 DEF Say
  <2>2. said + 1 \in Messages /\ stream[c] \in Seq(Messages)
    BY <1>1, <2>1, BoundsAssumption DEF Messages, TypeOK
  <2>3. Range(a) = Range(stream[c]) \cup {said + 1}
    BY <2>2, Appended
  <2> HIDE DEF a
  <2>4. stream'[c] = a /\ \A d \in Conns \ {c} : stream'[d] = stream[d]
    BY <1>1, <2>1 DEF TypeOK
  <2>5. ~(c > conn)
    BY <1>1, <2>1 DEF Lists
  <2>6. \A d \in Conns : d > conn' => stream'[d] = << >> /\ sock'[d] = {}
    BY <1>1, <1>2, <2>4, <2>5 DEF Lists
  <2>7. Lists'
    BY <1>1, <1>2, <2>6 DEF Lists
  <2>8. conn # 0 => conn \in Conns
    BY <1>1, BoundsAssumption DEF TypeOK, Conns
  <2>9. \A m \in 1 .. said : m < said + 1
    BY <1>1
  <2>10. \A n \in Nets : Hand(thread[n]) \subseteq 1 .. said
    BY <1>1 DEF Ordered
  <2>11. conn # 0 => Range(stream'[conn]) \subseteq Range(stream[conn]) \cup {said + 1}
    BY <2>3, <2>4, <2>8
  <2>12. HandFirst'
    BY <1>1, <1>2, <2>9, <2>10, <2>11 DEF HandFirst
  <2>13. ASSUME NEW l \in Listeners, NEW m \in Range(got[l]) PROVE m <= said /\ m <= said + 1 /\ m < said + 1
    <3>1. m \in Nat /\ m <= said
      BY <1>1, <2>13, AcceptedAreNat DEF AcceptedBefore
    <3>2. QED
      BY <1>1, <3>1
  <2>14. AcceptedBefore'
    BY <1>1, <1>2, <2>1, <2>11, <2>13 DEF AcceptedBefore
  <2>15. OnceInOrder'
    BY <1>1, <1>2 DEF OnceInOrder
  <2>16. QED
    BY <2>7, <2>12, <2>14, <2>15
<1>6. QED
  BY <1>3, <1>4, <1>5

LEMMA InitOrder == Init => OrderInv
<1> SUFFICES ASSUME Init PROVE OrderInv
  OBVIOUS
<1>1. PlaceInv
  BY InitPlace
<1>2. /\ \A n \in Nets : thread[n].batch = << >> /\ thread[n].at = "unborn" /\ thread[n].wait = << >>
      /\ \A c \in Conns : stream[c] = << >> /\ sock[c] = {}
      /\ \A l \in Listeners : got[l] = << >>
      /\ listeners = << >>
  BY DEF Init
<1>3. \A n \in Nets : Hand(thread[n]) = {}
  BY <1>2, EmptyRange DEF Hand, FromTcp, Taken
<1>4. Distinct(<< >>) /\ Increasing(<< >>)
  BY DEF Distinct, Increasing
<1>5. Lists /\ HandFirst
  BY <1>2, <1>3, <1>4 DEF Lists, HandFirst
<1>6. AcceptedBefore
  BY <1>2, EmptyRange DEF AcceptedBefore
<1>7. OnceInOrder
  BY <1>2, <1>4 DEF OnceInOrder, Increasing
<1>8. QED
  BY <1>1, <1>5, <1>6, <1>7 DEF OrderInv

LEMMA NextOrder == OneThread /\ OrderInv /\ [Next]_vars => OrderInv'
<1> SUFFICES ASSUME OneThread, OrderInv, [Next]_vars PROVE OrderInv'
  OBVIOUS
<1>1. /\ PlaceInv /\ TypeInv /\ TypeOK /\ Lists /\ HandFirst /\ AcceptedBefore /\ OnceInOrder
      /\ said \in Nat
  BY BoundsAssumption DEF OrderInv, PlaceInv, TypeInv, TypeOK
<1>2. ASSUME QuietOrder PROVE HandFirst' /\ AcceptedBefore' /\ OnceInOrder'
  BY <1>1, <1>2, QuietOrderStep
<1>3. ASSUME Program PROVE Lists' /\ HandFirst' /\ AcceptedBefore' /\ OnceInOrder'
  <2>1. Lists'
    BY <1>1, <1>3, ProgramLists
  <2>2. CASE Sockets
    BY <1>1, <2>1, <2>2, SocketsOrder
  <2>3. CASE ~Sockets
    BY <1>1, <1>2, <1>3, <2>1, <2>3, ProgramQuiet
  <2>4. QED
    BY <2>2, <2>3
<1>4. ASSUME NEW n \in Nets, Run(n) PROVE Lists' /\ HandFirst' /\ AcceptedBefore' /\ OnceInOrder'
  <2>1. Lists'
    BY <1>1, <1>4, RunLists
  <2>2. CASE Read(n)
    BY <2>1, <2>2, ReadOrder
  <2>3. CASE Parse(n)
    BY <2>1, <2>3, ParseOrder
  <2>4. CASE Accept(n)
    BY <2>1, <2>4, AcceptOrder
  <2>5. CASE ~Read(n) /\ ~Parse(n) /\ ~Accept(n)
    BY <1>1, <1>2, <1>4, <2>1, <2>5, RunQuiet
  <2>6. QED
    BY <2>2, <2>3, <2>4, <2>5
<1>5. ASSUME UNCHANGED <<members, thread, arrived, history>>
      PROVE  Lists' /\ HandFirst' /\ AcceptedBefore' /\ OnceInOrder'
  <2>1. UNCHANGED <<listeners, conn, sock, thread, stream, said, got>>
    BY <1>5 DEF members, arrived, history
  <2>2. QuietOrder /\ QuietLists
    BY <1>1, <2>1 DEF QuietOrder, QuietLists
  <2>3. QED
    BY <1>1, <1>2, <2>2, QuietListsStep
<1>6. ASSUME NEW m \in Messages, BrokerDeletes(m)
      PROVE  Lists' /\ HandFirst' /\ AcceptedBefore' /\ OnceInOrder'
  BY <1>5, <1>6 DEF BrokerDeletes
<1>7. ASSUME UNCHANGED vars PROVE Lists' /\ HandFirst' /\ AcceptedBefore' /\ OnceInOrder'
  BY <1>5, <1>7 DEF vars
<1>8. Lists' /\ HandFirst' /\ AcceptedBefore' /\ OnceInOrder'
  BY <1>3, <1>4, <1>6, <1>7, RemoteOrder DEF Next, Over
<1>9. PlaceInv'
  BY <1>1, NextPlace
<1>10. QED
  BY <1>8, <1>9 DEF OrderInv

LEMMA OrderIsOrdered == OrderInv => OnceInOrder
BY DEF OrderInv

\* When no second network thread is started, over any number of connections: a
\* listener accepts no message of the TCP socket twice, or after a later one.
THEOREM AcceptedOnceAndInOrder == OneThread => (Spec => []OnceInOrder)
<1> SUFFICES ASSUME OneThread PROVE Spec => []OnceInOrder
  OBVIOUS
<1>1. OrderInv /\ [Next]_vars => OrderInv'
  BY NextOrder
<1>2. QED
  BY <1>1, InitOrder, OrderIsOrdered, PTL DEF Spec

-----------------------------------------------------------------------------
(* Nothing is pumped after a goodbye. *)

\* A thread takes nothing from the TCP socket.
SameHands ==
    \A n \in Nets :
        /\ Hand(thread'[n]) \subseteq Hand(thread[n])
        /\ FromTcp(thread'[n]) => FromTcp(thread[n]) /\ thread'[n].msg = thread[n].msg

\* No goodbye is said or pumped, nothing is opened.
QuietWord ==
    /\ UNCHANGED <<conn, stream, goodbyes>> /\ said' \in Nat /\ said \in Nat /\ said <= said'
    /\ eof \subseteq eof'
    /\ \A c \in Conns : datagrams'[c] \cap goodbyes \subseteq datagrams[c]
    /\ pumped' \cap goodbyes \subseteq pumped
    /\ connected = FALSE => connected' = FALSE
    /\ \A c \in Conns : sock'[c] \subseteq sock[c]
    /\ SameHands

LEMMA QuietWordStep ==
    ASSUME LastWord, QuietWord
    PROVE  LastWord'
<1>1. \A g \in goodbyes : g \in pumped' => g \in pumped
  BY DEF QuietWord
<1>2. \A g \in goodbyes : Noticed(g)' => Noticed(g)
  BY <1>1 DEF Noticed, QuietWord, SameHands
<1>3. goodbyes' \subseteq 1 .. said'
  <2>1. \A g \in 1 .. said : g \in 1 .. said'
    BY DEF QuietWord
  <2>2. QED
    BY <2>1 DEF QuietWord, LastWord
<1>4. /\ goodbyes' # {} => conn' # 0 /\ Conns \subseteq eof'
      /\ \A c \in Conns : datagrams'[c] \cap goodbyes' = {}
  BY DEF QuietWord, LastWord
<1>5. ASSUME NEW g \in goodbyes
      PROVE  /\ \A c \in Conns : \A m \in Range(stream'[c]) : m <= g
             /\ \A n \in Nets : \A m \in Hand(thread'[n]) : m <= g
             /\ g \in pumped' => \A n \in Nets : Hand(thread'[n]) = {}
  BY <1>1 DEF QuietWord, SameHands, LastWord
<1>6. ASSUME NEW g \in goodbyes, Noticed(g)'
      PROVE  connected' = FALSE /\ \A c \in Conns : sock'[c] = {} /\ stream'[c] = << >>
  BY <1>2, <1>6 DEF QuietWord, LastWord
<1>7. goodbyes' = goodbyes
  BY DEF QuietWord
<1>8. QED
  BY <1>3, <1>4, <1>5, <1>6, <1>7 DEF LastWord

LEMMA NoGoodbye ==
    ASSUME goodbyes' = {}
    PROVE  LastWord'
BY DEF LastWord

LEMMA QuietOrderHands ==
    ASSUME QuietOrder
    PROVE  SameHands
BY DEF QuietOrder, SameHands

\* There is one connection, and there is one as soon as a goodbye is said.
LEMMA OnlyConn ==
    ASSUME OnceConnected, OrderInv
    PROVE  /\ Conns = {1} /\ conn \in {0, 1} /\ said \in Nat
           /\ conn = 0 => \A c \in Conns : sock[c] = {}
<1>1. TypeOK /\ Lists
  BY DEF OrderInv, PlaceInv, TypeInv
<1>2. Conns = {1} /\ conn \in {0, 1} /\ said \in Nat
  BY <1>1, BoundsAssumption DEF OnceConnected, Conns, TypeOK
<1>3. QED
  BY <1>1, <1>2 DEF Lists

LEMMA ProgramWord ==
    ASSUME OnceConnected, OrderInv, LastWord, Program
    PROVE  LastWord' /\ UNCHANGED pumped
<1> USE DEF members, arrived, broker
<1>1. TypeInv /\ TypeOK /\ said \in Nat /\ said <= said /\ conn \in {0, 1}
  BY OnlyConn DEF OrderInv, PlaceInv, TypeInv
<1>2. UNCHANGED <<goodbyes, eof, datagrams, stream, said, pumped>>
  BY DEF Program, Connect, Sockets, Start, Listen, SendMessage, Disconnect, DisconnectNothing,
         Destroy, CloseAll, Register, Unregister, ChangeListeners
<1>3. CASE Connect \/ Sockets
  <2>1. conn = 0
    <3>1. conn < MaxConnects
      BY <1>1, <1>3 DEF Connect, Sockets, TypeInv, Control
    <3>2. QED
      BY <1>1, <3>1 DEF OnceConnected
  <2>2. goodbyes' = {}
    BY <1>2, <2>1 DEF LastWord
  <2>3. QED
    BY <1>2, <2>2, NoGoodbye
<1>4. CASE ~Connect /\ ~Sockets
  <2>1. SameHands
    BY <1>1, <1>4, ProgramQuiet, QuietOrderHands
  <2>2. Write => \A c \in Conns : sock'[c] \subseteq sock[c]
    BY <1>1 DEF Write, TypeOK
  <2>3. CloseAll => \A c \in Conns : sock'[c] \subseteq sock[c]
    BY <1>1 DEF CloseAll, TypeOK
  <2>4. UNCHANGED sock \/ Write \/ CloseAll
    BY <1>4 DEF Program, Start, Listen, SendMessage, Disconnect, DisconnectNothing,
         Destroy, Register, Unregister, ChangeListeners
  <2>5. conn' = conn /\ (connected = FALSE => connected' = FALSE)
    BY <1>4 DEF Program, Start, Listen, SendMessage, Disconnect, DisconnectNothing,
         Destroy, CloseAll, Register, Unregister, ChangeListeners
  <2>6. \A c \in Conns : sock'[c] \subseteq sock[c]
    BY <2>2, <2>3, <2>4
  <2>7. QuietWord
    BY <1>1, <1>2, <2>1, <2>5, <2>6 DEF QuietWord
  <2>8. QED
    BY <1>2, <2>7, QuietWordStep
<1>5. QED
  BY <1>3, <1>4

\* Accepting a message leaves it where it is.
LEMMA AcceptHands ==
    ASSUME TypeOK, NEW n \in Nets, Accept(n)
    PROVE  SameHands
<1>1. Only(n) /\ Keeps(n) /\ thread[n].at = "call" /\ thread'[n].at = "call"
  BY AskIs
<1>2. FromTcp(thread'[n]) <=> FromTcp(thread[n])
  BY <1>1 DEF FromTcp, Taken, Keeps
<1>3. Hand(thread'[n]) = Hand(thread[n])
  BY <1>1, <1>2 DEF Hand, Keeps
<1>4. QED
  BY <1>1, <1>2, <1>3 DEF SameHands, Only, Keeps

LEMMA ReadWord ==
    ASSUME OnceConnected, OrderInv, LastWord, NEW n \in Nets, Read(n)
    PROVE  LastWord' /\ UNCHANGED pumped
<1> USE DEF members, arrived, broker
<1>1. TypeInv /\ TypeOK /\ said \in Nat /\ said <= said /\ Conns = {1} /\ Ordered
  BY OnlyConn DEF OrderInv, PlaceInv, TypeInv
<1>2. UNCHANGED <<conn, connected, sock, datagrams, eof, goodbyes, said, pumped>>
  BY DEF Read
<1>3. Only(n) /\ \A k \in Nets : k = n
  BY <1>1, ReadIs DEF OnceConnected, OneThread
<1>4. CASE thread'[n].at = "udp" /\ Keeps(n) /\ UNCHANGED stream
  <2>1. ~FromTcp(thread'[n]) /\ Hand(thread'[n]) \subseteq Hand(thread[n])
    BY <1>4 DEF FromTcp, Taken, Hand, Keeps
  <2>2. SameHands
    BY <1>3, <2>1 DEF SameHands
  <2>3. QuietWord
    BY <1>1, <1>2, <1>4, <2>2 DEF QuietWord
  <2>4. QED
    BY <1>2, <2>3, QuietWordStep
<1>5. ASSUME NEW k \in 1 .. Len(stream[conn]), ReadSome(n, k)
      PROVE  LastWord'
  <2> DEFINE s == stream[conn]
             a == SubSeq(s, 1, k)
             b == SubSeq(s, k + 1, Len(s))
  <2>1. conn \in Conns /\ s \in Seq(Messages) /\ s # << >>
    BY <1>1, <1>5 DEF TypeOK, ReadSome
  <2>2. Range(a) \subseteq Range(s) /\ Range(b) \subseteq Range(s)
    BY <2>1, Divided
  <2>3. thread'[n].batch = a /\ ~FromTcp(thread'[n]) /\ stream'[conn] = b
    BY <1>1, <1>5, <2>1 DEF ReadSome, FromTcp, Taken, TypeOK
  <2> HIDE DEF a, b
  <2>4. Hand(thread'[n]) = Range(a)
    BY <2>3 DEF Hand
  <2>5. \A g \in goodbyes : ~Noticed(g)
    BY <2>1 DEF LastWord
  <2>6. \A g \in goodbyes : g \notin pumped' /\ ~(Noticed(g)')
    BY <1>2, <1>3, <2>3, <2>5 DEF Noticed
  <2>7. \A c \in Conns : c = conn
    BY <1>1, <2>1
  <2>8. \A g \in goodbyes :
           /\ \A c \in Conns : \A m \in Range(stream'[c]) : m <= g
           /\ \A h \in Nets : \A m \in Hand(thread'[h]) : m <= g
    BY <1>3, <2>1, <2>2, <2>3, <2>4, <2>7 DEF LastWord
  <2>9. /\ goodbyes' \subseteq 1 .. said'
        /\ goodbyes' # {} => conn' # 0 /\ Conns \subseteq eof'
        /\ \A c \in Conns : datagrams'[c] \cap goodbyes' = {}
    BY <1>2 DEF LastWord
  <2>10. QED
    BY <1>2, <2>6, <2>8, <2>9 DEF LastWord
<1>6. QED
  BY <1>1, <1>2, <1>4, <1>5, ReadIs

LEMMA ParseWord ==
    ASSUME OnceConnected, OrderInv, LastWord, NEW n \in Nets, Parse(n)
    PROVE  LastWord' /\ UNCHANGED pumped
<1> USE DEF members, arrived, broker
<1>1. TypeInv /\ TypeOK /\ said \in Nat /\ said <= said /\ Conns = {1} /\ Ordered /\ HandFirst
  BY OnlyConn DEF OrderInv, PlaceInv, TypeInv
<1>2. UNCHANGED <<conn, stream, datagrams, eof, goodbyes, said, pumped>> /\ thread[n].at = "parse"
  BY DEF Parse, At
<1>3. \A k \in Nets : k = n
  BY DEF OnceConnected, OneThread
<1>4. conn = 1
  BY <1>1, <1>2, InConns
<1>5. ASSUME SameHands, UNCHANGED <<connected, sock>> PROVE LastWord'
  <2>1. QuietWord
    BY <1>1, <1>2, <1>5 DEF QuietWord
  <2>2. QED
    BY <2>1, QuietWordStep
<1>6. CASE UNCHANGED <<thread, connected, sock>>
  BY <1>2, <1>5, <1>6 DEF SameHands
<1>7. CASE thread'[n].at = "udp" /\ Keeps(n) /\ UNCHANGED <<connected, sock>>
  <2>1. ~FromTcp(thread'[n]) /\ Hand(thread'[n]) \subseteq Hand(thread[n])
    BY <1>7 DEF FromTcp, Taken, Hand, Keeps
  <2>2. QED
    BY <1>2, <1>3, <1>5, <1>7, <2>1 DEF SameHands
<1>8. CASE /\ thread[n].batch # << >> /\ NoteGoodbye(thread'[n].msg)
           /\ thread'[n].at = "copy" /\ thread'[n].via = "tcp"
           /\ thread'[n].batch = Tail(thread[n].batch) /\ thread'[n].msg = Head(thread[n].batch)
  <2> DEFINE b == thread[n].batch
             h == Head(b)
  <2>1. b \in Seq(Messages) /\ b # << >>
    BY <1>1, <1>8, HandIs
  <2>2. Range(b) = {h} \cup Range(Tail(b)) /\ h \in Messages
    BY <2>1, HeadAndTail
  <2>3. ~FromTcp(thread[n]) /\ FromTcp(thread'[n]) /\ thread'[n].msg = h
    BY <1>2, <1>8 DEF FromTcp, Taken
  <2>4. Hand(thread'[n]) = Hand(thread[n]) /\ h \in Hand(thread[n])
    BY <1>8, <2>2, <2>3 DEF Hand
  <2>5. \A g \in goodbyes : g \notin pumped
    BY <2>4 DEF LastWord
  <2>6. \A g \in goodbyes : Noticed(g)' => g = h
    BY <1>2, <1>3, <2>3, <2>5 DEF Noticed
  <2>7. ASSUME h \in goodbyes
        PROVE  connected' = FALSE /\ \A c \in Conns : sock'[c] = {} /\ stream'[c] = << >>
    <3>1. connected' = FALSE /\ sock' = [sock EXCEPT ![conn] = {}]
      BY <1>8, <2>3, <2>7 DEF NoteGoodbye
    <3>2. sock'[conn] = {}
      BY <1>1, <1>4, <3>1 DEF TypeOK
    <3>3. \A m \in Range(stream[conn]) : h < m /\ m <= h
      BY <1>1, <1>4, <2>4, <2>7 DEF HandFirst, LastWord
    <3>4. stream[conn] \in Seq(Messages)
      BY <1>1, <1>4 DEF TypeOK
    <3>5. Range(stream[conn]) \subseteq Nat /\ h \in Nat
      <4>1. Range(stream[conn]) \subseteq Messages
        BY <3>4 DEF Range
      <4>2. QED
        BY <2>2, <4>1, MessagesAreNat
    <3>6. Range(stream[conn]) = {}
      BY <3>3, <3>5
    <3>7. stream[conn] = << >>
      BY <3>4, <3>6, HeadAndTail
    <3>8. QED
      BY <1>1, <1>2, <1>4, <3>1, <3>2, <3>7
  <2>8. \A g \in goodbyes :
           /\ \A c \in Conns : \A m \in Range(stream'[c]) : m <= g
           /\ \A k \in Nets : \A m \in Hand(thread'[k]) : m <= g
    BY <1>2, <1>3, <2>4 DEF LastWord
  <2>9. /\ goodbyes' \subseteq 1 .. said'
        /\ goodbyes' # {} => conn' # 0 /\ Conns \subseteq eof'
        /\ \A c \in Conns : datagrams'[c] \cap goodbyes' = {}
    BY <1>2 DEF LastWord
  <2>10. QED
    BY <1>2, <2>5, <2>6, <2>7, <2>8, <2>9 DEF LastWord
<1>9. QED
  BY <1>1, <1>2, <1>6, <1>7, <1>8, ParseIs

LEMMA PumpWord ==
    ASSUME OnceConnected, OrderInv, LastWord, NEW n \in Nets, Pump(n)
    PROVE  LastWord' /\ (pumped \cap goodbyes # {} => UNCHANGED pumped)
<1> USE DEF members, arrived
<1>1. TypeInv /\ TypeOK /\ said \in Nat /\ said <= said /\ Ordered
  BY OnlyConn DEF OrderInv, PlaceInv, TypeInv
<1>2. /\ UNCHANGED <<connected, sock, conn, stream, datagrams, eof, goodbyes, said>>
      /\ Only(n) /\ Keeps(n) /\ thread[n].at = "call"
      /\ thread'[n].at = IF thread[n].via = "tcp" THEN "parse" ELSE "while"
      /\ pumped' = pumped \cup IF thread[n].via = "tcp" THEN {thread[n].msg} ELSE {}
  BY <1>1, PumpIs DEF Pump
<1>3. \A k \in Nets : k = n
  BY DEF OnceConnected, OneThread
<1>4. ~FromTcp(thread'[n])
  BY <1>2 DEF FromTcp, Taken
<1>5. Hand(thread'[n]) \subseteq Hand(thread[n]) /\ Hand(thread'[n]) = Range(thread[n].batch)
  BY <1>2, <1>4 DEF Hand, Keeps
<1>6. SameHands
  BY <1>3, <1>4, <1>5 DEF SameHands
<1>7. CASE thread[n].via # "tcp"
  <2>1. pumped' = pumped
    BY <1>2, <1>7
  <2>2. QuietWord
    BY <1>1, <1>2, <1>6, <2>1 DEF QuietWord
  <2>3. QED
    BY <2>1, <2>2, QuietWordStep
<1>8. CASE thread[n].via = "tcp"
  <2> DEFINE m == thread[n].msg
  <2>1. FromTcp(thread[n]) /\ m \in Hand(thread[n]) /\ m \in Messages /\ pumped' = pumped \cup {m}
    BY <1>1, <1>2, <1>8, TakenMessage DEF FromTcp, Taken, Hand
  <2>2. \A g \in goodbyes : g \notin pumped
    BY <2>1 DEF LastWord
  <2>3. \A g \in goodbyes : Noticed(g)' => g = m /\ Noticed(g)
    BY <1>2, <1>3, <1>4, <2>1, <2>2 DEF Noticed
  <2>4. ASSUME m \in goodbyes PROVE Hand(thread'[n]) = {}
    <3>1. thread[n].batch \in Seq(Messages) /\ Range(thread[n].batch) \subseteq Hand(thread[n])
      BY <1>1, HandIs
    <3>2. \A k \in Range(thread[n].batch) : m < k /\ k <= m
      BY <1>1, <2>1, <2>4, <3>1 DEF Ordered, LastWord
    <3>3. Range(thread[n].batch) \subseteq Nat /\ m \in Nat
      <4>1. Range(thread[n].batch) \subseteq Messages
        BY <3>1 DEF Range
      <4>2. QED
        BY <2>1, <4>1, MessagesAreNat
    <3>4. Range(thread[n].batch) = {}
      BY <3>2, <3>3
    <3>5. QED
      BY <1>5, <3>4
  <2>5. \A g \in goodbyes : g \in pumped' => \A k \in Nets : Hand(thread'[k]) = {}
    BY <1>3, <2>1, <2>2, <2>4
  <2>6. \A g \in goodbyes :
           /\ \A c \in Conns : \A j \in Range(stream'[c]) : j <= g
           /\ \A k \in Nets : \A j \in Hand(thread'[k]) : j <= g
    BY <1>2, <1>3, <1>5 DEF LastWord
  <2>7. \A g \in goodbyes : Noticed(g)' =>
           connected' = FALSE /\ \A c \in Conns : sock'[c] = {} /\ stream'[c] = << >>
    BY <1>2, <2>3 DEF LastWord
  <2>8. /\ goodbyes' \subseteq 1 .. said'
        /\ goodbyes' # {} => conn' # 0 /\ Conns \subseteq eof'
        /\ \A c \in Conns : datagrams'[c] \cap goodbyes' = {}
    BY <1>2 DEF LastWord
  <2>9. LastWord'
    BY <1>2, <2>5, <2>6, <2>7, <2>8 DEF LastWord
  <2>10. QED
    BY <2>2, <2>9
<1>9. QED
  BY <1>7, <1>8

LEMMA UdpWord ==
    ASSUME OnceConnected, OrderInv, LastWord, NEW n \in Nets, Udp(n)
    PROVE  LastWord' /\ (pumped \cap goodbyes # {} => UNCHANGED pumped)
<1> USE DEF members, arrived
<1>1. TypeInv /\ TypeOK /\ said \in Nat /\ said <= said
  BY OnlyConn DEF OrderInv, PlaceInv, TypeInv
<1>2. /\ UNCHANGED <<connected, sock, conn, stream, eof, goodbyes, said>>
      /\ Only(n) /\ thread'[n].batch = thread[n].batch
      /\ thread'[n].at = "while" \/ thread'[n].via = "udp"
  BY <1>1, UdpIs DEF Udp
<1>3. ~FromTcp(thread'[n]) /\ Hand(thread'[n]) \subseteq Hand(thread[n])
  BY <1>2 DEF FromTcp, Taken, Hand
<1>4. SameHands
  BY <1>2, <1>3 DEF SameHands, Only, OnceConnected, OneThread
<1>5. CASE UNCHANGED <<datagrams, pumped>>
  <2>1. QuietWord
    BY <1>1, <1>2, <1>4, <1>5 DEF QuietWord
  <2>2. QED
    BY <1>5, <2>1, QuietWordStep
<1>6. ASSUME NEW m \in datagrams[conn], conn \in Conns, "udp" \in sock[conn],
             datagrams' = [datagrams EXCEPT ![conn] = @ \ {m}], pumped' = pumped \cup {m}
      PROVE  LastWord' /\ pumped \cap goodbyes = {}
  <2>1. m \notin goodbyes
    BY <1>6 DEF LastWord
  <2>2. \A c \in Conns : datagrams'[c] \subseteq datagrams[c]
    BY <1>1, <1>6 DEF TypeOK
  <2>3. QuietWord
    BY <1>1, <1>2, <1>4, <1>6, <2>1, <2>2 DEF QuietWord
  <2>4. \A g \in goodbyes : ~Noticed(g)
    BY <1>6 DEF LastWord
  <2>5. QED
    BY <2>3, <2>4, QuietWordStep DEF Noticed
<1>7. QED
  BY <1>1, <1>5, <1>6, UdpIs

LEMMA RunWord ==
    ASSUME OnceConnected, OrderInv, LastWord, NEW n \in Nets, Run(n)
    PROVE  LastWord' /\ (pumped \cap goodbyes # {} => UNCHANGED pumped)
<1> USE DEF members, arrived, broker
<1>1. TypeInv /\ TypeOK /\ said \in Nat /\ said <= said
  BY OnlyConn DEF OrderInv, PlaceInv, TypeInv
<1>2. CASE Read(n) \/ Parse(n) \/ Pump(n) \/ Udp(n)
  BY <1>2, ReadWord, ParseWord, PumpWord, UdpWord
<1>3. CASE ~(Read(n) \/ Parse(n) \/ Pump(n) \/ Udp(n))
  <2>1. UNCHANGED <<connected, sock, conn, stream, datagrams, eof, goodbyes, said, pumped>>
    BY <1>3 DEF Run, Enter, While, Select, Copy, AskFreed, Accept, Refuse, UseFreedNetwork
  <2>2. SameHands
    BY <1>1, <1>3, RunQuiet, QuietOrderHands, AcceptHands
  <2>3. QuietWord
    BY <1>1, <2>1, <2>2 DEF QuietWord
  <2>4. QED
    BY <2>1, <2>3, QuietWordStep
<1>4. QED
  BY <1>2, <1>3

LEMMA RemoteWord ==
    ASSUME OnceConnected, OrderInv, LastWord, Remote
    PROVE  LastWord' /\ UNCHANGED pumped
<1> USE DEF members, arrived, broker
<1>1. /\ TypeInv /\ TypeOK /\ Ordered /\ said \in Nat /\ said <= said
      /\ Conns = {1} /\ conn \in {0, 1}
      /\ conn = 0 => \A c \in Conns : sock[c] = {}
  BY OnlyConn DEF OrderInv, PlaceInv, TypeInv
<1>2. UNCHANGED <<connected, conn, sock, thread, pumped>>
  BY DEF Remote
<1>3. SameHands
  BY <1>2 DEF SameHands
<1>4. PICK c \in Conns : (\E goodbye \in BOOLEAN : Say(c, goodbye)) \/ SayUdp(c) \/ Lose(c)
  BY DEF Remote
<1>5. CASE Lose(c)
  <2>1. QuietWord
    BY <1>1, <1>2, <1>3, <1>5 DEF QuietWord, Lose
  <2>2. QED
    BY <1>2, <2>1, QuietWordStep
<1>6. CASE SayUdp(c)
  <2>1. said + 1 \notin goodbyes /\ said + 1 \in Nat /\ said <= said + 1
    BY <1>1 DEF LastWord
  <2>2. /\ UNCHANGED <<stream, eof, goodbyes>> /\ said' = said + 1
        /\ datagrams' = [datagrams EXCEPT ![c] = datagrams[c] \cup {said + 1}]
    BY <1>6 DEF SayUdp
  <2>3. \A d \in Conns : datagrams'[d] \cap goodbyes \subseteq datagrams[d]
    BY <1>1, <2>1, <2>2 DEF TypeOK
  <2>4. QuietWord
    BY <1>2, <1>1, <1>3, <2>1, <2>2, <2>3 DEF QuietWord
  <2>5. QED
    BY <1>2, <2>4, QuietWordStep
<1>7. ASSUME NEW goodbye \in BOOLEAN, Say(c, goodbye)
      PROVE  LastWord'
  <2> DEFINE a == Append(stream[c], said + 1)
  <2>1. /\ said' = said + 1 /\ datagrams' = datagrams /\ stream' = [stream EXCEPT ![c] = a]
        /\ said < MaxSaid /\ "tcp" \in sock[c] /\ c \notin eof
        /\ \/ goodbyes' = goodbyes \cup {said + 1} /\ eof' = eof \cup {c}
           \/ UNCHANGED goodbyes
    BY <1>7 DEF Say
  <2>2. goodbyes = {} /\ conn # 0
    BY <1>1, <2>1 DEF LastWord
  <2>3. CASE goodbyes' = {}
    BY <2>3, NoGoodbye
  <2>4. CASE goodbyes' = {said + 1} /\ eof' = eof \cup {c}
    <3>1. said + 1 \in Messages /\ stream[c] \in Seq(Messages)
      BY <1>1, <2>1, BoundsAssumption DEF Messages, TypeOK
    <3>2. Range(a) = Range(stream[c]) \cup {said + 1}
      BY <3>1, Appended
    <3> HIDE DEF a
    <3>3. stream'[c] = a /\ \A d \in Conns : d = c
      BY <1>1, <2>1 DEF TypeOK
    <3>4. said + 1 \notin 1 .. said /\ said + 1 <= said + 1 /\ \A m \in 1 .. said : m <= said + 1
      BY <1>1
    <3>5. /\ said + 1 \in 1 .. said + 1
          /\ \A d \in Conns : datagrams'[d] \subseteq 1 .. said /\ Range(stream[d]) \subseteq 1 .. said
          /\ \A k \in Nets : Hand(thread'[k]) \subseteq 1 .. said
          /\ pumped' \subseteq 1 .. said
      BY <1>1, <1>2, <2>1 DEF Ordered
    <3>6. \A d \in Conns : \A m \in Range(stream'[d]) : m <= said + 1
      BY <3>2, <3>3, <3>4, <3>5
    <3>7. \A k \in Nets : FromTcp(thread'[k]) => thread'[k].msg \in Hand(thread'[k])
      BY DEF Hand
    <3>8. ASSUME NEW g \in goodbyes'
          PROVE  /\ \A d \in Conns : \A m \in Range(stream'[d]) : m <= g
                 /\ \A k \in Nets : \A m \in Hand(thread'[k]) : m <= g
                 /\ ~(Noticed(g)') /\ g \notin pumped'
      <4>1. g = said + 1
        BY <2>4, <3>8
      <4>2. /\ \A d \in Conns : \A m \in Range(stream'[d]) : m <= g
            /\ \A k \in Nets : \A m \in Hand(thread'[k]) : m <= g
        BY <3>4, <3>5, <3>6, <4>1
      <4>3. g \notin pumped' /\ \A k \in Nets : g \notin Hand(thread'[k])
        BY <3>4, <3>5, <4>1
      <4>4. ~(Noticed(g)')
        BY <3>7, <4>3 DEF Noticed
      <4>5. QED
        BY <4>2, <4>3, <4>4
    <3>9. /\ goodbyes' \subseteq 1 .. said' /\ conn' # 0 /\ Conns \subseteq eof'
          /\ \A d \in Conns : datagrams'[d] \cap goodbyes' = {}
      BY <1>1, <1>2, <2>1, <2>2, <2>4, <3>3, <3>4, <3>5
    <3>10. QED
      BY <3>8, <3>9 DEF LastWord
  <2>5. QED
    BY <2>1, <2>2, <2>3, <2>4
<1>8. QED
  BY <1>2, <1>4, <1>5, <1>6, <1>7

LEMMA NextWord ==
    ASSUME OnceConnected, GoodbyeInv, [Next]_vars
    PROVE  GoodbyeInv' /\ (pumped \cap goodbyes # {} => UNCHANGED pumped)
<1>1. OrderInv /\ LastWord /\ OrderInv'
  BY NextOrder DEF GoodbyeInv, OnceConnected
<1>2. ASSUME UNCHANGED <<members, thread, arrived, pumped>> PROVE LastWord'
  <2>1. said \in Nat /\ said <= said
    BY <1>1, OnlyConn
  <2>2. UNCHANGED <<connected, conn, sock, thread, stream, datagrams, eof, goodbyes, said, pumped>>
    BY <1>2 DEF members, arrived
  <2>3. QuietWord
    BY <2>1, <2>2 DEF QuietWord, SameHands
  <2>4. QED
    BY <1>1, <2>3, QuietWordStep
<1>3. ASSUME NEW m \in Messages, BrokerDeletes(m) PROVE LastWord' /\ UNCHANGED pumped
  BY <1>2, <1>3 DEF BrokerDeletes
<1>4. ASSUME UNCHANGED vars PROVE LastWord' /\ UNCHANGED pumped
  BY <1>2, <1>4 DEF vars, broker
<1>5. LastWord' /\ (pumped \cap goodbyes # {} => UNCHANGED pumped)
  BY <1>1, <1>3, <1>4, ProgramWord, RunWord, RemoteWord DEF Next, Over
<1>6. QED
  BY <1>1, <1>5 DEF GoodbyeInv

\* In a program that connects once, and so has one network thread: no message is
\* given to a broker after a DisconnectMessage, also none that was read before.
THEOREM NothingAfterGoodbye == OnceConnected => (Spec => SilentAfterGoodbye)
<1> SUFFICES ASSUME OnceConnected PROVE Spec => SilentAfterGoodbye
  OBVIOUS
<1>1. Init => GoodbyeInv
  <2>1. Init => LastWord
    BY DEF Init, LastWord
  <2>2. QED
    BY <2>1, InitOrder DEF GoodbyeInv
<1>2. GoodbyeInv /\ [Next]_vars => GoodbyeInv'
  BY NextWord
<1>3. GoodbyeInv /\ [Next]_vars => [pumped \cap goodbyes # {} => pumped' = pumped]_vars
  BY NextWord
<1>4. QED
  BY <1>1, <1>2, <1>3, PTL DEF Spec, SilentAfterGoodbye
=============================================================================
