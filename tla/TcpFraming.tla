----------------------------- MODULE TcpFraming -----------------------------
(***************************************************************************)
(* How messages become bytes on a TCP connection, and bytes messages: the  *)
(* send functions of oocl::Peer and oocl::DirectConNetwork at one end, and *)
(* at the other the receiving loop of Peer2PeerNetwork::run() or of        *)
(* DirectConNetwork::run(), with the registry of create functions.  A byte *)
(* is its offset in the connection; of a message only its type, its size   *)
(* and its place are kept.  strMsg is the bytes from parsed to read.       *)
(***************************************************************************)
EXTENDS Naturals, Sequences

CONSTANTS
    Senders,      \* the threads that call sendMessage() at one end
    Loops,        \* which of the two classes are at the ends
    Kinds,        \* what may be sent: records with a type and a body size
    Registering,  \* types that the program registers while it is connected
    Header,       \* the length of a header: 4
    Width,        \* 2^16: the header holds body lengths modulo this
    MaxRead,      \* MAX_BUFFER_SIZE
    Capacity,     \* how many bytes the connection holds
    MaxMessages   \* bound on the calls of sendMessage()

Types == {"Standard", "Subscribe", "Connect", "Disconnect", "NewPeer", "Custom"}

ASSUME LoopsAssumption == Loops \subseteq {"peer", "direct"}
\* The messages of the library, as their getMsgString() writes them.
StandardMessage(length) == [type |-> "Standard", size |-> length]
SubscribeMessage == [type |-> "Subscribe", size |-> 2]
ConnectMessage == [type |-> "Connect", size |-> 2 + 4]
DisconnectMessage == [type |-> "Disconnect", size |-> 0]

ASSUME KindsAssumption ==
    /\ Kinds \subseteq [type : Types, size : Nat]
    /\ \A k \in Kinds :
          \/ k = StandardMessage(k.size)
          \/ k \in {SubscribeMessage, ConnectMessage, DisconnectMessage}
          \/ k.type = "Custom"
ASSUME RegisteringAssumption == Registering \subseteq Types
ASSUME BoundsAssumption ==
    /\ {Header, Width, MaxRead, Capacity} \subseteq Nat \ {0}
    /\ MaxMessages \in Nat

VARIABLES
    loop,        \* the class at both ends
    sent,        \* the messages, with their first byte and the one after them
    out,         \* the message that each sender is in write() with; left: the
                 \* bytes of it that are not sent
    written,     \* the number of bytes sent
    link,        \* "open", "closed" by the sending end, or "reset"
    registered,  \* the types in sm_msgTypeList that are not NULL
    growing,     \* the types that a registerMsg() is resizing it for
    read,        \* the number of bytes received
    parsed,      \* those of them that are no longer in strMsg
    next,        \* the first message that starts at parsed or later
    at,          \* where the receiving loop is
    got,         \* the messages that went to receiveMessage() or a broker
    fault        \* "none", or what went wrong that the program does not handle

sending   == <<sent, out, written, link>>
registry  == <<registered, growing>>
receiving == <<read, parsed, next, at, got>>
vars == <<loop, sending, registry, receiving, fault>>

Sent == [type : Types, size : Nat, from : Nat, to : Nat]
Given == [msg : Nat, body : Nat]

TypeOK ==
    /\ loop \in {"peer", "direct"}
    /\ sent \in Seq(Sent)
    /\ out \in [Senders -> [type : Types, size : Nat, left : Nat]]
    /\ link \in {"open", "closed", "reset"}
    /\ {registered, growing} \subseteq SUBSET Types
    /\ {written, read, parsed, next} \subseteq Nat
    /\ parsed <= read /\ read <= written /\ next \in 1 .. Len(sent) + 1
    /\ at \in {"select", "parse", "more", "last", "closing", "left"}
    /\ got \in Seq(Given)
    /\ fault \in {"none", "mixed", "garbled", "overread", "nullMessage",
                  "outOfRange", "racedRegistry"}

\* Its create() always returns NULL.
NotCreated == {"NewPeer"}

\* The constructors of the networks register the types of the library.
LibraryTypes == {"Subscribe", "Connect", "Disconnect"}

Init ==
    /\ loop \in Loops
    /\ sent = << >> /\ written = 0 /\ link = "open"
    /\ out = [s \in Senders |-> [type |-> "Standard", size |-> 0, left |-> 0]]
    /\ registered = IF loop = "peer" THEN LibraryTypes \cup {"NewPeer"}
                                     ELSE LibraryTypes \ {"Subscribe"}
    /\ growing = {}
    /\ read = 0 /\ parsed = 0 /\ next = 1 /\ at = "select" /\ got = << >>
    /\ fault = "none"

Lower(a, b) == IF a < b THEN a ELSE b

-----------------------------------------------------------------------------
(* The sending end. *)

Idle(s) == out[s].left = 0

\* A bug: Peer::sendMessage() does not lock m_mxSockets.
MayWriteUnlocked(s) == TRUE

\* Peer::sendMessage() writes with m_mxSockets locked.
MayWrite(s) == loop = "peer" => \A t \in Senders \ {s} : Idle(t)

\* A message is its header and its body.
SendMessage(s, kind) ==
    /\ fault = "none" /\ link = "open"
    /\ Len(sent) < MaxMessages /\ Idle(s) /\ MayWrite(s)
    /\ out' = [out EXCEPT ![s] = [type |-> kind.type, size |-> kind.size,
                                  left |-> Header + kind.size]]
    /\ UNCHANGED <<loop, sent, written, link, registry, receiving, fault>>

Untouched(s) == out[s].left = Header + out[s].size
Midway == \E s \in Senders : ~Idle(s) /\ ~Untouched(s)

Place(s) ==
    IF Untouched(s)
      THEN Append(sent, [type |-> out[s].type, size |-> out[s].size,
                         from |-> written,
                         to |-> written + Header + out[s].size])
      ELSE sent

\* One send() of write(): the system takes some of the bytes.
Write(s) ==
    /\ fault = "none" /\ link = "open" /\ ~Idle(s)
    /\ Untouched(s) => ~Midway
    /\ \E k \in 1 .. Lower(out[s].left, (read + Capacity) - written) :
          /\ written' = written + k
          /\ out' = [out EXCEPT ![s].left = @ - k]
    /\ sent' = Place(s)
    /\ UNCHANGED <<loop, link, registry, receiving, fault>>

\* Nothing keeps a second thread of DirectConNetwork::sendMessage() from
\* starting before the first has sent its last byte.
WriteBetween(s) ==
    /\ fault = "none" /\ link = "open" /\ ~Idle(s)
    /\ Untouched(s) /\ Midway
    /\ written < read + Capacity
    /\ fault' = "mixed"
    /\ UNCHANGED <<loop, sending, registry, receiving>>

\* The sending end closes the connection, or goes away without a goodbye: the
\* next send() fails, and close() follows.
EndLink ==
    /\ fault = "none" /\ link = "open"
    /\ link' \in {"closed", "reset"}
    /\ out' = [s \in Senders |-> [out[s] EXCEPT !.left = 0]]
    /\ UNCHANGED <<loop, sent, written, registry, receiving, fault>>

-----------------------------------------------------------------------------
(* The registry, at the receiving end. *)

\* The slot of a library type exists and is set at once; for the type of an
\* application the list is made longer first.
RegisterMsg(type) ==
    /\ fault = "none" /\ type \notin registered /\ type \notin growing
    /\ IF type = "Custom"
         THEN growing' = growing \cup {type} /\ UNCHANGED registered
         ELSE registered' = registered \cup {type} /\ UNCHANGED growing
    /\ UNCHANGED <<loop, sending, receiving, fault>>

Grown(type) ==
    /\ fault = "none" /\ type \in growing
    /\ registered' = registered \cup {type}
    /\ growing' = growing \ {type}
    /\ UNCHANGED <<loop, sending, receiving, fault>>

-----------------------------------------------------------------------------
(* The receiving end. *)

Available == written - read
Received == read - parsed

\* The length that create() finds in the header and getBodyLength() returns.
BodyLength(m) == IF m.type \in {"Standard", "Custom"} THEN m.size % Width ELSE m.size

\* A read() in the middle of a message.
ReadsMore == at \in {"more", "last"}
\* What has come is parsed, unless the loop ends after this read().
ReadOn == at' = IF at = "last" THEN "left" ELSE "parse"

\* A bug: read() makes a string of the whole buffer.
ReadBuffer ==
    /\ fault = "none" /\ link # "reset"
    /\ at = "select" \/ ReadsMore
    /\ Available > 0
    /\ read' = read + MaxRead
    /\ ReadOn
    /\ UNCHANGED <<loop, sending, registry, parsed, next, got, fault>>

\* One recv(): some of the bytes that have arrived.
Read ==
    /\ fault = "none" /\ link # "reset"
    /\ at = "select" \/ ReadsMore
    /\ Available > 0
    /\ \E k \in 1 .. Lower(MaxRead, Available) : read' = read + k
    /\ ReadOn
    /\ UNCHANGED <<loop, sending, registry, parsed, next, got, fault>>

\* recv() fails: the socket is closed, and the receiving loop has no more of it,
\* unless it is in the middle of a message.
ReadReset ==
    /\ fault = "none" /\ at = "select" /\ link = "reset"
    /\ at' = "left"
    /\ UNCHANGED <<loop, sending, registry, read, parsed, next, got, fault>>

\* In the middle of a message a failed read() adds nothing to strMsg, and the
\* same bytes are parsed again.
ReadNothing ==
    /\ fault = "none" /\ ReadsMore
    /\ link = "reset" \/ (link = "closed" /\ Available = 0)
    /\ ReadOn
    /\ UNCHANGED <<loop, sending, registry, read, parsed, next, got, fault>>

Parsing == fault = "none" /\ at \in {"parse", "closing"}
InStep == next <= Len(sent) /\ sent[next].from = parsed

\* strMsg is empty.
ParseEnd ==
    /\ Parsing /\ Received = 0
    /\ at' = IF at = "closing" THEN "left" ELSE "select"
    /\ UNCHANGED <<loop, sending, registry, read, parsed, next, got, fault>>

\* Bytes from the middle of a message are taken for a header: what follows is
\* arbitrary.  With the type of a NewPeerMessage, create() returns NULL and
\* createFromString() writes to it.
ParseGarbled ==
    /\ Parsing /\ Received > 0 /\ ~InStep
    /\ fault' \in {"garbled"} \cup
          (IF NotCreated \cap registered # {} THEN {"nullMessage"} ELSE {})
    /\ UNCHANGED <<loop, sending, registry, receiving>>

\* createFromString() reads the list while registerMsg() replaces its memory.
ParseRaced ==
    /\ Parsing /\ Received > 0 /\ growing # {}
    /\ fault' = "racedRegistry"
    /\ UNCHANGED <<loop, sending, registry, receiving>>

\* No create function: the rest of strMsg is dropped with this message.
ParseUnknown ==
    /\ Parsing /\ Received > 0 /\ InStep
    /\ sent[next].type \notin registered
    /\ parsed' = read
    /\ \E j \in next + 1 .. Len(sent) + 1 :
          /\ \A i \in 1 .. Len(sent) : i < j <=> sent[i].from < read
          /\ next' = j
    /\ at' = IF at = "closing" THEN "left" ELSE "select"
    /\ UNCHANGED <<loop, sending, registry, read, got, fault>>

Known == Parsing /\ Received > 0 /\ InStep /\ sent[next].type \in registered
\* A bug: the header is left out of the comparison.
CompleteBody == Received >= BodyLength(sent[next])

Complete == Received >= BodyLength(sent[next]) + Header

\* A DisconnectMessage ends the loop of Peer2PeerNetwork for this peer; that of
\* DirectConNetwork goes on until strMsg is empty.
After(m, where) ==
    IF m.type # "Disconnect" THEN where
      ELSE IF loop = "peer" THEN "left" ELSE "closing"

\* A bug: one message of each packet is delivered, and the others are lost.
DeliverFirst ==
    /\ Known /\ Complete
    /\ got' = Append(got, [msg |-> next, body |-> BodyLength(sent[next])])
    /\ parsed' = read
    /\ next' = next + 1
    /\ at' = After(sent[next], at)
    /\ UNCHANGED <<loop, sending, registry, read, fault>>

Deliver ==
    /\ Known /\ Complete
    /\ got' = Append(got, [msg |-> next, body |-> BodyLength(sent[next])])
    /\ parsed' = parsed + BodyLength(sent[next]) + Header
    /\ next' = next + 1
    /\ at' = After(sent[next], at)
    /\ UNCHANGED <<loop, sending, registry, read, fault>>

\* A bug: the message is handed on before the rest of it is read.
ReadMoreDeliver ==
    /\ Known /\ ~Complete /\ loop = "peer"
    /\ got' = Append(got, [msg |-> next, body |-> Received])
    /\ at' = After(sent[next], "more")
    /\ UNCHANGED <<loop, sending, registry, read, parsed, next, fault>>

\* A bug: nothing is read, and the same bytes are parsed again.
ReadNoMore ==
    /\ Known /\ ~Complete /\ loop = "peer"
    /\ at' = After(sent[next], "parse")
    /\ UNCHANGED <<loop, sending, registry, read, parsed, next, got, fault>>

\* What is in strMsg of the message is not enough: Peer2PeerNetwork waits for
\* more.  A DisconnectMessage has served its purpose then.
ReadMore ==
    /\ Known /\ ~Complete /\ loop = "peer"
    /\ at' = IF sent[next].type = "Disconnect" THEN "last" ELSE "more"
    /\ UNCHANGED <<loop, sending, registry, read, parsed, next, got, fault>>

\* DirectConNetwork has no such branch: substr() throws, and nothing catches it.
CutOff ==
    /\ Known /\ ~Complete /\ loop = "direct"
    /\ fault' = "outOfRange"
    /\ UNCHANGED <<loop, sending, registry, receiving>>

\* create() has read a body that is not there.
OverRead ==
    /\ Known /\ ~Complete /\ sent[next].type \in {"Standard", "Custom"}
    /\ fault' = "overread"
    /\ UNCHANGED <<loop, sending, registry, receiving>>

Parse ==
    \/ ParseEnd \/ ParseGarbled \/ ParseUnknown
    \/ Deliver \/ ReadMore \/ CutOff
Undefined == ParseRaced \/ OverRead
Receive == Read \/ ReadReset \/ ReadNothing \/ Parse

-----------------------------------------------------------------------------
Next ==
    \/ \E s \in Senders, kind \in Kinds : SendMessage(s, kind)
    \/ \E s \in Senders : Write(s) \/ WriteBetween(s)
    \/ EndLink
    \/ \E type \in Registering : RegisterMsg(type) \/ Grown(type)
    \/ Receive
    \/ Undefined

\* send() returns as long as there is room, and the receiving thread runs;
\* it need not meet the undefined behaviour.
Fairness == WF_vars(Receive) /\ \A s \in Senders : WF_vars(Write(s))

Spec == Init /\ [][Next]_vars /\ Fairness

-----------------------------------------------------------------------------
\* What is delivered is the message that was sent, with all of its body, and
\* was received up to its last byte; only a body that is too long for the length
\* in the header is not.
WholeMessages ==
    \A i \in 1 .. Len(got) :
        LET m == sent[got[i].msg]
        IN  /\ m.size < Width => got[i].body = m.size
            /\ m.from + Header + got[i].body <= read

\* The receiver finds the starts of the messages, however they are cut into
\* packets, and whoever sends at the same time, unless it dropped a message or
\* one was too long; through DirectConNetwork two senders may mix, and a cut
\* message ends the program.
Lost == Len(got) + 1 < next
StaysInStep ==
    /\ fault \in {"garbled", "nullMessage"} =>
          Lost \/ \E i \in 1 .. Len(sent) : sent[i].size >= Width
    /\ fault \in {"mixed", "outOfRange"} => loop = "direct"

Stream == INSTANCE MessageStream WITH Messages <- Sent, Deliveries <- Given
\* The bytes, the cuts and the two loops are an implementation of the stream of
\* messages in MessageStream.
ImplementsMessageStream == Stream!Spec

Over == fault # "none" \/ at = "left"

\* Every message of which all bytes were sent is passed, if its connection is
\* not reset: it never stays in strMsg or in the socket for good.
EverythingArrives ==
    \A i \in 1 .. MaxMessages :
        i <= Len(sent) /\ sent[i].to <= written
            ~> next > i \/ link = "reset" \/ Over

\* The receiving loop comes back to select() and to its other peers while the
\* connection is up.
BackToSelect == at # "select" ~> at = "select" \/ link # "open" \/ Over

=============================================================================
