-------------------------- MODULE DirectConNetwork --------------------------
(***************************************************************************)
(* One oocl::DirectConNetwork: a connection to one other program, the      *)
(* threads that execute its run(), and the application that connects,      *)
(* sends, disconnects, and changes the list of listeners.  The class has   *)
(* no mutex.  connect() may be called again, which replaces the sockets    *)
(* and starts one more thread, whether the last one has ended or not.      *)
(*                                                                         *)
(* listen() never succeeds, as ServerSocket::accept() returns NULL.        *)
(***************************************************************************)
EXTENDS Naturals, SequencesExt

CONSTANTS
    Nets,         \* the threads that start() may create
    Listeners,
    Calls,        \* the methods that the program calls, from one thread
    MaxConnects,  \* bound on the calls of connect() that create sockets
    MaxSaid       \* bound on the messages of the other program

Methods == {"connect", "listen", "sendMessage", "disconnect", "register",
            "unregister", "destroy"}
Conns == 1 .. MaxConnects
Messages == 1 .. MaxSaid
Receiving == {"tcp", "udp"}

ASSUME CallsSubset == Calls \subseteq Methods
ASSUME BoundsAssumption == MaxConnects \in Nat /\ MaxSaid \in Nat

VARIABLES
    connected,  \* m_bConnected
    conn,       \* which connection the three socket pointers belong to; 0: none
    sock,       \* the receiving sockets of each connection that are open
    listeners,  \* m_lListeners
    app,        \* where the application is: in connect(), or in no method
    thread,     \* each network thread: where it is (at), its selectSet (conn,
                \* ready), strMsg (batch, and whether the last message in it is
                \* cut), pMsg and the socket it came from (msg, via), lWaitList
    fault,      \* "none", or the undefined behaviour the program ran into
    stream,     \* what the other program sent over TCP and is not read
    datagrams,  \* what it sent over UDP and is not read
    eof,        \* the connections that it closed, or that were lost
    goodbyes,   \* the messages that are DisconnectMessages
    said,       \* the number of its messages
    pumped,     \* the messages that were given to a broker
    freed,      \* those of them that the broker has deleted
    \* history:
    got,        \* the messages of the TCP socket that each listener accepted
    since,      \* the last message of that socket before it was registered
    handled     \* the messages of that socket that are done

members == <<connected, conn, sock, listeners>>
arrived == <<stream, datagrams, eof, goodbyes, said>>
broker  == <<pumped, freed>>
history == <<got, since, handled>>
vars == <<members, app, thread, fault, arrived, broker, history>>

Thread ==
    [at : {"unborn", "enter", "while", "select", "read", "parse", "copy", "call",
           "udp", "ended"},
     conn : 0 .. MaxConnects, ready : SUBSET Receiving,
     batch : Seq(Messages), cut : BOOLEAN,
     msg : 0 .. MaxSaid, via : Receiving, wait : Seq(Listeners)]

TypeOK ==
    /\ connected \in BOOLEAN
    /\ conn \in 0 .. MaxConnects
    /\ sock \in [Conns -> SUBSET Receiving]
    /\ listeners \in Seq(Listeners)
    /\ app \in {"idle", "sockets", "start", "done"}
    /\ thread \in [Nets -> Thread]
    /\ fault \in {"none", "nullSocket", "outOfRange", "racedList",
                  "freedMessage", "freedNetwork"}
    /\ stream \in [Conns -> Seq(Messages)]
    /\ datagrams \in [Conns -> SUBSET Messages]
    /\ eof \subseteq Conns
    /\ {goodbyes, pumped, freed, handled} \subseteq SUBSET Messages
    /\ said \in 0 .. MaxSaid
    /\ got \in [Listeners -> Seq(Messages)]
    /\ since \in [Listeners -> 0 .. MaxSaid]

Init ==
    /\ connected = FALSE /\ conn = 0
    /\ sock = [c \in Conns |-> {}]
    /\ listeners = << >>
    /\ app = "idle"
    /\ thread = [n \in Nets |->
          [at |-> "unborn", conn |-> 0, ready |-> {}, batch |-> << >>,
           cut |-> FALSE, msg |-> 0, via |-> "tcp", wait |-> << >>]]
    /\ fault = "none"
    /\ stream = [c \in Conns |-> << >>]
    /\ datagrams = [c \in Conns |-> {}]
    /\ eof = {} /\ goodbyes = {} /\ said = 0
    /\ pumped = {} /\ freed = {} /\ handled = {}
    /\ got = [l \in Listeners |-> << >>]
    /\ since = [l \in Listeners |-> 0]

Registered == Range(listeners)

-----------------------------------------------------------------------------
(* The application. *)

MayCall(method) == fault = "none" /\ app = "idle" /\ method \in Calls

\* m_bConnected is set before there is a connection: a thread of the last one
\* that has not looked at it in between goes on.
Connect ==
    /\ MayCall("connect")
    /\ ~connected /\ conn < MaxConnects
    /\ connected' = TRUE
    /\ app' = "sockets"
    /\ UNCHANGED <<conn, sock, listeners, thread, fault, arrived, broker, history>>

Sockets ==
    /\ fault = "none" /\ app = "sockets"
    /\ conn' = conn + 1
    /\ \E ok \in BOOLEAN :
          /\ sock' = [sock EXCEPT ![conn'] = IF ok THEN Receiving ELSE {}]
          /\ connected' = (connected /\ ok)
    /\ app' = "start"
    /\ UNCHANGED <<listeners, thread, fault, arrived, broker, history>>

\* start() fails when no thread can be created.
NewThread ==
    \E n \in Nets :
        /\ thread[n].at = "unborn"
        /\ thread' = [thread EXCEPT ![n].at = "enter"]
NoThread == (\A n \in Nets : thread[n].at # "unborn") /\ UNCHANGED thread

\* Writing to a lost connection may close the TCP socket.  What is sent over one
\* that is not lost is left out.
Write ==
    sock' \in {sock} \cup
        (IF conn \in eof THEN {[sock EXCEPT ![conn] = @ \ {"tcp"}]} ELSE {})

\* m_bConnected is read again.
Start ==
    /\ fault = "none" /\ app = "start"
    /\ IF connected THEN Write /\ (NewThread \/ NoThread)
                    ELSE UNCHANGED <<sock, thread>>
    /\ app' = "idle"
    /\ UNCHANGED <<connected, conn, listeners, fault, arrived, broker, history>>

\* A blocking call uses what accept() returns, the other leaves that to run().
Listen ==
    /\ MayCall("listen")
    /\ ~connected
    /\ \/ fault' = "nullSocket" /\ UNCHANGED thread
       \/ (NewThread \/ NoThread) /\ UNCHANGED fault
    /\ UNCHANGED <<members, app, arrived, broker, history>>

SendMessage ==
    /\ MayCall("sendMessage")
    /\ connected /\ conn # 0
    /\ Write
    /\ UNCHANGED <<connected, conn, listeners, app, thread, fault, arrived, broker,
                   history>>

CloseAll ==
    /\ connected' = FALSE
    /\ sock' = [sock EXCEPT ![conn] = {}]
    /\ UNCHANGED <<conn, listeners, thread, arrived, broker, history>>

Disconnect ==
    /\ MayCall("disconnect")
    /\ conn # 0
    /\ CloseAll
    /\ UNCHANGED <<app, fault>>

\* The pointers are not set before the first connect(), nor by listen().
DisconnectNothing ==
    /\ MayCall("disconnect") \/ MayCall("destroy")
    /\ conn = 0
    /\ fault' = "nullSocket"
    /\ UNCHANGED <<members, app, thread, arrived, broker, history>>

\* The destructor disconnects, and does not wait for the network thread.
Destroy ==
    /\ MayCall("destroy")
    /\ conn # 0
    /\ CloseAll
    /\ app' = "done"
    /\ UNCHANGED fault

\* A thread that copies the list while it is changed has undefined behaviour.
ChangeListeners(new) ==
    /\ IF \E n \in Nets : thread[n].at = "copy"
          THEN fault' = "racedList" /\ UNCHANGED listeners
          ELSE listeners' = new /\ UNCHANGED fault
    /\ UNCHANGED <<connected, conn, sock, app, thread, arrived, broker, got, handled>>

\* The messages of the TCP socket that were, or are being, given to listeners.
Begun == handled \cup {thread[n].msg : n \in
             {k \in Nets : thread[k].at = "call" /\ thread[k].via = "tcp"}}

\* Fault: NULL, which is 0 here, is not refused.
RegisterNull(l) ==
    /\ MayCall("register")
    /\ ChangeListeners(Append(listeners, 0))
    /\ UNCHANGED since

\* A program registers a listener that is not on the list.
Register(l) ==
    /\ MayCall("register") /\ l \notin Registered
    /\ ChangeListeners(Append(listeners, l))
    /\ since' = [since EXCEPT ![l] =
                     IF Begun = {} THEN 0
                     ELSE CHOOSE m \in Begun : \A k \in Begun : k <= m]

\* The first entry of the listener is erased.
Unregister(l) ==
    /\ MayCall("unregister")
    /\ \E i \in DOMAIN listeners :
          /\ listeners[i] = l /\ \A j \in 1 .. i - 1 : listeners[j] # l
          /\ ChangeListeners(RemoveAt(listeners, i))
    /\ UNCHANGED since

Program ==
    \/ Connect \/ Sockets \/ Start \/ Listen \/ SendMessage
    \/ Disconnect \/ DisconnectNothing \/ Destroy
    \/ \E l \in Listeners : Register(l) \/ Unregister(l)

-----------------------------------------------------------------------------
(* run(), executed by each thread that start() created. *)

At(n, label) == fault = "none" /\ app # "done" /\ thread[n].at = label
Goto(n, label) == thread' = [thread EXCEPT ![n].at = label]

\* accept() returns NULL; and there may be no sockets yet.
Enter(n) ==
    /\ At(n, "enter")
    /\ IF connected /\ conn # 0
          THEN Goto(n, "while") /\ UNCHANGED fault
          ELSE fault' = "nullSocket" /\ UNCHANGED thread
    /\ UNCHANGED <<members, app, arrived, broker, history>>

While(n) ==
    /\ At(n, "while")
    /\ Goto(n, IF connected THEN "select" ELSE "ended")
    /\ UNCHANGED <<members, app, fault, arrived, broker, history>>

\* What read() would return from, with data or without.
Readable(c) ==
    {s \in Receiving :
        \/ s = "tcp" /\ (stream[c] # << >> \/ c \in eof \/ s \notin sock[c])
        \/ s = "udp" /\ datagrams[c] # {}}

Select(n) ==
    /\ At(n, "select")
    /\ \/ Goto(n, "while")
       \/ /\ Readable(conn) # {}
          /\ thread' = [thread EXCEPT ![n].at = "read", ![n].conn = conn,
                                      ![n].ready = Readable(conn)]
    /\ UNCHANGED <<members, app, fault, arrived, broker, history>>

Ready(n, s) == s \in thread[n].ready /\ thread[n].conn = conn

\* read() takes some of what has arrived; it waits while nothing has, and fails
\* when the socket is closed or the connection lost.
Read(n) ==
    /\ At(n, "read")
    /\ IF Ready(n, "tcp") /\ "tcp" \in sock[conn] /\ stream[conn] # << >>
          THEN \E k \in 1 .. Len(stream[conn]), part \in BOOLEAN :
                  /\ thread' = [thread EXCEPT ![n].at = "parse", ![n].cut = part,
                                   ![n].batch = SubSeq(stream[conn], 1, k)]
                  /\ stream' = [stream EXCEPT ![conn] = SubSeq(@, k + 1, Len(@))]
          ELSE /\ Ready(n, "tcp") /\ "tcp" \in sock[conn] => conn \in eof
               /\ Goto(n, "udp")
               /\ UNCHANGED stream
    /\ UNCHANGED <<members, app, fault, datagrams, eof, goodbyes, said, broker,
                   history>>

\* Fault: the sockets stay open.
GoodbyeOpen(m) ==
    /\ connected' = (connected /\ m \notin goodbyes)
    /\ UNCHANGED sock

\* A DisconnectMessage is noticed before the listeners hear of it.
NoteGoodbye(m) ==
    /\ connected' = (connected /\ m \notin goodbyes)
    /\ sock' = [sock EXCEPT ![conn] = IF m \in goodbyes THEN {} ELSE @]

\* substr() throws for a message that is not complete.
Parse(n) ==
    LET b == thread[n].batch IN
    /\ At(n, "parse")
    /\ IF thread[n].cut /\ Len(b) = 1
          THEN fault' = "outOfRange" /\ UNCHANGED <<connected, sock, thread>>
          ELSE /\ UNCHANGED fault
               /\ IF b = << >>
                     THEN Goto(n, "udp") /\ UNCHANGED <<connected, sock>>
                     ELSE /\ NoteGoodbye(Head(b))
                          /\ thread' = [thread EXCEPT ![n].at = "copy",
                                ![n].batch = Tail(b), ![n].msg = Head(b),
                                ![n].via = "tcp"]
    /\ UNCHANGED <<conn, listeners, app, arrived, broker, history>>

\* Fault: the message is given to the broker before the listeners.
CopyAndPump(n) ==
    /\ At(n, "copy")
    /\ thread' = [thread EXCEPT ![n].at = "call", ![n].wait = listeners]
    /\ pumped' = pumped \cup {thread[n].msg}
    /\ UNCHANGED <<members, app, fault, arrived, freed, history>>

Copy(n) ==
    /\ At(n, "copy")
    /\ thread' = [thread EXCEPT ![n].at = "call", ![n].wait = listeners]
    /\ UNCHANGED <<members, app, fault, arrived, broker, history>>

\* cbMessage() of the listener whose turn it is.
Asks(n) == At(n, "call") /\ thread[n].wait # << >>

AskFreed(n) ==
    /\ Asks(n) /\ thread[n].msg \in freed
    /\ fault' = "freedMessage"
    /\ UNCHANGED <<members, app, thread, arrived, broker, history>>

\* Fault: it is asked again although it has accepted.
AcceptTwice(n) ==
    LET l == Head(thread[n].wait) IN
    /\ Asks(n) /\ thread[n].msg \notin freed
    /\ thread' = [thread EXCEPT ![n].wait = Append(Tail(@), l)]
    /\ got' = [got EXCEPT ![l] = Append(@, thread[n].msg)]
    /\ UNCHANGED <<members, app, fault, arrived, broker, since, handled>>

Accept(n) ==
    LET l == Head(thread[n].wait) IN
    /\ Asks(n) /\ thread[n].msg \notin freed
    /\ thread' = [thread EXCEPT ![n].wait = Tail(@)]
    /\ got' = IF thread[n].via = "tcp"
                 THEN [got EXCEPT ![l] = Append(@, thread[n].msg)] ELSE got
    /\ UNCHANGED <<members, app, fault, arrived, broker, since, handled>>

\* Fault: it is not asked again.
Forget(n) ==
    /\ Asks(n) /\ thread[n].msg \notin freed
    /\ thread' = [thread EXCEPT ![n].wait = Tail(@)]
    /\ UNCHANGED <<members, app, fault, arrived, broker, history>>

Refuse(n) ==
    /\ Asks(n) /\ thread[n].msg \notin freed
    /\ thread' = [thread EXCEPT ![n].wait = Append(Tail(@), Head(@))]
    /\ UNCHANGED <<members, app, fault, arrived, broker, history>>

\* A message of the TCP socket is pumped now, a datagram was before.
Pump(n) ==
    LET tcp == IF thread[n].via = "tcp" THEN {thread[n].msg} ELSE {} IN
    /\ At(n, "call") /\ thread[n].wait = << >>
    /\ pumped' = pumped \cup tcp
    /\ handled' = handled \cup tcp
    /\ Goto(n, IF tcp # {} THEN "parse" ELSE "while")
    /\ UNCHANGED <<members, app, fault, arrived, freed, got, since>>

Udp(n) ==
    /\ At(n, "udp")
    /\ IF Ready(n, "udp") /\ "udp" \in sock[conn]
          THEN \E m \in datagrams[conn] :
                  /\ datagrams' = [datagrams EXCEPT ![conn] = @ \ {m}]
                  /\ pumped' = pumped \cup {m}
                  /\ thread' = [thread EXCEPT ![n].at = "copy", ![n].msg = m,
                                              ![n].via = "udp"]
          ELSE Goto(n, "while") /\ UNCHANGED <<datagrams, pumped>>
    /\ UNCHANGED <<members, app, fault, stream, eof, goodbyes, said, freed, history>>

UseFreedNetwork(n) ==
    /\ fault = "none" /\ app = "done"
    /\ thread[n].at \notin {"unborn", "ended"}
    /\ fault' = "freedNetwork"
    /\ UNCHANGED <<members, app, thread, arrived, broker, history>>

Run(n) ==
    \/ Enter(n) \/ While(n) \/ Select(n) \/ Read(n) \/ Parse(n) \/ Copy(n)
    \/ AskFreed(n) \/ Accept(n) \/ Refuse(n) \/ Pump(n) \/ Udp(n)
    \/ UseFreedNetwork(n)

-----------------------------------------------------------------------------
(* The other program, and the broker that messages are given to. *)

\* A program that says goodbye then closes its end of the connection.
Say(c, goodbye) ==
    /\ "tcp" \in sock[c] /\ c \notin eof
    /\ said < MaxSaid
    /\ said' = said + 1
    /\ stream' = [stream EXCEPT ![c] = Append(@, said')]
    /\ IF goodbye THEN goodbyes' = goodbyes \cup {said'} /\ eof' = eof \cup {c}
                  ELSE UNCHANGED <<goodbyes, eof>>
    /\ UNCHANGED datagrams

\* A datagram may come in when its sender is gone.
SayUdp(c) ==
    /\ "udp" \in sock[c]
    /\ said < MaxSaid
    /\ said' = said + 1
    /\ datagrams' = [datagrams EXCEPT ![c] = @ \cup {said'}]
    /\ UNCHANGED <<stream, eof, goodbyes>>

Lose(c) ==
    /\ "tcp" \in sock[c] /\ c \notin eof
    /\ eof' = eof \cup {c}
    /\ UNCHANGED <<stream, datagrams, goodbyes, said>>

Remote ==
    /\ fault = "none"
    /\ \E c \in Conns : (\E goodbye \in BOOLEAN : Say(c, goodbye)) \/ SayUdp(c) \/ Lose(c)
    /\ UNCHANGED <<members, app, thread, fault, broker, history>>

BrokerDeletes(m) ==
    /\ fault = "none"
    /\ m \in pumped \ freed
    /\ freed' = freed \cup {m}
    /\ UNCHANGED <<members, app, thread, fault, arrived, pumped, history>>

Over ==
    /\ \/ fault # "none"
       \/ app \in {"idle", "done"} /\ \A n \in Nets : thread[n].at \in {"unborn", "ended"}
    /\ UNCHANGED vars

Next ==
    \/ Program
    \/ \E n \in Nets : Run(n)
    \/ Remote
    \/ \E m \in Messages : BrokerDeletes(m)
    \/ Over

Spec == Init /\ [][Next]_vars

-----------------------------------------------------------------------------
(* Properties.  They hold until the program runs into undefined behaviour. *)

\* DirectConNetwork.cpp:188: a listener that is registered accepts every message
\* of the TCP socket that comes after that, refusals of it and of others, and
\* changes of the list in the middle of a delivery notwithstanding (325-333).
FurtherMessages ==
    \A l \in Registered : \A m \in handled :
        m > since[l] => m \in Range(got[l])

\* No listener accepts a message of the TCP socket twice, or after a later one
\* (DirectConNetwork.cpp:325-331).  It is for programs that do not register a
\* listener that is registered already, which registerListener() would do.
OnceInOrder ==
    \A l \in Listeners : \A i, j \in DOMAIN got[l] : i < j => got[l][i] < got[l][j]

\* A listener is not called with a message of the TCP socket that a broker has
\* deleted (the order of 325-331 and 333; it is the other way round at 346-354).
CalledAlive ==
    \A n \in Nets : thread[n].at = "call" /\ thread[n].via = "tcp"
                       => thread[n].msg \notin freed

\* In a program that connects once, no message is given to a broker after a
\* DisconnectMessage, not even a datagram that select() reported together with it
\* (316-323, 337-340).
SilentAfterGoodbye ==
    [][pumped \cap goodbyes # {} => pumped' = pumped]_vars

=============================================================================
