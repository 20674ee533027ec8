# oocl in TLA+

This directory holds a formal model of oocl, the object oriented communication
library: TLA+ modules, the TLC runs that check them on small instances, and
theorems that TLAPS proves for every instance.  Line numbers refer to the
sources of this repository; `MessageBroker.cpp:118` is line 118 of
`src/src/MessageBroker.cpp`.

## 1. The system

oocl moves `Message` objects between the threads of a program, and between
programs.  Nothing in it is transactional or persistent; what is hard is that
almost every object is used by several threads, that some state is guarded by
mutexes and some is not, and that sockets fail at any time.

| component | state | operations | who calls it |
|---|---|---|---|
| MessageBroker | queue, list of listeners, exclusive listener, three flags, three mutexes, its own thread | pumpMessage, (un)registerListener, request/discardExclusiveMessaging, four mode setters, run, deliverMessage | every thread of the program; the networks pump what they receive; its worker calls the listeners |
| Thread, Mutex | m_bActive and the handle; m_bLocked and the native mutex | start, join, sleep; lock, try_lock, unlock | the broker and both networks are Threads; every guarded object has Mutexes |
| Message, ExplicitMessages | the registry of message types; type, length and body of a message | registerMsg, createFromString, getMsgString, getBodyLength | networks and peers |
| Peer | connection status, two sockets, the subscribed types, m_bActive, m_mxSockets | connect, connected, disconnect, sendMessage, receiveMessage, cbMessage, isConnected | the network thread, the application, and brokers (a Peer is a listener of the types the remote side subscribed) |
| Peer2PeerNetwork | the list and the map of peers, sockets without a peer, m_mxPeers, its thread | addPeer, subPeer, disconnect, getPeerByID, run | application and its own thread |
| DirectConNetwork | three sockets, m_bConnected, a list of listeners, its thread | connect, listen, disconnect, sendMessage, (un)registerListener, run | application and its own thread |
| BerkeleySocket, ServerSocket, SecureSocket | file descriptor, m_bValid, m_bConnected / m_bBound | connect, bind, accept, read, write, close | peers and networks |
| Log | m_strLogText, m_ssLogStream, level, m_bFlushing, the map of logs | logMessage and its variants, operator <<, endl, flush, setLogLevel | everything, from any thread, without a mutex |
| demos, oocl_import_export.h | | | not part of the library's logic |

What makes each of them correct:

* **MessageBroker**: a queued message is handed once to every registration, in
  the order of the queue, and deleted after that and not before; a listener
  that was unregistered is not called; a refusal delays a message, it does not
  lose it; the broker comes to rest only with an empty queue; an exclusive
  listener is alone.
* **Peer / Peer2PeerNetwork**: the list and the map hold the same peers, and
  only peers that exist; a peer that disconnected receives nothing more and is
  no broker's listener; the network thread always gets back to its select().
* **Framing** (the two loops that cut a TCP stream into messages): messages
  come out once, whole and in order, however the stream is segmented.
* **DirectConNetwork**: connected means that the handshake is over; after a
  DisconnectMessage nothing is sent.
* **Log**: a line that was logged is in the file once, the lines of one thread are
  in order, and endl returns.

## 2. The plan

In the order of importance.  Modules marked (done) exist.

1. `OrderedDelivery` (done), what the users of a broker are promised;
   `MessageBroker` (done), the code; `MCMessageBroker` (done), the programs it
   is checked with; `OrderedDelivery_proofs`, `MessageBroker_proofs` and
   `MessageBroker_listeners_proofs` (done).
2. `Peer2PeerNetwork` and `MCPeer2PeerNetwork` (done): the network thread, peers,
   the application and the worker of a broker over the list, the map, m_mxPeers
   and each m_mxSockets; starting and joining the thread.  Still to do: the tests
   for a NULL socket outside of m_mxSockets as steps of their own; two peers with
   one ID in a run.  `Peer2PeerNetwork_proofs` (done), all of its safety properties.
3. `DirectConNetwork` and `MCDirectConNetwork` (done): connecting, listening,
   the list of listeners, the receiving loop, disconnecting by either side;
   `DirectConNetwork_proofs` (done), all of its properties.
4. `MessageStream` (done), what the receiver of a connection is promised;
   `TcpFraming` (done), the bytes: sending by several threads, packets, the
   registry of types and the two receiving loops; `MCTcpFraming` (done),
   `MessageStream_proofs` and `TcpFraming_proofs` (done).
5. `Log` and `MCLog` (done): several threads that log lines and chains, with
   levels and endl; `Log_proofs` (done), its invariants.
6. A composition of `MessageBroker` and the networks: who deletes the message
   that a network pumped and still reads (`Peer2PeerNetwork.cpp:388`), and the
   order of NewPeerMessage and the messages of that peer.

## 3. MessageBroker

### State and actions

`MessageBroker.tla` is one broker.  Its variables are the members of the class
(`MessageBroker.h:76-87`), the owner of each mutex, and for each thread the
place in the code (`pc`) and its locals (`msg`, `arg`, `wait`, `more`).  Seven
history variables (`fresh`, `pushed`, `popped`, `freed`, `got`, `since`,
`holders`) record what happened; no guard but "pump a fresh message" reads one.

An action is a step between two accesses to shared state.  The three flags and
the exclusive pointer are read and written without a lock, so each access to
them is a step.  What happens under a mutex that nobody can be inside of
(pushing, registering) is one step that waits for the mutex.  `TakeFront` to
`Pop` is the part of run() that holds m_mxQueue across the callbacks.

| code | actions |
|---|---|
| pumpMessage 104-125 | PumpMessage, IfSynchronous, Push, IfRunThread, Start |
| register / unregisterListener 72-96 | RegisterListener, UnregisterListener |
| request / discardExclusiveMessaging 135-169 | RequestExclusive, Grant; DiscardExclusive, Discard |
| mode setters 177-211 | EnableContinuous, DisableContinuous, EnableSynchronous, WriteSynchronous |
| run 217-243 | Enter, While, Await, TakeFront, Pop, Delete, IfEmpty, Quit |
| deliverMessage 251-282 | Deliver, IfListeners, ElseExclusive, LockListener, Accept, Refuse, UnlockListener, LockExclusive, AcceptExclusive |

`fault` records undefined behaviour the program has run into: front() of an
empty queue, or a call through a NULL exclusive listener.  Nothing is claimed of
what happens next, so the model stops there; the runs that ask for the absence
of a fault name it.

`OrderedDelivery.tla` is the promise: a queue of submitted messages of which the
oldest one is given to listeners and then completed.  `MessageBroker` implements
it under the mapping submitted = `pushed`, completed = `popped`, got = `got`.

Simplifications, all of them named in the module: threads interleave (no weak
memory effects on the unsynchronised flags); an address is pumped once; the
number of workers a program can create is bounded by `Workers`, and start()
then returns false, which the code ignores (line 121); the list of listeners is
bounded by `MaxRegistrations`; a callback does not call back into the same
broker (it would wait for a mutex its own thread holds).  Not modelled:
getBrokerFor, whose map of brokers is not synchronised, and the private
destructor, which nothing calls.

### Runs

All use two application threads, two workers, two listeners and two messages.
Two messages are needed for order, two workers for every race that needs a
second one; the second listener is the one that is skipped, called too late, or
starved.  A third of any of them adds no new kind of interleaving and takes the
runs from seconds to hours.

| run | program | shows |
|---|---|---|
| broker_broadcast | both pump, one changes the list of listeners | types; a worker pops what it delivered; nothing is used after it was deleted; each registration accepts a message once; only registered listeners are called; nobody who stayed on the list is skipped |
| broker_modes | one pumps and switches modes, one takes and gives back exclusiveness | mutexes are owned where they should be; order; refinement of OrderedDelivery |
| broker_continuous | continuous processing on from the start, one thread pumps, one changes the list | one worker only; every queued message is delivered and deleted; a listener that always refuses starves nobody |
| v_broker_front | one thread pumps | front() of an empty queue, against the comments at 223 and 227 |
| v_broker_stranded | one thread pumps | a message that is never delivered, against line 100 |
| v_broker_exclusive | one pumps, one requests exclusiveness | somebody else gets a message after the request was granted, against line 129 |

Deadlock is checked in all of them; `Idle` is the step of a program that calls
nothing more while its workers have ended or wait for a message.

Fairness (`Fairness`): a thread of the program that is inside pumpMessage, and
every worker, continues when it can; a listener that is asked answers.  This is
what a preemptive scheduler and callbacks that return give.  There is no
fairness for application calls, for the choice of a listener to accept, or for
which of several threads gets a mutex.  A liveness property says in its
antecedent which listeners are patient, that is, accept when they are asked
again and again.

Each property is also run against a faulty version of one definition (the
operators marked "Fault" in the module) that it must catch: a lock that does not
lock, a queue used from the wrong end, a refusal that forgets.

### Proofs

`MessageBroker_proofs.tla` proves, for any number of threads, workers, listeners
and messages, that `TypeOK`, `LockDiscipline`, `PopsWhatItDelivers`,
`OnlyRegisteredCalled` and `NoUseAfterDelete` hold of every reachable state,
that `Spec` implements `OrderedDelivery`, and hence `InOrder`.

The argument is one inductive invariant, `IInv`, proved preserved action by
action.  Besides the types and the mutexes it needs: where in the code a thread
has a message and where not; that a wait list is contained in the list of
listeners while m_mxListener is held; and the life of a message -- it is fresh,
with one pumping thread, in the queue, with one worker after pop, or deleted,
and in no two of these, and the queue is exactly the part of `pushed` after
`popped`.  Without the last part NoUseAfterDelete is not inductive: nothing
would say that the message a worker deletes is not still queued.
`OrderedDelivery_proofs.tla` proves `InOrder` of the abstract specification; the
refinement carries it over.

The assumptions are the named ASSUMEs of the modules: thread names are disjoint,
NULL is none of the objects, and the constants have their types.

`MessageBroker_listeners_proofs.tla` goes on from there, to what a listener gets.

* `OncePerRegistration`, with no hypothesis: while a message is handed round, a
  listener is on the list as often as it is on the wait list and has accepted the
  message together.  It counts, so the lemmas say what appending, taking the head
  and moving the head to the end do to the number of copies in a sequence.  The
  invariant adds that nobody has accepted a message whose broadcast has not begun
  (`Untouched`), which makes the equation true when it begins.
* `NoListenerSkipped` for programs that never request exclusive messaging
  (`NeverExclusive`).  This is the promise of broadcasting; an exclusive listener
  is alone by intention.  The invariant says of a worker that is about to pop
  that all who were registered when the message was queued have it
  (`ReadyToPop`).
* `OneWorker` for programs that pump from one thread and switch continuous
  processing on before it (`OnePump`), the program of broker_continuous.  With
  two pumping threads it is false also with continuous processing: both may find
  m_bRunThread false and start a worker (`MessageBroker.cpp:118-122`).

Both hypotheses are about which methods a program calls, and the programs of the
runs that check these properties satisfy them.  Only model-checked: liveness,
which is out of the prover's reach.

## 4. Peer2PeerNetwork and Peer

### State and actions

`Peer2PeerNetwork.tla` is one network, its Peers, and the worker of one broker
whose type peers may subscribe.  A method of a Peer runs on any of the threads,
so its steps (`PeerStep`) take the thread as a parameter: `cur[t]` is the Peer
the thread works on and `stack[t]` the places it returns to, since ~Peer() calls
disconnect(), which sends, and run() calls all of them.

| code | actions |
|---|---|
| Peer::sendMessage, connectSockets, isConnected 239-345, 417-430 | Send, Reconnect, Recheck, Write |
| Peer::disconnect, ~Peer 64-77, 208-232 | Delete, Unregister, Drop, Free |
| Thread::start, join 49-61, 128-141 | Enter, EnterFreed, Join |
| addPeer, connectAndInsertPeer, Peer::connect | AddPeer, Insert |
| subPeer 106-116 | SubPeer (getPeerByID, 108), EraseID (111), Remove (112, and the call of the destructor, 114) |
| disconnect, sendMessage to a peer, the destructor | Disconnect, Clear, SendMessage, Destroy, Join |
| run 257-315, the first loop and select() | While, Prune, PruneErase, Unlock, Select |
| run 318-337, a datagram | UdpFind, UdpReceive |
| run 339-400, the second loop; Peer::receiveMessage | LockScan, Scan, Read, ReadFailed, ScanErase, HandleData, HandleSubscribe, HandleGoodbye, Goodbye |
| deliverMessage of the broker, Peer::cbMessage | Broadcast, NextTarget |
| the remote programs | Say, CloseSilently, Break |

What the C++ leaves undefined ends the model: `fault` becomes "freedPeer" when a
thread is about to use a deleted Peer, "lostIterator" when the list loses the
element a thread iterates at, "freedNetwork" when the new thread gets to its first
instruction after the destructor, whose join() did not wait for it, has ended
(`Thread.cpp:51` with `136`).  `Over` is then the only step; every
property speaks of the time before.  `++it` at the end of the list (line 270) is
modelled as libstdc++ does it: the list is circular.

subPeer() holds no mutex, so all other threads act between its lines, and two
threads that have both found a Peer remove and delete it both.  One call of a
method of a list or map is one step; two that overlap are not in the model.

Simplifications.  ServerSocket::accept() returns NULL because bind() never sets
m_bBound (`ServerSocket.cpp:54-86`), so m_lpSocketsWithoutPeers stays empty and
nobody connects to this network; run() 402-457 and Peer::connected() are dead
code.  connect() of a new Peer is one step: nobody else has the pointer.  If it
fails the object is lost, and nothing is left to say about it.  A message
arrives whole; `TcpFraming` is about its bytes.  A test for a NULL socket is one step with the section under
m_mxSockets that follows.  What a peer sends is data, a subscription or a
goodbye; a program says goodbye last and closes its socket.  What is written to
it after that may be answered with a reset.  A peer of which this is to happen is
one of `Unreliable`, like one whose connection breaks before, so "its connection
does not fail" below excludes both.

### Runs

Two peers, of which p1 has a connection that holds and p2 one that may break,
end silently or answer connect() with something else ("Unreliable").  Two are
what the loops can confuse: one is erased, the other one is skipped.  p1 sends
up to three messages: one before the goodbye, the goodbye, and a late datagram.

| run | program | shows |
|---|---|---|
| network | one application thread calls every method; 1.8 million states | types; the list holds each peer once and only peers that exist; the map and the broker agree with it, in both directions, for peers whose connection holds, except that a peer is on the list alone while subPeer() is between lines 111 and 112; no such peer is deleted inside a callback; nothing is delivered after a goodbye |
| network_live | peers are added, then the network is destroyed; p1 subscribes and says goodbye | a goodbye is heard and a broken connection is dropped, although the first loop skips peers; the network thread comes back to select(); the destructor ends; no thread uses a deleted Peer |
| v_network_stuck | one thread sends, one disconnects | m_mxSockets is left locked and disconnect() waits for ever, against line 120 |

In network_live the peer whose connection breaks does not subscribe, and the
application sends it nothing.  With either of them Peer::sendMessage() may connect
the socket again after select() and before read(); that read may never end, and
NetGoesOn and the other liveness properties do not hold.  To see it, let p2 say
"subscribe" in FirstEnds.  That is a finding, and network_live says what holds
without it.  So BrokenIsDropped and NetGoesOn say nothing of a send that reconnects
(`Peer.cpp:307`), nor DestructorEnds of the m_mxSockets that sendMessage() may leave
locked, which is the subject of v_network_stuck.

The exception in ReliableConsistent is needed: TLC finds a state without it, with
m_mxPeers free.  TLC agreed with the five properties of the run network also on
two threads of which both call subPeer(), for the same peer too (6.2 million
states, not one of the runs).

subPeer() locks nothing, a peer that has failed stays at its brokers when
it is deleted, and the map and a `Peer*` of the application are used without m_mxPeers,
so a program can easily reach a deleted Peer.  `KeepsToRules` says what keeps it
from that: it does not call subPeer(); a peer whose connection may fail only ever
says goodbye; and either disconnect() is not called and the application sends
only to peers whose connection holds, or it never sends to a single peer and no
peer sends data, hence no datagrams.  The documentation gives no such rules;
TLC reaches `fault` with two peers when any one of them is dropped.  The program of
network_live keeps to them; it has the broadcasts and the destructor, but no
sendMessage() and no datagrams.  For these there is the theorem below, and TLC
agreed with it on two threads that add peers, send and destroy the network
(1.6 million states), which is not one of the runs.

Fairness (`Fairness`): the network thread, a broadcast that has begun, and a
thread inside a method continue when they can.  Nothing is assumed of calls, of
the beginning of broadcasts, or of remote programs.  A program that broadcasts
again and again may keep m_mxListener from a thread that waits for it;
`MutexIsFair`, the antecedent of the liveness properties, excludes just this.

### Proofs

`Peer2PeerNetwork_proofs.tla` proves the six safety properties for any
application threads, whatever they call, any peers, any number of messages and
any `IDOf`, also one that gives two peers the same ID.  No property is inductive;
the proofs build one invariant on the other.

1. `TypeInv`: the types; `Control`, which names for each thread the shapes its
   stack can have at each label, so that the threads in a method are known to be
   inside a destructor (`Deletes`), a disconnect(false) (`Leaves`) or a
   sendMessage() (`Sends`), and which says that m_mxPeers belongs to the network
   thread inside its two loops and to an application thread inside disconnect(),
   and the mutex of the broker to its worker; and `Iterates`, that the iterator of
   the network thread is on the list while it holds the mutex.  The step that
   breaks the last one is subPeer() without the mutex, and `fault` records it.
2. `Births`: a Peer that addPeer() has created and not yet inserted is known to
   no other thread, list, map or broker, hence no Peer is inserted twice.
   `Deaths`: the Peer that an application thread deletes, once subPeer() has taken
   it off, is not on the list, and the one the network thread is at in its loops
   exists.  With both, `ListedExist` is
   inductive (`ListHoldsPeers`).
3. `Holding`, for peers whose connection does not fail: an active one is
   connected, and hence is never reconnected, pruned or dropped after a read;
   nothing but a call of the application or its goodbye ends it.  `ListedHold`,
   `ByKey` and `Listeners` are what follows for the list, the map and the broker.
   `Listeners` has the argument for callbacks: the worker is only inside peers
   that are registered, disconnect() unregisters when the worker is idle, and a
   subscription the network thread reads cannot come between unregistering and
   the end of the destructor, since a Peer that an application thread deletes is
   not on the list the network thread iterates over, or m_mxPeers is not free.
   `NobodyDeletesWhileCalled` and `ListMapAndBrokersAgree` rest on it.  `Erased`
   is for the steps of subPeer(): a Peer it has erased from the map does not come
   back there, since only addPeer() inserts, and each Peer once.  So an entry leads to
   a listed Peer also while threads are at line 112.
4. `GoodbyeInv`: a peer whose goodbye was delivered last is inactive, or the
   network thread is on its way to make it so (`SilenceAfterGoodbye`).

5. `RulesInv`, for programs that keep to the rules: `Said`, what is read from a
   connection is what its peer may say, hence no peer that may fail subscribes;
   `Deleters`, the thread in ~Peer() deletes a Peer that exists, as it holds
   m_mxPeers; and `Pointers`, as long as disconnect() is not called and the
   destructor has not joined the network thread, the peers whose connection holds
   are not deleted, and the threads that have a `Peer*` without m_mxPeers have
   it of one of those.  With the `Listeners` of 3 for the broker, no thread is at
   a deleted Peer (`NoUseAfterDelete`).

Why each of them is needed: a state in which the network thread executes ~Peer()
with its stack empty, or in which a Peer not yet inserted is on the list, has
successors that break every one of the properties, and only the invariants
exclude it.  TLC agreed with the five properties of the run network also, with one
message, on two application threads that call every method, with different IDs and
with one ID for both peers (3.4 and 4 million states, deadlock not checked because
of the mutex of v_network_stuck; not among the runs).

That the loops come to an end (GoodbyeIsHeard, BrokenIsDropped, DestructorEnds,
NetGoesOn) is liveness and model-checked only.

## 5. DirectConNetwork

`DirectConNetwork.tla` is one connection.  The class has no mutex at all.  The
application calls its methods from one thread (`Program`), each thread that
start() created executes run() (`Run`), and a broker deletes what it was given
whenever it likes (`BrokerDeletes`), as any listener of that broker may have
accepted it at once.

| code | actions |
|---|---|
| connect 55-83 | Connect, Sockets, Start |
| listen 93-135, run 247-268 | Listen, Enter |
| disconnect, destructor, sendMessage | Disconnect, DisconnectNothing, Destroy, SendMessage |
| (un)registerListener 194-227 | Register, Unregister |
| run 277-303 | While, Select, Read |
| run 305-334, the messages of the TCP socket | Parse, Copy, AskFreed, Accept, Refuse, Pump |
| run 337-355, a datagram | Udp, then Copy, AskFreed, Accept, Refuse, Pump |

Undefined behaviour and uncaught exceptions end the model in `fault`:
"nullSocket" (what accept() returns is dereferenced, or a pointer that no
constructor set is used), "outOfRange" (substr() beyond a message that was not
read completely), "racedList" (the list is changed while it is copied),
"freedMessage" (a listener is called with a datagram the broker has deleted),
"freedNetwork" (the destructor does not wait for the thread).

| run | program | shows |
|---|---|---|
| direct | one connection, two listeners, two messages, every method; 330,000 states | types; a registered listener accepts every message of the TCP socket that comes after its registration, once and in order, whoever refuses; a listener is called before a broker may delete the message; nothing is given to a broker after a goodbye |

registerListener() does not test whether a listener is registered already.  Such a
listener would get each message twice; `Register` is for programs that do not do
that, and so is OnceInOrder.

There is one network thread.  A program that connects again within the half
second of a select() has two, on the same sockets, and neither order nor silence
after a goodbye is left; the hazard at line 274 records it.  Two listeners are
enough for one to refuse while the other one has accepted, and two messages for
order and for a goodbye with a datagram in the same round.

### Proofs

`DirectConNetwork_proofs.tla` proves all five properties, for any number of
listeners, messages, connections and, for the first three, of network threads.

* `TypeOK` with `Control`: a thread is beyond the start of run() only when there
  are sockets, and holds messages only between parsing and the end of a delivery.
* `CalledAlive`: messages keep the order in which they were said (`Ordered`), and
  each is in one place -- unread in one stream or among the datagrams of one
  connection, in the hands of one thread, or pumped (`OnePlace`).  A message in
  the hands of a thread is therefore not pumped, and the broker deletes only what
  was.  That a datagram is pumped first (346-354) is why the property, and the
  proof, speak of the TCP socket alone.
* `FurtherMessages`: while a message is handed round, each registered listener
  has accepted it or is still on the thread's copy of the list (`Delivering`).
  The step that has to be looked at is registering in the middle of a delivery:
  the new listener is not on the copy, and `since` is the largest message begun.
* `OnceInOrder` when no second network thread is ever started (`OneThread`); two
  threads that each took a part of the stream deliver their parts independently.
  The invariant: no listener is on a list twice (`Lists`), what the thread holds
  comes before what is unread (`HandFirst`), and what a listener has accepted
  before both (`AcceptedBefore`).
* `SilentAfterGoodbye` for a program that connects once (`OnceConnected`).
  `LastWord` says how far a goodbye has come: it is the last message of the
  stream; once it is noticed the sockets are closed and nothing is unread; and
  once it is pumped the thread has nothing left in its hands.

The model of unregisterListener() erases the first entry of the list, by its
index, as the loop of the code does.

## 6. TcpFraming

### State and actions

`TcpFraming.tla` is one direction of a connection: the threads that send at one
end, and at the other the loop that cuts what it reads into messages, that of
Peer2PeerNetwork or that of DirectConNetwork (`loop`).  A byte is its offset.
`sent` holds the messages with their first byte and the one behind them;
`written`, `read` and `parsed` say how many bytes the sender has sent, and the
receiver has received and has cut off `strMsg`.  `registered` is the part of
sm_msgTypeList that is not NULL.  `next` and `got` are the first message at or
behind `parsed`, and what was delivered.

| code | actions |
|---|---|
| Peer::sendMessage 310-332, DirectConNetwork::sendMessage 162-185 | SendMessage; WriteBetween |
| BerkeleySocket::write 363-391, close | Write, one send() each; EndLink |
| ExplicitMessages.cpp: getMsgString, getBodyLength, create | StandardMessage, SubscribeMessage, ...; BodyLength, OverRead, NotCreated |
| Message::registerMsg 155-180 | RegisterMsg, Grown |
| BerkeleySocket::read 230-285 | Read, ReadReset, ReadNothing |
| Message::createFromString 127-143 | ParseUnknown, ParseGarbled, ParseRaced |
| Peer2PeerNetwork::run 363-396 | ParseEnd, Deliver, ReadMore, and the Read that follows it (ReadOn) |
| DirectConNetwork::run 305-334 | ParseEnd, Deliver, CutOff |

The faults are "mixed" (two threads of DirectConNetwork::sendMessage() mix their
bytes), "garbled" (bytes from the middle of a message are taken for a header;
what follows is arbitrary), "nullMessage" (their type is that of NewPeerMessage),
"outOfRange" (DirectConNetwork cuts a message off that is not there yet; the
exception ends the program), "overread" (create() copies a body that was not
received; the message is thrown away again, so the program may also go on, and
does in ReadMore) and "racedRegistry".

A DisconnectMessage is recognised by its header (388), so one that has not come as a
whole ends the loop, after the read() that all incomplete messages get (`at` is
"last" then).

`MessageStream.tla` is the promise: messages are delivered in order, and none is
passed over except from one on whose type has no create function, since the rest
of `strMsg` is then dropped.  The mapping is by name: sent, registered, next, got.

Simplifications: type numbers are below 256, so that one byte of a type and the
end of the string give the type; "Custom" stands for a type of the application
that is written like StandardMessage; a UDP datagram arrives whole or not at all
and is in the network modules.  SIGPIPE, which a send() to a closed connection
raises, is not modelled: the program ends.

### Run and bounds

framing: two senders, at most two messages, of a StandardMessage, a message of
the application and a DisconnectMessage; 350,000 states.  Header, Width, MaxRead
and Capacity are 2, 2, 4 and 4 instead of 4, 65536, 1024 and what the system
gives: a message is cut in its header, in its body and nowhere, two are in one
packet, the connection is full in the middle of a message, and the
StandardMessage of two bytes is too long for its length.  Two messages are
enough for one to be lost, mixed with, or mistaken for the other; that nothing
depends on these numbers is what the theorems say.

It shows that a delivered message is whole; that the receiver finds the starts
of messages until it drops one or one is too long; that this implements
MessageStream; that every message of which all bytes were sent is passed; and
that the loop comes back to select() while the connection is up.  When the
connection ends in the middle of a message it does not: read() fails, nothing is
added to `strMsg`, and the same bytes are parsed for ever (ReadNothing).

Fairness: the receiving thread runs, and send() returns as long as there is
room.  Undefined behaviour need not happen (`Undefined` has no fairness), and
nobody has to send or to end the connection.

### Proofs

`TcpFraming_proofs.tla` proves `TypeOK`, `WholeMessages`, `StaysInStep` and
`ImplementsMessageStream` for any senders, messages, sizes, moduli and
capacities, and with `MessageStream_proofs.tla` that messages are delivered in
order and at most once.  The inductive invariant `IInv` adds to the properties:
the messages lie behind each other without gaps and end at or behind `written`
(`Placed`); at most one sender is in the middle of a message, and what it has
left ends where the last message ends (`Writing`) -- without this a message
could begin where no header is; a delivered message is one that was sent, and
lies behind `next` (`Delivered`); and `parsed` is the start of the message
`next`, unless one was dropped or was too long (`Stepping`), which makes
`StaysInStep` inductive.  The assumptions are the named ASSUMEs of TcpFraming.
Only model-checked: EverythingArrives and BackToSelect, which are liveness.

## 7. Log

`Log.tla` is the log "oocl".  It has no mutex, so each access of a thread to
m_strLogText, m_ssLogStream, m_fsLogFile or m_bFlushing is a step.  A call is a
"line" (logMessage and its variants) or a "chain" (level, text, endl).  The file
and the two buffers are sequences of pieces, each with its thread and call.

| code | actions |
|---|---|
| getLog 58-69 | Call, Create |
| logMessage, logInfo, ... 126-223 | Call, AppendLine, WriteLine, ClearLine |
| operator << 260-439 | Prefix, Text |
| endl 463-483 | Spin, Enter, Test, Gather, Reset, WriteChain, ClearChain, Leave |
| flush 229-237 | WriteText, Clear |
| setLogLevel 248-251 | SetLogLevel |

When the next steps of two threads use the same string or stream, the outcome is
one of the two orders or the fault "raced".  Two threads that create the log at
once may both keep theirs ("twoLogs").  m_bFlushing is not atomic: a build that
optimizes may read it once and wait for ever, or drop the loop ("hoisted"); the
build of CMakeLists.txt does not optimize unless it is told to.

log: two threads, three calls, levels 0 and 2 with a threshold of 0 or 1; 560,000
states.  Three calls are needed for a chain that is suppressed, a second one that
finds its text in the stream, and a line in between.  It shows that a call that
overlapped no other is in the file once and in one piece; that the lines of each
thread keep their order whatever the others do; and that endl returns, since
whoever sets m_bFlushing resets it.  With no bound on the calls of the other
threads they could always be quicker than one that waits: the bound of three
excludes this.  Fairness: a thread inside a call goes on.

### Proofs

`Log_proofs.tla` proves the three invariants for any threads, levels and number
of calls.  The inductive invariant numbers the calls (`Numbered`), says that the
pieces of a call that is done are in no buffer any more and that what its thread
logs later comes behind them in the file (`Flushed`), that whoever put something
into m_strLogText is on the way to clear it (`TextIsTransient`), and how far a
call that is alone has come (`Progress`).  `OwnOrder` rests on the
first two: what a call leaves in the file is there before the next call of that
thread writes.  EndlReturns is liveness and model-checked only.

### What is missing in the file

What the file lacks is part of the model: a line may be lost and a suppressed
text may show up in another line (both below), and the pieces of two chains may
be mixed.

## 8. What the model found

* `MessageBroker.cpp:224-229`: two workers can wait for one message, and the
  second takes front() of an empty queue (v_broker_front).
* `MessageBroker.cpp:240-241` against `118-122`: a lost wake-up leaves a message
  in the queue for ever (v_broker_stranded).  Continuous processing, switched on
  before the first message, avoids both (broker_continuous).
* `MessageBroker.cpp:254`: exclusive messaging starts while a broadcast is under
  way (v_broker_exclusive).
* `Peer2PeerNetwork.cpp:268-271` and `356-359`: a peer that lost its connection
  is deleted and stays in the map; getPeerByID() and subPeer() then hand out and
  delete it again.  The model has the stale entry; ReliableConsistent says that no
  other peer is affected.
* `Peer.cpp:317-319`: a return without unlock() (v_network_stuck).
* `Peer2PeerNetwork.cpp:348-351`: a read that may wait for ever while m_mxPeers is
  locked (section 4, after the table of runs).
* `Log.cpp:468-478`: a text of a suppressed level stays in the stream and is logged
  with the next line, against 241-243.
* `Log.cpp:233-236`: a line that another thread adds between writing and clearing is
  lost, though its call returns true, against 124.
* `ServerSocket.cpp:54-86`: bind() never sets m_bBound, so accept() returns NULL at
  once, against 104.
* `demos/Peer2PeerTest/ChatMessage.h:30-31`: the two methods are not const and do not
  override those of Message, so that the chat sends nothing.

Seen while modelling, recorded as hazards and part of the models, but promised
nowhere, so that no run demands their absence: a failed reconnection sets the
status to 0 and the destructor then leaves the Peer registered at its brokers
(`Peer.cpp:264` with `68`); subPeer() changes the list without m_mxPeers
(`Peer2PeerNetwork.cpp:106-116`); the faults of DirectConNetwork above; and
isConnected() of a socket whose other end was closed in good order stays true,
so that the network thread polls it in a busy loop (`BerkeleySocket.cpp:272-283`).

The same holds of what TcpFraming ends in: DirectConNetwork has no lock around
write(), and cuts off messages that have not arrived; a StandardMessage of 65536
bytes or more is sent with a wrong length; registerMsg() changes the list that
the network thread reads; and a connection that ends in the middle of a message
keeps the loop of Peer2PeerNetwork busy for ever.

## 9. Not modelled

* SecureSocket: a wrapper of OpenSSL, used by nothing else.  What it does is what
  OpenSSL does.  One thing is its own: its context is freed with the last
  socket, and a later socket uses the pointer again (`SecureSocket.cpp:34-60`).
* The demos, which read a console, and the macros of oocl_import_export.h.
* UDP sockets beyond "a datagram arrives"; readFrom() and writeTo(), which nothing
  calls.
* The contents of messages, names and times.
* Thread priorities, and the Windows branches.
