-------------------------- MODULE Peer2PeerNetwork --------------------------
(***************************************************************************)
(* One oocl::Peer2PeerNetwork and its Peers: the list and the map of       *)
(* peers, the network thread that polls their sockets, application threads *)
(* that add and remove peers and send to them, and the worker of one       *)
(* MessageBroker that sends to the peers that subscribed its type.         *)
(*                                                                         *)
(* A Peer's methods run on every one of these threads; stack[t] holds      *)
(* where thread t returns to.  A section under m_mxSockets that cannot     *)
(* block is one step that waits for the mutex.                             *)
(*                                                                         *)
(* ServerSocket::accept() returns NULL as bind() never sets m_bBound, so   *)
(* nobody connects to this network: its peers are those it adds itself,    *)
(* and m_lpSocketsWithoutPeers is always empty.                            *)
(***************************************************************************)
EXTENDS Naturals, Sequences, FiniteSets

CONSTANTS
    AppThreads,   \* threads of the program
    Net,          \* the thread that executes Peer2PeerNetwork::run()
    Worker,       \* the thread of a broker that peers may subscribe to
    Peers,        \* Peer objects; each is created at most once
    Unreliable,   \* peers whose connection may break or end silently, that
                  \* answer connect() with some other message, or whose system
                  \* resets what is written to them after their goodbye
    MaySay,       \* the kinds of messages that the remote program of each sends
    IDs,          \* identifiers of peers
    IDOf,         \* the one that each Peer has, its remote program chooses it
    NULL,
    Calls,        \* which methods each application thread calls
    Contacts,     \* the peers it sends to through their pointers
    MaxSaid       \* bound on the messages that remote programs send

MethodNames == {"addPeer", "subPeer", "disconnect", "sendMessage", "destroy"}
Kinds == {"data", "subscribe", "goodbye"}
Threads == AppThreads \cup {Net, Worker}

ASSUME ThreadsDistinct == Net # Worker /\ {Net, Worker} \cap AppThreads = {}
ASSUME NullIsNothing == NULL \notin Peers \cup Threads \cup Kinds
ASSUME SubsetsAssumption == {Unreliable, Contacts} \subseteq SUBSET Peers
ASSUME MaySayAssumption == MaySay \in [Peers -> SUBSET Kinds]
ASSUME CallsAssumption == Calls \in [AppThreads -> SUBSET MethodNames]
ASSUME IDOfAssumption == IDOf \in [Peers -> IDs]
ASSUME MaxSaidAssumption == MaxSaid \in Nat

VARIABLES
    \* each Peer:
    mem,          \* "unborn", "alive" or "freed"
    status,       \* m_ucConnectStatus
    active,       \* m_bActive
    tcp, udp,     \* its sockets: "up", "error" (not noticed yet) or "closed"
    mxSockets,    \* the thread that left m_mxSockets locked, or NULL
    \* the network:
    list,         \* m_lpPeers
    byID,         \* m_mapPeersByID
    mxPeers,      \* its owner, or NULL
    running,      \* m_bActive of the network
    ready,        \* selectSet: the peers polled, then those to read from
    batch,        \* strMsg: the messages of one read that are not handled
    \* the broker:
    listening,    \* the peers among its m_lListeners
    mxListener,   \* its owner, or NULL
    targets,      \* lWaitList
    \* the threads:
    pc, stack,
    cur,          \* the Peer each thread works on or iterates at
    fault,        \* "none", or the undefined behaviour it ran into
    \* the remote programs:
    stream,       \* what arrived over TCP and is not read yet
    eof,          \* whether they closed their end
    said,         \* how much they sent altogether
    pumped        \* history: what the brokers were given last, for each peer

peerVars   == <<mem, status, active, tcp, udp, mxSockets>>
netVars    == <<list, byID, mxPeers, running, ready, batch>>
brokerVars == <<listening, mxListener, targets>>
control    == <<pc, stack, cur, fault>>
remoteVars == <<stream, said, eof>>
vars == <<peerVars, netVars, brokerVars, control, remoteVars, pumped>>

Listed == {list[i] : i \in DOMAIN list}

SendLabels == {"send", "reconnect", "recheck", "write"}
PeerLabels == SendLabels \cup {"delete", "unregister", "drop", "free"}
Labels == PeerLabels \cup
    {"idle", "insert", "eraseID", "remove", "clear", "join", "done",   \* application
     "enter", "while", "prune", "pruneErase", "select", "udp", "udpPeer",   \* Net
     "lockScan", "scan", "read", "readFailed", "scanErase", "handle",
     "goodbye", "ended", "next"}                          \* Worker: next

TypeOK ==
    /\ mem \in [Peers -> {"unborn", "alive", "freed"}]
    /\ status \in [Peers -> 0 .. 2]
    /\ active \in [Peers -> BOOLEAN]
    /\ tcp \in [Peers -> {"up", "error", "closed"}]
    /\ udp \in [Peers -> {"up", "closed"}]
    /\ mxSockets \in [Peers -> Threads \cup {NULL}]
    /\ list \in Seq(Peers)
    /\ byID \in [IDs -> Peers \cup {NULL}]
    /\ mxPeers \in Threads \cup {NULL}
    /\ running \in BOOLEAN
    /\ ready \in SUBSET Peers
    /\ batch \in Seq(Kinds)
    /\ listening \in SUBSET Peers
    /\ mxListener \in Threads \cup {NULL}
    /\ targets \in SUBSET Peers
    /\ pc \in [Threads -> Labels]
    /\ stack \in [Threads -> Seq(Labels)]
    /\ cur \in [Threads -> Peers \cup {NULL}]
    /\ fault \in {"none", "freedPeer", "lostIterator", "freedNetwork"}
    /\ stream \in [Peers -> Seq(Kinds)]
    /\ eof \in [Peers -> BOOLEAN]
    /\ said \in 0 .. MaxSaid
    /\ pumped \in [Peers -> Kinds \cup {NULL}]

Init ==
    /\ mem = [p \in Peers |-> "unborn"]
    /\ status = [p \in Peers |-> 0]
    /\ active = [p \in Peers |-> TRUE]
    /\ tcp = [p \in Peers |-> "closed"] /\ udp = [p \in Peers |-> "closed"]
    /\ mxSockets = [p \in Peers |-> NULL]
    /\ list = << >> /\ byID = [i \in IDs |-> NULL]
    /\ mxPeers = NULL /\ running = TRUE
    /\ ready = {} /\ batch = << >>
    /\ listening = {} /\ mxListener = NULL /\ targets = {}
    /\ pc = [t \in Threads |-> IF t = Net THEN "enter" ELSE "idle"]
    /\ stack = [t \in Threads |-> << >>]
    /\ cur = [t \in Threads |-> NULL]
    /\ fault = "none"
    /\ stream = [p \in Peers |-> << >>]
    /\ eof = [p \in Peers |-> FALSE]
    /\ said = 0
    /\ pumped = [p \in Peers |-> NULL]

At(t, label) == fault = "none" /\ pc[t] = label
\* Thread t continues at label, with the Peer p.
Move(t, label, p) ==
    /\ pc' = [pc EXCEPT ![t] = label]
    /\ cur' = [cur EXCEPT ![t] = p]
    /\ UNCHANGED stack
Goto(t, label) == Move(t, label, cur[t])
\* Executes what starts at label with the Peer p, and goes on at back.
Call(t, label, p, back) ==
    /\ pc' = [pc EXCEPT ![t] = label]
    /\ cur' = [cur EXCEPT ![t] = p]
    /\ stack' = [stack EXCEPT ![t] = back \o @]
Return(t) ==
    /\ pc' = [pc EXCEPT ![t] = Head(stack[t])]
    /\ cur' = [cur EXCEPT ![t] =
                  IF Head(stack[t]) \in {"idle", "clear", "next"} THEN NULL ELSE @]
    /\ stack' = [stack EXCEPT ![t] = Tail(@)]
\* The thread's place in a method of a Peer that exists.
In(t, label) == At(t, label) /\ mem[cur[t]] = "alive"

-----------------------------------------------------------------------------
(* The methods of a Peer, executed by any thread. *)

\* What isConnected() returns, and what it does: it notices an error on the
\* TCP socket and closes it, and takes back the status of a lost connection.
Connected(p) == status[p] = 2 /\ tcp[p] = "up" /\ udp[p] = "up"
IsConnected(p) ==
    /\ status' = [status EXCEPT ![p] = IF @ = 2 /\ ~Connected(p) THEN 1 ELSE @]
    /\ tcp' = [tcp EXCEPT ![p] = IF status[p] = 2 /\ @ = "error" THEN "closed" ELSE @]

Send(t) ==
    LET p == cur[t] IN
    /\ In(t, "send")
    /\ IF ~active[p]
          THEN Return(t) /\ UNCHANGED <<status, tcp>>
          ELSE /\ IsConnected(p)
               /\ IF Connected(p) THEN Goto(t, "recheck")
                  ELSE IF status[p] > 0 THEN Goto(t, "reconnect")
                  ELSE Return(t)
    /\ UNCHANGED <<mem, active, udp, mxSockets, netVars, brokerVars,
                   fault, remoteVars, pumped>>

\* connectSockets(): a socket that is still connected cannot be connected, the
\* status is only kept when both could be, and nothing is done for a peer that
\* has no sockets any more.  A new connection has not ended.
ConnectSockets(p) ==
    \E u, c \in BOOLEAN :
        /\ u => active[p] /\ udp[p] = "closed"
        /\ c => active[p] /\ tcp[p] = "closed"
        /\ udp' = [udp EXCEPT ![p] = IF u THEN "up" ELSE @]
        /\ tcp' = [tcp EXCEPT ![p] = IF c THEN "up" ELSE @]
        /\ status' = [status EXCEPT ![p] = IF active[p] => u /\ c THEN @ ELSE 0]
        /\ eof' = [eof EXCEPT ![p] = @ /\ ~c]

Reconnect(t) ==
    /\ In(t, "reconnect")
    /\ mxSockets[cur[t]] = NULL
    /\ ConnectSockets(cur[t])
    /\ Goto(t, "recheck")
    /\ UNCHANGED <<mem, active, mxSockets, netVars, brokerVars, fault,
                   stream, said, pumped>>

Recheck(t) ==
    LET p == cur[t] IN
    /\ In(t, "recheck")
    /\ IsConnected(p)
    /\ IF Connected(p) THEN Goto(t, "write") ELSE Return(t)
    /\ UNCHANGED <<mem, active, udp, mxSockets, netVars, brokerVars,
                   fault, remoteVars, pumped>>

\* A peer that was deactivated after the first test returns without unlock().
\* Writing closes a socket that has failed.
Write(t) ==
    LET p == cur[t] IN
    /\ In(t, "write")
    /\ mxSockets[p] = NULL
    /\ IF ~active[p]
          THEN mxSockets' = [mxSockets EXCEPT ![p] = t] /\ UNCHANGED <<tcp, udp>>
          ELSE /\ \/ /\ tcp' = [tcp EXCEPT ![p] = IF @ = "up" THEN @ ELSE "closed"]
                     /\ UNCHANGED udp
                  \/ /\ p \in Unreliable
                     /\ udp' = [udp EXCEPT ![p] = "closed"]
                     /\ UNCHANGED tcp
               /\ UNCHANGED mxSockets
    /\ Return(t)
    /\ UNCHANGED <<mem, status, active, netVars, brokerVars, fault,
                   remoteVars, pumped>>

\* The sockets are deleted, and what has arrived with them.
CloseSockets(p) ==
    /\ tcp' = [tcp EXCEPT ![p] = "closed"]
    /\ udp' = [udp EXCEPT ![p] = "closed"]
    /\ stream' = [stream EXCEPT ![p] = << >>]
    /\ eof' = [eof EXCEPT ![p] = FALSE]

\* ~Peer(), and disconnect(true) inside it, which says goodbye first.
Delete(t) ==
    /\ In(t, "delete")
    /\ IF status[cur[t]] > 0
          THEN Call(t, "send", cur[t], <<"unregister", "free">>)
          ELSE Goto(t, "free")
    /\ UNCHANGED <<peerVars, netVars, brokerVars, fault, remoteVars, pumped>>

\* Fault: unregisterListener() does not wait for a broadcast.
UnregisterNow(t) ==
    /\ In(t, "unregister")
    /\ listening' = listening \ {cur[t]}
    /\ Goto(t, "drop")
    /\ UNCHANGED <<peerVars, netVars, mxListener, targets, fault, remoteVars,
                   pumped>>

Unregister(t) ==
    /\ In(t, "unregister")
    /\ cur[t] \in listening => mxListener = NULL
    /\ listening' = listening \ {cur[t]}
    /\ Goto(t, "drop")
    /\ UNCHANGED <<peerVars, netVars, mxListener, targets, fault,
                   remoteVars, pumped>>

Drop(t) ==
    LET p == cur[t] IN
    /\ In(t, "drop")
    /\ mxSockets[p] = NULL
    /\ status' = [status EXCEPT ![p] = 0]
    /\ active' = [active EXCEPT ![p] = FALSE]
    /\ CloseSockets(p)
    /\ Return(t)
    /\ UNCHANGED <<mem, mxSockets, netVars, brokerVars, fault, said, pumped>>

Free(t) ==
    LET p == cur[t] IN
    /\ In(t, "free")
    /\ mxSockets[p] = NULL
    /\ mem' = [mem EXCEPT ![p] = "freed"]
    /\ status' = [status EXCEPT ![p] = 0]
    /\ active' = [active EXCEPT ![p] = FALSE]
    /\ CloseSockets(p)
    /\ Return(t)
    /\ UNCHANGED <<mxSockets, netVars, brokerVars, fault, said, pumped>>

\* A thread goes on with a Peer that was deleted meanwhile, or before.
UseFreed(t) ==
    /\ fault = "none"
    /\ pc[t] \in PeerLabels \cup {"udpPeer"}
    /\ mem[cur[t]] = "freed"
    /\ fault' = "freedPeer"
    /\ UNCHANGED <<peerVars, netVars, brokerVars, pc, stack, cur, remoteVars,
                   pumped>>

PeerStep(t) ==
    \/ Send(t) \/ Reconnect(t) \/ Recheck(t) \/ Write(t)
    \/ Delete(t) \/ Unregister(t) \/ Drop(t) \/ Free(t) \/ UseFreed(t)

-----------------------------------------------------------------------------
(* The methods of the network that the application calls. *)

MayCall(a, method) == At(a, "idle") /\ running /\ method \in Calls[a]

After(s, p) == LET i == CHOOSE i \in DOMAIN s : s[i] = p
               IN  IF i < Len(s) THEN s[i + 1] ELSE NULL
First(s)    == IF s = << >> THEN NULL ELSE s[1]
Without(s, p) ==
    IF \E i \in DOMAIN s : s[i] = p
       THEN LET k == CHOOSE i \in DOMAIN s : s[i] = p
            IN  [i \in 1 .. Len(s) - 1 |-> IF i < k THEN s[i] ELSE s[i + 1]]
       ELSE s

\* addPeer() when connect() returns true.  Until then nobody else knows the
\* Peer, which holds its own mutex while it reads the answer: a ConnectMessage,
\* or some other message, which makes a Peer that is not connected.  When
\* connect() returns false the object is never used again.
AddPeer(a, p) ==
    /\ MayCall(a, "addPeer")
    /\ mem[p] = "unborn"
    /\ mem' = [mem EXCEPT ![p] = "alive"]
    /\ \E st \in IF p \in Unreliable THEN {1, 2} ELSE {2} :
          status' = [status EXCEPT ![p] = st]
    /\ tcp' = [tcp EXCEPT ![p] = "up"]
    /\ udp' = [udp EXCEPT ![p] = "up"]
    /\ Move(a, "insert", p)
    /\ UNCHANGED <<active, mxSockets, netVars, brokerVars, fault, remoteVars,
                   pumped>>

\* Fault: the pointer is reset before it is inserted.
InsertNull(a) ==
    /\ At(a, "insert")
    /\ mxPeers = NULL
    /\ list' = Append(list, NULL)
    /\ Move(a, "idle", NULL)
    /\ UNCHANGED <<peerVars, byID, mxPeers, running, ready, batch, brokerVars,
                   fault, remoteVars, pumped>>

\* map::insert keeps an entry that has the key already.
Insert(a) ==
    LET p == cur[a] IN
    /\ At(a, "insert")
    /\ mxPeers = NULL
    /\ list' = Append(list, p)
    /\ byID' = [byID EXCEPT ![IDOf[p]] = IF @ = NULL THEN p ELSE @]
    /\ Move(a, "idle", NULL)
    /\ UNCHANGED <<peerVars, mxPeers, running, ready, batch, brokerVars, fault,
                   remoteVars, pumped>>

\* subPeer() does not lock m_mxPeers: other threads act between getPeerByID(),
\* the two lists and the destructor, and may be in subPeer() for the same Peer.
SubPeer(a, i) ==
    /\ MayCall(a, "subPeer")
    /\ byID[i] # NULL
    /\ Move(a, "eraseID", byID[i])
    /\ UNCHANGED <<peerVars, netVars, brokerVars, fault, remoteVars, pumped>>

\* The entry of the ID goes, whichever Peer it leads to by now; the ID is the one
\* the Peer was found under, which is its own.
EraseID(a) ==
    /\ At(a, "eraseID")
    /\ byID' = [byID EXCEPT ![IDOf[cur[a]]] = NULL]
    /\ Goto(a, "remove")
    /\ UNCHANGED <<peerVars, list, mxPeers, running, ready, batch, brokerVars,
                   fault, remoteVars, pumped>>

\* When some thread iterates the list and is at this Peer, it is left with an
\* iterator of an erased element.
Remove(a) ==
    LET p == cur[a] IN
    /\ At(a, "remove")
    /\ list' = Without(list, p)
    /\ Call(a, "delete", p, <<"idle">>)
    /\ fault' = IF mxPeers # NULL /\ cur[mxPeers] = p THEN "lostIterator" ELSE fault
    /\ UNCHANGED <<peerVars, byID, mxPeers, running, ready, batch, brokerVars,
                   remoteVars, pumped>>

\* Through a pointer that addPeer() or a NewPeerMessage gave to the program.
SendMessage(a, p) ==
    /\ MayCall(a, "sendMessage")
    /\ p \in Contacts /\ mem[p] # "unborn"
    /\ \A b \in AppThreads : pc[b] = "insert" => cur[b] # p
    /\ Call(a, "send", p, <<"idle">>)
    /\ UNCHANGED <<peerVars, netVars, brokerVars, fault, remoteVars, pumped>>

Disconnect(a) ==
    /\ MayCall(a, "disconnect")
    /\ mxPeers = NULL
    /\ mxPeers' = a
    /\ Call(a, "clear", NULL, <<"idle">>)
    /\ UNCHANGED <<peerVars, list, byID, running, ready, batch, brokerVars,
                   fault, remoteVars, pumped>>

\* One iteration of the loop of disconnect(), or its end.
Clear(a) ==
    LET left == {i \in DOMAIN list : mem[list[i]] # "freed"} IN
    /\ At(a, "clear")
    /\ IF left # {}
          THEN /\ \E i \in left : /\ \A j \in left : i <= j
                                  /\ Call(a, "delete", list[i], <<"clear">>)
               /\ UNCHANGED netVars
          ELSE /\ list' = << >>
               /\ byID' = [i \in IDs |-> NULL]
               /\ mxPeers' = NULL
               /\ Return(a)
               /\ UNCHANGED <<running, ready, batch>>
    /\ UNCHANGED <<peerVars, brokerVars, fault, remoteVars, pumped>>

\* ~Peer2PeerNetwork(), when no other thread is inside a method of it.
Destroy(a) ==
    /\ MayCall(a, "destroy")
    /\ \A b \in AppThreads : pc[b] = "idle"
    /\ running' = FALSE
    /\ Goto(a, "join")
    /\ UNCHANGED <<peerVars, list, byID, mxPeers, ready, batch, brokerVars,
                   fault, remoteVars, pumped>>

\* join() does not wait for a thread that has ended, nor for one that has not
\* yet set m_bActive.
Join(a) ==
    /\ At(a, "join")
    /\ pc[Net] \in {"enter", "ended"}
    /\ mxPeers = NULL
    /\ mxPeers' = a
    /\ Call(a, "clear", NULL, <<"done">>)
    /\ UNCHANGED <<peerVars, list, byID, running, ready, batch, brokerVars,
                   fault, remoteVars, pumped>>

App(a) ==
    \/ \E p \in Peers : AddPeer(a, p) \/ SendMessage(a, p)
    \/ \E i \in IDs : SubPeer(a, i)
    \/ EraseID(a) \/ Remove(a)
    \/ Insert(a) \/ Disconnect(a) \/ Clear(a) \/ Destroy(a) \/ Join(a)

-----------------------------------------------------------------------------
(* The worker of a broker: it holds m_mxListener while it sends a message  *)
(* to every peer that subscribed it.                                       *)

Broadcast ==
    /\ At(Worker, "idle")
    /\ listening # {}
    /\ mxListener = NULL
    /\ mxListener' = Worker
    /\ targets' = listening
    /\ Goto(Worker, "next")
    /\ UNCHANGED <<peerVars, netVars, listening, fault, remoteVars, pumped>>

NextTarget ==
    /\ At(Worker, "next")
    /\ IF targets # {}
          THEN \E p \in targets :
                  /\ targets' = targets \ {p}
                  /\ Call(Worker, "send", p, <<"next">>)
                  /\ UNCHANGED mxListener
          ELSE /\ mxListener' = NULL
               /\ Goto(Worker, "idle")
               /\ UNCHANGED targets
    /\ UNCHANGED <<peerVars, netVars, listening, fault, remoteVars, pumped>>

-----------------------------------------------------------------------------
(* run(), one round of which polls every peer, waits in select(), takes a  *)
(* datagram, and reads from the peers that have something to read.         *)

Destroyed == \E a \in AppThreads : pc[a] = "done"

\* The new thread gets to its first instruction, which sets m_bActive.
Enter ==
    /\ At(Net, "enter") /\ ~Destroyed
    /\ Goto(Net, "while")
    /\ UNCHANGED <<peerVars, netVars, brokerVars, fault, remoteVars, pumped>>

\* It comes too late: its network has been destroyed.
EnterFreed ==
    /\ fault = "none" /\ Destroyed
    /\ pc[Net] \in {"enter", "while"}
    /\ fault' = "freedNetwork"
    /\ UNCHANGED <<peerVars, netVars, brokerVars, pc, stack, cur, remoteVars, pumped>>

\* Fault: the loop does not end.
WhileTrue ==
    /\ At(Net, "while")
    /\ mxPeers = NULL
    /\ mxPeers' = Net
    /\ ready' = {}
    /\ Move(Net, "prune", First(list))
    /\ UNCHANGED <<peerVars, list, byID, running, batch, brokerVars, fault,
                   remoteVars, pumped>>

While ==
    /\ At(Net, "while") /\ ~Destroyed
    /\ IF running
          THEN /\ mxPeers = NULL
               /\ mxPeers' = Net
               /\ ready' = {}
               /\ Move(Net, "prune", First(list))
          ELSE Goto(Net, "ended") /\ UNCHANGED <<mxPeers, ready>>
    /\ UNCHANGED <<peerVars, list, byID, running, batch, brokerVars, fault,
                   remoteVars, pumped>>

\* Fault: the others are only left out.
PruneSkip ==
    LET p == cur[Net] IN
    /\ At(Net, "prune")
    /\ p # NULL
    /\ IsConnected(p)
    /\ ready' = IF Connected(p) THEN ready \cup {p} ELSE ready
    /\ Move(Net, "prune", After(list, p))
    /\ UNCHANGED <<mem, active, udp, mxSockets, list, byID, mxPeers,
                   running, batch, brokerVars, fault, remoteVars, pumped>>

\* The first loop: connected peers are polled, the others deleted.
Prune ==
    LET p == cur[Net] IN
    /\ At(Net, "prune")
    /\ p # NULL
    /\ IsConnected(p)
    /\ IF Connected(p)
          THEN ready' = ready \cup {p} /\ Move(Net, "prune", After(list, p))
          ELSE Call(Net, "delete", p, <<"pruneErase">>) /\ UNCHANGED ready
    /\ UNCHANGED <<mem, active, udp, mxSockets, list, byID, mxPeers,
                   running, batch, brokerVars, fault, remoteVars, pumped>>

\* it = erase(it) is followed by ++it, which skips a peer.  At the end of the
\* list ++it is undefined; the list of libstdc++ is circular and starts again.
PruneErase ==
    LET p    == cur[Net]
        next == After(list, p)
        rest == Without(list, p)
    IN
    /\ At(Net, "pruneErase")
    /\ list' = rest
    /\ Move(Net, "prune", IF next = NULL THEN First(rest) ELSE After(rest, next))
    /\ UNCHANGED <<peerVars, byID, mxPeers, running, ready, batch, brokerVars,
                   fault, remoteVars, pumped>>

Unlock(label, next) ==
    /\ At(Net, label)
    /\ cur[Net] = NULL
    /\ mxPeers' = NULL
    /\ Goto(Net, next)
    /\ UNCHANGED <<peerVars, list, byID, running, ready, batch, brokerVars,
                   fault, remoteVars, pumped>>

\* A socket is readable when read() would return: with data, at the end of the
\* stream, or with an error.
Readable(p) == stream[p] # << >> \/ eof[p] \/ tcp[p] # "up"

\* A timeout starts the next round.
Select ==
    LET r == {p \in ready : Readable(p)} IN
    /\ At(Net, "select")
    /\ ready' = r
    /\ Goto(Net, "udp") \/ (r = {} /\ Goto(Net, "while"))
    /\ UNCHANGED <<peerVars, list, byID, mxPeers, running, batch, brokerVars,
                   fault, remoteVars, pumped>>

\* A datagram names its sender by ID; the map is read without m_mxPeers.  It is
\* a message of the peer the sender claims to be.
UdpFind ==
    /\ At(Net, "udp")
    /\ \/ \E i \in IDs : LET p == byID[i] IN
             /\ p # NULL /\ "data" \in MaySay[p]
             /\ said < MaxSaid
             /\ said' = said + 1
             /\ Move(Net, "udpPeer", p)
       \/ Goto(Net, "lockScan") /\ UNCHANGED said
    /\ UNCHANGED <<peerVars, netVars, brokerVars, fault, stream, eof, pumped>>

Pump(p, kind) == pumped' = [pumped EXCEPT ![p] = kind]

UdpReceive ==
    LET p == cur[Net] IN
    /\ In(Net, "udpPeer")
    /\ IsConnected(p)
    /\ IF Connected(p) /\ active[p] THEN Pump(p, "data") ELSE UNCHANGED pumped
    /\ Move(Net, "lockScan", NULL)
    /\ UNCHANGED <<mem, active, udp, mxSockets, netVars, brokerVars, fault,
                   remoteVars>>

LockScan ==
    /\ At(Net, "lockScan")
    /\ mxPeers = NULL
    /\ mxPeers' = Net
    /\ Move(Net, "scan", First(list))
    /\ UNCHANGED <<peerVars, list, byID, running, ready, batch, brokerVars,
                   fault, remoteVars, pumped>>

\* Fault: what select() reported is not asked for.
ScanAll ==
    LET p == cur[Net] IN
    /\ At(Net, "scan")
    /\ p # NULL
    /\ IsConnected(p)
    /\ IF Connected(p)
          THEN Goto(Net, "read")
          ELSE Move(Net, "scan", After(list, p))
    /\ UNCHANGED <<mem, active, udp, mxSockets, netVars, brokerVars, fault,
                   remoteVars, pumped>>

\* The second loop.
Scan ==
    LET p == cur[Net] IN
    /\ At(Net, "scan")
    /\ p # NULL
    /\ IsConnected(p)
    /\ IF Connected(p) /\ p \in ready
          THEN Goto(Net, "read")
          ELSE Move(Net, "scan", After(list, p))
    /\ UNCHANGED <<mem, active, udp, mxSockets, netVars, brokerVars, fault,
                   remoteVars, pumped>>

\* read() takes some of what has arrived.  At the end of the stream it fails,
\* and so it does with an error, where it also closes the socket.
Read ==
    LET p == cur[Net] IN
    /\ At(Net, "read")
    /\ \/ /\ tcp[p] = "up"
          /\ \E k \in 1 .. Len(stream[p]) :
                /\ batch' = SubSeq(stream[p], 1, k)
                /\ stream' = [stream EXCEPT ![p] = SubSeq(@, k + 1, Len(@))]
          /\ Goto(Net, "handle")
          /\ UNCHANGED <<status, tcp>>
       \/ /\ tcp[p] = "up" /\ stream[p] = << >> /\ eof[p]
          /\ IsConnected(p)
          /\ IF Connected(p) THEN Move(Net, "scan", After(list, p))
                             ELSE Goto(Net, "readFailed")
          /\ UNCHANGED <<batch, stream>>
       \/ /\ tcp[p] # "up"
          /\ tcp' = [tcp EXCEPT ![p] = "closed"]
          /\ status' = [status EXCEPT ![p] = IF @ = 2 THEN 1 ELSE @]
          /\ Goto(Net, "readFailed")
          /\ UNCHANGED <<batch, stream>>
    /\ UNCHANGED <<mem, active, udp, mxSockets, list, byID, mxPeers,
                   running, ready, brokerVars, fault, said, eof, pumped>>

\* The peer is deleted unless its sockets can be connected again.
ReadFailed ==
    LET p == cur[Net] IN
    /\ At(Net, "readFailed")
    /\ mxSockets[p] = NULL
    /\ ConnectSockets(p)
    /\ IF tcp'[p] = "up" /\ udp'[p] = "up" /\ tcp[p] # "up" /\ udp[p] # "up"
          THEN Move(Net, "scan", After(list, p))
          ELSE Call(Net, "delete", p, <<"scanErase">>)
    /\ UNCHANGED <<mem, active, mxSockets, netVars, brokerVars, fault,
                   stream, said, pumped>>

\* Fault: the element of the deleted peer stays in the list.
ScanKeep ==
    /\ At(Net, "scanErase")
    /\ Move(Net, "scan", After(list, cur[Net]))
    /\ UNCHANGED <<peerVars, netVars, brokerVars, fault, remoteVars, pumped>>

ScanErase ==
    LET p == cur[Net] IN
    /\ At(Net, "scanErase")
    /\ list' = Without(list, p)
    /\ Move(Net, "scan", After(list, p))
    /\ UNCHANGED <<peerVars, byID, mxPeers, running, ready, batch, brokerVars,
                   fault, remoteVars, pumped>>

NextOfBatch(p) ==
    /\ batch' = Tail(batch)
    /\ IF Len(batch) > 1 THEN Goto(Net, "handle")
                        ELSE Move(Net, "scan", After(list, p))

\* receiveMessage() of one message; it does nothing for an inactive peer.
HandleData ==
    LET p == cur[Net] IN
    /\ At(Net, "handle")
    /\ Head(batch) = "data"
    /\ IF active[p] THEN Pump(p, "data") ELSE UNCHANGED pumped
    /\ NextOfBatch(p)
    /\ UNCHANGED <<peerVars, list, byID, mxPeers, running, ready, brokerVars,
                   fault, remoteVars>>

HandleSubscribe ==
    LET p == cur[Net] IN
    /\ At(Net, "handle")
    /\ Head(batch) = "subscribe"
    /\ IF active[p]
          THEN mxListener = NULL /\ listening' = listening \cup {p}
          ELSE UNCHANGED listening
    /\ NextOfBatch(p)
    /\ UNCHANGED <<peerVars, list, byID, mxPeers, running, ready, mxListener,
                   targets, fault, remoteVars, pumped>>

\* Fault: the message is delivered like any other.
PumpGoodbye ==
    LET p == cur[Net] IN
    /\ At(Net, "handle")
    /\ Head(batch) = "goodbye"
    /\ Pump(p, "goodbye")
    /\ NextOfBatch(p)
    /\ UNCHANGED <<peerVars, list, byID, mxPeers, running, ready, brokerVars,
                   fault, remoteVars>>

\* The message is delivered before disconnect(false).
HandleGoodbye ==
    LET p == cur[Net] IN
    /\ At(Net, "handle")
    /\ Head(batch) = "goodbye"
    /\ IF active[p]
          THEN Pump(p, "goodbye") /\ Call(Net, "unregister", p, <<"goodbye">>)
          ELSE Goto(Net, "goodbye") /\ UNCHANGED pumped
    /\ UNCHANGED <<peerVars, netVars, brokerVars, fault, remoteVars>>

\* Fault: it leaves the list only.
GoodbyeList ==
    LET p == cur[Net] IN
    /\ At(Net, "goodbye")
    /\ list' = Without(list, p)
    /\ batch' = << >>
    /\ Move(Net, "scan", After(list, p))
    /\ UNCHANGED <<peerVars, byID, mxPeers, running, ready, brokerVars, fault,
                   remoteVars, pumped>>

\* The Peer leaves the map and the list, and is not deleted.
Goodbye ==
    LET p == cur[Net] IN
    /\ At(Net, "goodbye")
    /\ byID' = [byID EXCEPT ![IDOf[p]] = NULL]
    /\ list' = Without(list, p)
    /\ batch' = << >>
    /\ Move(Net, "scan", After(list, p))
    /\ UNCHANGED <<peerVars, mxPeers, running, ready, brokerVars, fault,
                   remoteVars, pumped>>

Run ==
    \/ Enter \/ EnterFreed
    \/ While \/ Prune \/ PruneErase \/ Unlock("prune", "select") \/ Select
    \/ UdpFind \/ UdpReceive
    \/ LockScan \/ Scan \/ Unlock("scan", "while")
    \/ Read \/ ReadFailed \/ ScanErase
    \/ HandleData \/ HandleSubscribe \/ HandleGoodbye \/ Goodbye

-----------------------------------------------------------------------------
(* The remote programs. *)

\* After its DisconnectMessage a remote program closes its socket.  The system
\* of a peer that is not Unreliable takes what is still written to it then; one
\* that answers with a reset is Unreliable (Break).
Say(p, kind) ==
    /\ fault = "none"
    /\ tcp[p] = "up" /\ ~eof[p]
    /\ kind \in MaySay[p]
    /\ said < MaxSaid
    /\ said' = said + 1
    /\ stream' = [stream EXCEPT ![p] = Append(@, kind)]
    /\ eof' = [eof EXCEPT ![p] = (kind = "goodbye")]
    /\ UNCHANGED <<peerVars, netVars, brokerVars, control, pumped>>

CloseSilently(p) ==
    /\ fault = "none"
    /\ p \in Unreliable
    /\ tcp[p] = "up" /\ ~eof[p]
    /\ eof' = [eof EXCEPT ![p] = TRUE]
    /\ UNCHANGED <<peerVars, netVars, brokerVars, control, stream, said, pumped>>

\* A connection that is reset loses what was not read yet.
Break(p) ==
    /\ fault = "none"
    /\ p \in Unreliable
    /\ tcp[p] = "up"
    /\ tcp' = [tcp EXCEPT ![p] = "error"]
    /\ stream' = [stream EXCEPT ![p] = << >>]
    /\ UNCHANGED <<mem, status, active, udp, mxSockets, netVars, brokerVars,
                   control, said, eof, pumped>>

Remote(p) == (\E kind \in Kinds : Say(p, kind)) \/ CloseSilently(p) \/ Break(p)

\* The network is destroyed, or the program ran into undefined behaviour.
Over ==
    /\ fault # "none" \/ Destroyed
    /\ UNCHANGED vars

Next ==
    \/ \E a \in AppThreads : App(a)
    \/ Broadcast \/ NextTarget
    \/ Run
    \/ \E t \in Threads : PeerStep(t)
    \/ \E p \in Peers : Remote(p)
    \/ Over

Spec == Init /\ [][Next]_vars

\* Every thread that is inside a method continues when it can.  Nothing makes
\* the application call a method, the broker broadcast, a remote program send,
\* or a mutex go to one of the threads that compete for it.
Fairness ==
    /\ WF_vars(Run)
    /\ WF_vars(NextTarget)
    /\ \A a \in AppThreads : WF_vars(Insert(a) \/ EraseID(a) \/ Remove(a) \/ Clear(a) \/ Join(a))
    /\ \A t \in Threads : WF_vars(PeerStep(t))
FairSpec == Spec /\ Fairness

-----------------------------------------------------------------------------
(* Properties.  They hold until the program runs into undefined behaviour. *)

\* The list holds every Peer once, and only Peers that exist: a deleted one is
\* in it only while the thread that deleted it keeps m_mxPeers, on its way to
\* the erase() (Peer2PeerNetwork.cpp:126-136, 269-270, 356-358).
ListedExist ==
    /\ \A i, j \in DOMAIN list : list[i] = list[j] => i = j
    /\ \A p \in Listed : mem[p] = "alive" \/ mxPeers \in AppThreads
                                         \/ (mxPeers = Net /\ cur[Net] = p)

\* No other Peer has the ID of p.
OwnID(p) == \A q \in Peers : IDOf[q] = IDOf[p] => q = p
\* subPeer() has removed p from the map, and not yet from the list (111-112).
HalfRemoved(p) == \E a \in AppThreads : pc[a] = "remove" /\ cur[a] = p

\* For a peer whose connection does not fail, the list, the map and the brokers
\* agree: the map leads only to a listed Peer that exists, also while threads are
\* in subPeer() for it; and to each of the listed ones whose ID no other has,
\* unless a thread is between the two lines of subPeer() that remove it; and a
\* broker knows only a Peer that exists and is active (Peer.cpp:215-221,
\* Peer2PeerNetwork.cpp:108-114, 390-391).
ReliableConsistent ==
    \A p \in Peers \ Unreliable :
        /\ p \in listening => mem[p] = "alive" /\ active[p]
        /\ mxPeers \notin AppThreads =>
              \A i \in IDs : byID[i] = p => p \in Listed /\ mem[p] = "alive"
        /\ mxPeers = NULL /\ p \in Listed /\ OwnID(p) /\ ~HalfRemoved(p)
              => byID[IDOf[p]] = p

\* A Peer is not deleted while the worker of a broker is inside its cbMessage:
\* its destructor waits for the broadcast to end.  For the same peers.
NotDeletedWhileCalled ==
    \A p \in Peers \ Unreliable :
        cur[Worker] = p /\ pc[Worker] \in SendLabels => mem[p] = "alive"

\* Nothing a peer sent is delivered after its DisconnectMessage, also when a
\* datagram of it comes in late (Peer.cpp:371, Peer2PeerNetwork.cpp:331, 388-394).
SilentAfterGoodbye ==
    [][\A p \in Peers : pumped[p] = "goodbye" => pumped'[p] = "goodbye"]_vars

\* What a program must not do, and who may not talk to it: it never calls
\* subPeer(); what sends datagrams or subscribes, and whom it sends to, does not
\* lose its connection; and disconnect() is not called where pointers to peers
\* are used outside of m_mxPeers, by sendMessage() and for datagrams.
KeepsToRules ==
    /\ \A a \in AppThreads : "subPeer" \notin Calls[a]
    /\ \A p \in Unreliable : MaySay[p] \subseteq {"goodbye"}
    /\ \/ /\ \A a \in AppThreads : "disconnect" \notin Calls[a]
          /\ Contacts \cap Unreliable = {}
       \/ /\ \A a \in AppThreads : "sendMessage" \notin Calls[a]
          /\ \A p \in Peers : "data" \notin MaySay[p]

\* No thread uses a deleted Peer, or an iterator of an erased one, in a program
\* that keeps to these rules: not the network thread, although it looks peers up
\* without m_mxPeers (Peer2PeerNetwork.cpp:331), not a broker, and not the
\* destructor, which starts while a broadcast goes on (48-60).
NoPeerUsedAfterDelete == KeepsToRules => fault \notin {"freedPeer", "lostIterator"}

\* The broker that broadcasts again and again does not keep m_mxListener from a
\* thread that waits for it.
MutexIsFair ==
    /\ SF_vars(HandleSubscribe)
    /\ \A t \in Threads : SF_vars(Unregister(t))

\* A peer that says goodbye leaves the list, whatever the others do in between
\* (the loop at Peer2PeerNetwork.cpp:258-274 skips peers).
GoodbyeIsHeard ==
    MutexIsFair => \A p \in Peers :
        (p \in Listed /\ \E i \in DOMAIN stream[p] : stream[p][i] = "goodbye")
            ~> (p \notin Listed \/ fault # "none")

\* A peer whose connection breaks leaves the list.
BrokenIsDropped ==
    MutexIsFair => \A p \in Peers :
        (p \in Listed /\ tcp[p] = "error") ~> (p \notin Listed \/ fault # "none")

\* The destructor comes to its end: the network thread leaves its loop, and
\* every Peer can be deleted (Peer2PeerNetwork.cpp:48-60).
DestructorEnds ==
    MutexIsFair => (~running ~> (fault # "none" \/ Destroyed))

\* The network thread gets to its select() again and again, or ends: neither
\* read(), nor m_mxSockets, nor the mutex of a broker keeps it, with m_mxPeers
\* locked.  For programs that do not send to a peer whose connection fails:
\* Peer::sendMessage() may connect its socket again between select() and read().
NetGoesOn ==
    MutexIsFair => []<>(pc[Net] \in {"select", "ended"} \/ fault # "none")

(* What comments of the code say, and the code does not do. *)

\* Peer2PeerNetwork.cpp:120 "Disconnects from all peers currently in the
\* network": disconnect() gets to its end once it has locked m_mxPeers.
DisconnectReturns ==
    MutexIsFair => \A a \in AppThreads :
        mxPeers = a ~> (mxPeers # a \/ fault # "none")

=============================================================================
