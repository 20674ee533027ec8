---------------------- MODULE Peer2PeerNetwork_proofs ----------------------
(***************************************************************************)
(* Proofs about a Peer2PeerNetwork, for any numbers of application         *)
(* threads, peers, identifiers and messages.                               *)
(*                                                                         *)
(* TypeInv says where each thread is and which mutexes it holds.  Births   *)
(* and Deaths say which peers exist: ExistInv makes ListedExist inductive. *)
(* Holding, ListedHold and Listeners are about the peers whose connection  *)
(* does not fail: with ExistInv they are HoldInv, and with InMap MapInv.   *)
(* RulesInv is about programs that keep to the rules.                      *)
(* A lemma named XNext is one step of the invariant X; OthersStay, NextIs, *)
(* AppIs, WorkerIs, OutsideIs, InsideIs and MethodIs say what the steps    *)
(* are, in the words of TypeInv.                                           *)
(***************************************************************************)
EXTENDS Peer2PeerNetwork, SequenceTheorems, TLAPS

-----------------------------------------------------------------------------
(* Invariants: where a thread is. *)

\* Where a deletion by thread t goes on.
Rests(t) == IF t = Net THEN {<<"pruneErase">>, <<"scanErase">>}
            ELSE IF t \in AppThreads
            THEN {<<"idle">>, <<"clear", "idle">>, <<"clear", "done">>} ELSE {}

\* The thread executes ~Peer() of cur[t], or disconnect(true) in it.
Deletes(t, r) ==
    \/ pc[t] \in SendLabels /\ stack[t] = <<"unregister", "free">> \o r
    \/ pc[t] \in {"unregister", "drop"} /\ stack[t] = <<"free">> \o r
    \/ pc[t] \in {"delete", "free"} /\ stack[t] = r

\* It sends to cur[t] for the application or for a broker.
Home(t)  == IF t = Worker THEN "next" ELSE "idle"
Sends(t) == t # Net /\ pc[t] \in SendLabels /\ stack[t] = <<Home(t)>>

\* It executes disconnect(false) for a goodbye of cur[t].
Leaves(t) == t = Net /\ pc[t] \in {"unregister", "drop"} /\ stack[t] = <<"goodbye">>

InMethod(t) == Sends(t) \/ Leaves(t) \/ \E r \in Rests(t) : Deletes(t, r)

NetLocked == {"prune", "pruneErase", "scan", "read", "readFailed", "scanErase",
              "handle", "goodbye"}
OwnLabels(t) ==
    IF t = Net THEN NetLocked \cup
        {"enter", "while", "select", "udp", "udpPeer", "lockScan", "ended"}
    ELSE IF t = Worker THEN {"idle", "next"}
    ELSE {"idle", "insert", "eraseID", "remove", "join", "done"}

Clearing(t) == t \in AppThreads /\ pc[t] = "clear" /\ stack[t] \in {<<"idle">>, <<"done">>}

\* The labels at which a thread works on a Peer.
Busy == PeerLabels \cup {"insert", "eraseID", "remove", "udpPeer"} \cup (NetLocked \ {"prune", "scan"})

Here(t) ==
    /\ (pc[t] \in OwnLabels(t) /\ stack[t] = << >>) \/ Clearing(t) \/ InMethod(t)
    /\ pc[t] \in Busy => cur[t] # NULL

\* Who has locked m_mxPeers, and m_mxListener.
InClear(a) == Clearing(a) \/ \E r \in {<<"clear", "idle">>, <<"clear", "done">>} : Deletes(a, r)
HoldsPeers(t) == IF t = Net THEN pc[Net] \in NetLocked \cup PeerLabels
                            ELSE t \in AppThreads /\ InClear(t)
Control ==
    /\ \A t \in Threads : Here(t) /\ (mxPeers = t <=> HoldsPeers(t))
    /\ mxListener = IF pc[Worker] = "idle" THEN NULL ELSE Worker

\* The network thread iterates over the list, which holds no peer twice.
Distinct(s) == \A i, j \in DOMAIN s : s[i] = s[j] => i = j
Iterates ==
    /\ Distinct(list)
    /\ mxPeers = Net /\ cur[Net] # NULL /\ fault = "none" => cur[Net] \in Listed
    /\ pc[Net] = "handle" => batch # << >>

TypeInv == TypeOK /\ Control /\ Iterates

-----------------------------------------------------------------------------
(* Invariants: which peers exist. *)

Born == {p \in Peers : mem[p] # "unborn"}
Known == Listed \cup listening \cup targets \cup {byID[i] : i \in IDs}

\* Nobody knows of a peer before it is inserted.
Fresh(p, a) ==
    /\ mem[p] = "alive" /\ active[p] = TRUE /\ p \notin Known
    /\ \A t \in Threads \ {a} : cur[t] # p
Births ==
    /\ Known \cup {cur[t] : t \in Threads} \subseteq Born \cup {NULL}
    /\ \A a \in AppThreads : pc[a] = "insert" => Fresh(cur[a], a)
    /\ \A p \in Peers : mem[p] = "unborn" => active[p] = TRUE

\* The network thread meets only peers that exist; a peer that subPeer()
\* deletes is not on the list.
Deaths ==
    /\ pc[Net] \in NetLocked \ {"pruneErase", "scanErase"} /\ cur[Net] # NULL /\ fault = "none"
           => mem[cur[Net]] = "alive"
    /\ Leaves(Net) /\ fault = "none" => mem[cur[Net]] = "alive"
    /\ \A a \in AppThreads : Deletes(a, <<"idle">>) => cur[a] \notin Listed

ExistInv == TypeInv /\ Births /\ Deaths /\ ListedExist

-----------------------------------------------------------------------------
(* Invariants: peers whose connection holds. *)

NetDeletes == pc[Net] \in {"pruneErase", "scanErase"} \/ \E r \in Rests(Net) : Deletes(Net, r)

\* They are disconnected on purpose only.
Holding ==
    /\ \A p \in Peers \ Unreliable : mem[p] = "alive" /\ active[p] => Connected(p)
    /\ \A t \in Threads : pc[t] \in {"reconnect", "readFailed"} => cur[t] \in Unreliable
    /\ NetDeletes => cur[Net] \in Unreliable

\* They are on the list and in the map until then, and in both or in none.
ListedHold ==
    mxPeers \notin AppThreads => \A p \in Peers \ Unreliable :
        /\ p \in Listed => /\ mem[p] = "alive"
                           /\ active[p] \/ (pc[Net] = "goodbye" /\ cur[Net] = p)
        /\ \A i \in IDs : byID[i] = p => p \in Listed
ByKey == \A i \in IDs : byID[i] # NULL => IDOf[byID[i]] = i

\* What subPeer() has removed from the map does not come back to it.
Erased == \A a \in AppThreads : pc[a] = "remove" => \A i \in IDs : byID[i] # cur[a]

\* A broker that calls a peer knows it; a peer that is gone is no listener.
Listeners ==
    /\ targets \subseteq listening /\ (pc[Worker] = "idle" => targets = {})
    /\ pc[Worker] \in SendLabels => cur[Worker] \in listening
    /\ \A t \in Threads : pc[t] = "drop" => cur[t] \notin listening
    /\ \A p \in Peers \ Unreliable : p \in listening => mem[p] = "alive" /\ active[p]
    /\ \A t \in Threads : pc[t] = "free" /\ cur[t] \notin Unreliable => ~active[cur[t]]

HoldInv == ExistInv /\ Holding /\ ListedHold /\ ByKey /\ Erased /\ Listeners

InMap == mxPeers \notin AppThreads =>
            \A p \in Peers \ Unreliable :
                p \in Listed /\ OwnID(p) /\ ~HalfRemoved(p) => byID[IDOf[p]] = p
MapInv == HoldInv /\ InMap

\* After its goodbye a peer is inactive.
GoodbyeInv ==
    TypeInv /\ \A p \in Peers : pumped[p] = "goodbye" =>
                  active[p] = FALSE \/ (Leaves(Net) /\ cur[Net] = p)

-----------------------------------------------------------------------------
(* Places to return to. *)

AllRests == {<<"pruneErase">>, <<"scanErase">>, <<"idle">>, <<"clear", "idle">>,
             <<"clear", "done">>}

LEMMA Back ==
    ASSUME NEW r \in AllRests
    PROVE  /\ r \in Seq(Labels) /\ r # << >>
           /\ <<"free">> \o r \in Seq(Labels) /\ <<"free">> \o r # << >>
           /\ Head(<<"free">> \o r) = "free" /\ Tail(<<"free">> \o r) = r
           /\ <<"unregister", "free">> \o r \in Seq(Labels)
           /\ <<"unregister", "free">> \o r # << >>
           /\ Head(<<"unregister", "free">> \o r) = "unregister"
           /\ Tail(<<"unregister", "free">> \o r) = <<"free">> \o r
<1>1. {"unregister", "free", "idle", "clear", "done", "pruneErase", "scanErase"} \subseteq Labels
  BY DEF Labels, PeerLabels
<1>2. r \in Seq(Labels) /\ r # << >>
  <2>1. CASE r = <<"pruneErase">>
    BY <1>1, <2>1
  <2>2. CASE r = <<"scanErase">>
    BY <1>1, <2>2
  <2>3. CASE r = <<"idle">>
    BY <1>1, <2>3
  <2>4. CASE r = <<"clear", "idle">>
    BY <1>1, <2>4
  <2>5. CASE r = <<"clear", "done">>
    BY <1>1, <2>5
  <2>6. QED
    BY <2>1, <2>2, <2>3, <2>4, <2>5 DEF AllRests
<1> HIDE DEF AllRests
<1> DEFINE f == <<"free">>
           u == <<"unregister", "free">>
<1>3. /\ f \in Seq(Labels) /\ Len(f) = 1 /\ f[1] = "free"
      /\ u \in Seq(Labels) /\ Len(u) = 2 /\ u[1] = "unregister" /\ u[2] = "free"
  BY <1>1
<1> HIDE DEF f, u
<1>4. /\ f \o r \in Seq(Labels) /\ Len(f \o r) = Len(r) + 1 /\ (f \o r)[1] = "free"
      /\ \A i \in 1 .. Len(r) : (f \o r)[i + 1] = r[i]
  <2>1. /\ f \o r \in Seq(Labels) /\ Len(f \o r) = 1 + Len(r) /\ Len(r) \in Nat
        /\ \A i \in 1 .. 1 + Len(r) : (f \o r)[i] = IF i <= 1 THEN f[i] ELSE r[i - 1]
    <3>1. /\ f \o r \in Seq(Labels) /\ Len(f \o r) = Len(f) + Len(r)
          /\ \A i \in 1 .. Len(f) + Len(r) :
                (f \o r)[i] = IF i <= Len(f) THEN f[i] ELSE r[i - Len(f)]
      <4>1. f \in Seq(Labels) /\ r \in Seq(Labels)
        BY <1>2, <1>3
      <4>2. QED
        BY ONLY <4>1, ConcatProperties
    <3>2. Len(r) \in Nat
      BY <1>2
    <3>3. QED
      BY <1>3, <3>1, <3>2
  <2>2. ASSUME NEW i \in 1 .. Len(r) PROVE (f \o r)[i + 1] = r[i]
    <3>1. i + 1 \in 1 .. 1 + Len(r) /\ ~(i + 1 <= 1) /\ (i + 1) - 1 = i
      BY <2>1
    <3>2. (f \o r)[i + 1] = r[(i + 1) - 1]
      BY <2>1, <3>1
    <3>3. QED
      BY <3>1, <3>2
  <2>3. QED
    BY <1>3, <2>1, <2>2
<1>5. /\ u \o r \in Seq(Labels) /\ Len(u \o r) = Len(r) + 2
      /\ (u \o r)[1] = "unregister" /\ (u \o r)[2] = "free"
      /\ \A i \in 1 .. Len(r) : (u \o r)[i + 2] = r[i]
  <2>1. /\ u \o r \in Seq(Labels) /\ Len(u \o r) = 2 + Len(r) /\ Len(r) \in Nat
        /\ \A i \in 1 .. 2 + Len(r) : (u \o r)[i] = IF i <= 2 THEN u[i] ELSE r[i - 2]
    <3>1. /\ u \o r \in Seq(Labels) /\ Len(u \o r) = Len(u) + Len(r)
          /\ \A i \in 1 .. Len(u) + Len(r) :
                (u \o r)[i] = IF i <= Len(u) THEN u[i] ELSE r[i - Len(u)]
      <4>1. u \in Seq(Labels) /\ r \in Seq(Labels)
        BY <1>2, <1>3
      <4>2. QED
        BY ONLY <4>1, ConcatProperties
    <3>2. Len(r) \in Nat
      BY <1>2
    <3>3. QED
      BY <1>3, <3>1, <3>2
  <2>2. ASSUME NEW i \in 1 .. Len(r) PROVE (u \o r)[i + 2] = r[i]
    <3>1. i + 2 \in 1 .. 2 + Len(r) /\ ~(i + 2 <= 2) /\ (i + 2) - 2 = i
      BY <2>1
    <3>2. (u \o r)[i + 2] = r[(i + 2) - 2]
      BY <2>1, <3>1
    <3>3. QED
      BY <3>1, <3>2
  <2>3. QED
    BY <1>3, <2>1, <2>2
<1>6. f \o r # << >> /\ u \o r # << >> /\ Head(f \o r) = "free" /\ Head(u \o r) = "unregister"
  BY <1>2, <1>4, <1>5
<1>7. Tail(f \o r) = r
  <2> DEFINE T == Tail(f \o r)
  <2>1. T \in Seq(Labels) /\ Len(T) = Len(r) /\ \A i \in 1 .. Len(r) : T[i] = r[i]
    BY <1>2, <1>4, <1>6
  <2> HIDE DEF T
  <2>2. T = r
    BY <1>2, <2>1, SeqEqual
  <2>3. QED
    BY <2>2 DEF T
<1>8. Tail(u \o r) = f \o r
  <2> DEFINE T == Tail(u \o r)
             fr == f \o r
  <2>1. T \in Seq(Labels) /\ Len(T) = Len(r) + 1 /\ T[1] = "free" /\ \A i \in 1 .. Len(r) : T[i + 1] = r[i]
    BY <1>2, <1>5, <1>6
  <2> HIDE DEF T
  <2>2. ASSUME NEW i \in 1 .. Len(T) PROVE T[i] = fr[i]
    <3>1. CASE i = 1
      BY <1>4, <2>1, <3>1
    <3>2. CASE i # 1
      <4>1. i - 1 \in 1 .. Len(r)
        BY <1>2, <2>1, <3>2
      <4>2. T[(i - 1) + 1] = r[i - 1] /\ fr[(i - 1) + 1] = r[i - 1]
        BY <1>4, <2>1, <4>1
      <4>3. (i - 1) + 1 = i
        BY <4>1
      <4>4. QED
        BY <4>2, <4>3
    <3>3. QED
      BY <3>1, <3>2
  <2>3. fr \in Seq(Labels) /\ Len(fr) = Len(T)
    BY <1>4, <2>1
  <2> HIDE DEF fr
  <2>4. T = fr
    BY <2>1, <2>2, <2>3, SeqEqual
  <2>5. QED
    BY <2>4 DEF T, fr
<1>9. QED
  BY <1>2, <1>4, <1>5, <1>6, <1>7, <1>8 DEF f, u

LEMMA RestHeads ==
    /\ Head(<<"pruneErase">>) = "pruneErase" /\ Tail(<<"pruneErase">>) = << >>
    /\ Head(<<"scanErase">>) = "scanErase" /\ Tail(<<"scanErase">>) = << >>
    /\ Head(<<"idle">>) = "idle" /\ Tail(<<"idle">>) = << >>
    /\ Head(<<"done">>) = "done" /\ Tail(<<"done">>) = << >>
    /\ Head(<<"next">>) = "next" /\ Tail(<<"next">>) = << >>
    /\ Head(<<"goodbye">>) = "goodbye" /\ Tail(<<"goodbye">>) = << >>
    /\ Head(<<"clear", "idle">>) = "clear" /\ Tail(<<"clear", "idle">>) = <<"idle">>
    /\ Head(<<"clear", "done">>) = "clear" /\ Tail(<<"clear", "done">>) = <<"done">>
OBVIOUS

-----------------------------------------------------------------------------
(* The list of peers. *)

LEMMA AfterIs ==
    ASSUME NEW S, NEW s \in Seq(S), Distinct(s), NEW i \in DOMAIN s
    PROVE  /\ After(s, s[i]) = IF i < Len(s) THEN s[i + 1] ELSE NULL
           /\ After(s, s[i]) # NULL => \E j \in DOMAIN s : j # i /\ After(s, s[i]) = s[j]
<1>1. \A j \in DOMAIN s : s[j] = s[i] => j = i
  BY DEF Distinct
<1>2. (CHOOSE j \in DOMAIN s : s[j] = s[i]) = i
  BY <1>1
<1>3. After(s, s[i]) = IF i < Len(s) THEN s[i + 1] ELSE NULL
  BY <1>2 DEF After
<1>4. i < Len(s) => i + 1 \in DOMAIN s
  OBVIOUS
<1>5. QED
  BY <1>3, <1>4

LEMMA WithoutIs ==
    ASSUME NEW S, NEW s \in Seq(S), Distinct(s), NEW p
    PROVE  /\ Without(s, p) \in Seq(S) /\ Distinct(Without(s, p))
           /\ Range(Without(s, p)) = Range(s) \ {p}
<1>1. CASE ~\E i \in DOMAIN s : s[i] = p
  BY <1>1 DEF Without, Range
<1>2. ASSUME NEW k \in DOMAIN s, s[k] = p
      PROVE  /\ Without(s, p) \in Seq(S) /\ Distinct(Without(s, p))
             /\ Range(Without(s, p)) = Range(s) \ {p}
  <2> DEFINE w == [i \in 1 .. Len(s) - 1 |-> IF i < k THEN s[i] ELSE s[i + 1]]
  <2>1. \A j \in DOMAIN s : s[j] = s[k] => j = k
    BY DEF Distinct
  <2>2. (CHOOSE j \in DOMAIN s : s[j] = p) = k
    BY <1>2, <2>1
  <2>3. Without(s, p) = w
    BY <1>2, <2>2 DEF Without
  <2>4. k \in 1 .. Len(s) /\ DOMAIN s = 1 .. Len(s) /\ Len(s) \in Nat
    OBVIOUS
  <2>5. w \in Seq(S)
    <3>1. Len(s) - 1 \in Nat
      BY <2>4
    <3>2. \A i \in 1 .. Len(s) - 1 : w[i] \in S
      BY <2>4
    <3>3. QED
      BY <3>1, <3>2
  <2>6. DOMAIN w = 1 .. Len(s) - 1 /\ \A i \in 1 .. Len(s) - 1 : w[i] = IF i < k THEN s[i] ELSE s[i + 1]
    OBVIOUS
  <2> HIDE DEF w
  <2>7. Distinct(w)
    <3>1. ASSUME NEW i \in DOMAIN w, NEW j \in DOMAIN w, w[i] = w[j] PROVE i = j
      <4> DEFINE at(x) == IF x < k THEN x ELSE x + 1
      <4>1. at(i) \in DOMAIN s /\ at(j) \in DOMAIN s /\ s[at(i)] = s[at(j)]
        BY <2>4, <2>6, <3>1
      <4>2. at(i) = at(j)
        BY <4>1 DEF Distinct
      <4>3. QED
        BY <2>4, <2>6, <4>2
    <3>2. QED
      BY <3>1 DEF Distinct
  <2>8. Range(w) = Range(s) \ {p}
    <3>1. ASSUME NEW i \in DOMAIN w PROVE w[i] \in Range(s) \ {p}
      <4> DEFINE x == IF i < k THEN i ELSE i + 1
      <4>1. x \in DOMAIN s /\ x # k /\ w[i] = s[x]
        BY <2>4, <2>6
      <4>2. QED
        BY <1>2, <2>1, <4>1 DEF Range
    <3>2. ASSUME NEW i \in DOMAIN s, s[i] # p PROVE s[i] \in Range(w)
      <4> DEFINE x == IF i < k THEN i ELSE i - 1
      <4>1. i # k
        BY <1>2, <3>2
      <4>2. x \in DOMAIN w /\ w[x] = s[i]
        BY <2>4, <2>6, <4>1
      <4>3. QED
        BY <4>2 DEF Range
    <3>3. QED
      BY <3>1, <3>2 DEF Range
  <2>9. QED
    BY <2>3, <2>5, <2>7, <2>8
<1>3. QED
  BY <1>1, <1>2

LEMMA ListedIs == Listed = Range(list)
BY DEF Listed, Range

-----------------------------------------------------------------------------
(* What a step does to the thread that takes it. *)

Only(t) ==
    /\ pc' \in [Threads -> Labels] /\ stack' \in [Threads -> Seq(Labels)]
    /\ cur' \in [Threads -> Peers \cup {NULL}]
    /\ \A u \in Threads \ {t} : pc'[u] = pc[u] /\ stack'[u] = stack[u] /\ cur'[u] = cur[u]

LockStep(t) ==
    \/ mxPeers' = mxPeers /\ (HoldsPeers(t)' <=> HoldsPeers(t))
    \/ mxPeers = NULL /\ mxPeers' = t /\ HoldsPeers(t)'
    \/ mxPeers = t /\ mxPeers' = NULL /\ ~(HoldsPeers(t)')
ListenerStep(t) ==
    IF t = Worker THEN mxListener' = IF pc'[Worker] = "idle" THEN NULL ELSE Worker
                  ELSE mxListener' = mxListener
Acts(t) == Only(t) /\ Here(t)' /\ LockStep(t) /\ ListenerStep(t)

LEMMA ThreadNames ==
    /\ Net \in Threads /\ Worker \in Threads /\ AppThreads \subseteq Threads /\ Net # Worker
    /\ \A a \in AppThreads : a # Net /\ a # Worker
    /\ \A t \in Threads : t # NULL /\ (t \in AppThreads \/ t = Net \/ t = Worker)
    /\ NULL \notin Peers
BY ThreadsDistinct, NullIsNothing DEF Threads

LEMMA HereStep ==
    ASSUME NEW t \in Threads, Here(t), pc'[t] = pc[t], stack'[t] = stack[t], cur'[t] = cur[t]
    PROVE  Here(t)' /\ (HoldsPeers(t)' <=> HoldsPeers(t))
<1>1. \A r : Deletes(t, r)' <=> Deletes(t, r)
  BY DEF Deletes
<1>2. (Sends(t)' <=> Sends(t)) /\ (Leaves(t)' <=> Leaves(t)) /\ (Clearing(t)' <=> Clearing(t))
  BY DEF Sends, Leaves, Clearing
<1>3. (InMethod(t)' <=> InMethod(t)) /\ (InClear(t)' <=> InClear(t))
  BY <1>1, <1>2 DEF InMethod, InClear
<1>4. QED
  BY <1>2, <1>3 DEF Here, HoldsPeers

LEMMA ControlStep ==
    ASSUME TypeInv, NEW t \in Threads, Acts(t)
    PROVE  Control'
<1>1. ASSUME NEW u \in Threads PROVE Here(u)' /\ (mxPeers' = u <=> HoldsPeers(u)')
  <2>1. Here(u) /\ (mxPeers = u <=> HoldsPeers(u)) /\ (mxPeers = t <=> HoldsPeers(t))
    BY DEF TypeInv, Control
  <2>2. CASE u = t
    BY <2>1, <2>2, ThreadNames DEF Acts, LockStep
  <2>3. CASE u # t
    <3>1. Here(u)' /\ (HoldsPeers(u)' <=> HoldsPeers(u))
      BY <2>1, <2>3, HereStep DEF Acts, Only
    <3>2. QED
      BY <2>1, <2>3, <3>1, ThreadNames DEF Acts, LockStep
  <2>4. QED
    BY <2>2, <2>3
<1>2. mxListener' = IF pc'[Worker] = "idle" THEN NULL ELSE Worker
  BY ThreadNames DEF Acts, Only, ListenerStep, TypeInv, Control
<1>3. QED
  BY <1>1, <1>2 DEF Control

LEMMA ControlStay ==
    ASSUME TypeInv, UNCHANGED <<pc, stack, cur, mxPeers, mxListener>>
    PROVE  Control'
<1>1. \A t \in Threads : Here(t)' /\ (HoldsPeers(t)' <=> HoldsPeers(t))
  BY HereStep DEF TypeInv, Control
<1>2. QED
  BY <1>1 DEF TypeInv, Control

LEMMA MoveIs ==
    ASSUME TypeOK, NEW t \in Threads, NEW label \in Labels, NEW p \in Peers \cup {NULL},
           Move(t, label, p)
    PROVE  Only(t) /\ pc'[t] = label /\ cur'[t] = p /\ stack'[t] = stack[t]
BY DEF TypeOK, Move, Only

LEMMA CallIs ==
    ASSUME TypeOK, NEW t \in Threads, NEW label \in Labels, NEW p \in Peers \cup {NULL},
           NEW back \in Seq(Labels), Call(t, label, p, back)
    PROVE  Only(t) /\ pc'[t] = label /\ cur'[t] = p /\ stack'[t] = back \o stack[t]
<1> DEFINE s == back \o stack[t]
<1>1. stack[t] \in Seq(Labels)
  BY DEF TypeOK
<1>2. s \in Seq(Labels)
  BY <1>1
<1>3. stack' = [stack EXCEPT ![t] = s] /\ pc' = [pc EXCEPT ![t] = label] /\ cur' = [cur EXCEPT ![t] = p]
  BY DEF Call
<1> HIDE DEF s
<1>4. Only(t) /\ pc'[t] = label /\ cur'[t] = p /\ stack'[t] = s
  BY <1>2, <1>3 DEF TypeOK, Only
<1>5. QED
  BY <1>4 DEF s

LEMMA ReturnIs ==
    ASSUME TypeOK, NEW t \in Threads, Return(t), stack[t] # << >>
    PROVE  /\ Only(t) /\ pc'[t] = Head(stack[t]) /\ stack'[t] = Tail(stack[t])
           /\ cur'[t] = IF Head(stack[t]) \in {"idle", "clear", "next"} THEN NULL ELSE cur[t]
<1> DEFINE h == Head(stack[t])
           s == Tail(stack[t])
           c == IF h \in {"idle", "clear", "next"} THEN NULL ELSE cur[t]
<1>1. stack[t] \in Seq(Labels) /\ cur[t] \in Peers \cup {NULL}
  BY DEF TypeOK
<1>2. h \in Labels /\ s \in Seq(Labels) /\ c \in Peers \cup {NULL}
  BY <1>1
<1>3. stack' = [stack EXCEPT ![t] = s] /\ pc' = [pc EXCEPT ![t] = h] /\ cur' = [cur EXCEPT ![t] = c]
  BY DEF Return
<1> HIDE DEF h, s, c
<1>4. Only(t) /\ pc'[t] = h /\ cur'[t] = c /\ stack'[t] = s
  BY <1>2, <1>3 DEF TypeOK, Only
<1>5. QED
  BY <1>4 DEF h, s, c

-----------------------------------------------------------------------------
(* The threads where they own no Peer's method, and where they are in one. *)

LEMMA LabelSets ==
    /\ \A t \in Threads : OwnLabels(t) \subseteq Labels /\ OwnLabels(t) \cap PeerLabels = {}
    /\ NetLocked \subseteq OwnLabels(Net) /\ PeerLabels \subseteq Labels /\ "clear" \in Labels
    /\ "clear" \notin PeerLabels /\ \A t \in Threads : "clear" \notin OwnLabels(t)
    /\ SendLabels \subseteq PeerLabels
BY ThreadNames DEF OwnLabels, PeerLabels, Labels, SendLabels, NetLocked

LEMMA AtOwn ==
    ASSUME TypeInv, NEW t \in Threads, pc[t] \in OwnLabels(t)
    PROVE  stack[t] = << >> /\ ~InMethod(t) /\ ~Clearing(t)
<1>1. Here(t)
  BY DEF TypeInv, Control
<1>2. pc[t] \notin PeerLabels /\ pc[t] # "clear"
  BY LabelSets
<1>3. ~Clearing(t)
  BY <1>2 DEF Clearing
<1>4. ~InMethod(t)
  BY <1>2 DEF InMethod, Sends, Leaves, Deletes, PeerLabels, SendLabels
<1>5. QED
  BY <1>1, <1>3, <1>4 DEF Here

LEMMA AtMethod ==
    ASSUME TypeInv, NEW t \in Threads, pc[t] \in PeerLabels
    PROVE  InMethod(t) /\ ~Clearing(t) /\ cur[t] \in Peers
<1>1. Here(t)
  BY DEF TypeInv, Control
<1>2. pc[t] \notin OwnLabels(t) /\ pc[t] # "clear"
  BY LabelSets
<1>3. ~Clearing(t)
  BY <1>2 DEF Clearing
<1>4. cur[t] # NULL /\ cur[t] \in Peers \cup {NULL}
  BY <1>1 DEF Here, Busy, TypeInv, TypeOK
<1>5. QED
  BY <1>1, <1>2, <1>3, <1>4 DEF Here

LEMMA MethodLabels ==
    ASSUME NEW t \in Threads, InMethod(t)
    PROVE  pc[t] \in PeerLabels
BY DEF InMethod, Sends, Leaves, Deletes, PeerLabels, SendLabels

\* Whoever executes one of these labels holds m_mxPeers.
NetLockStep ==
    \/ mxPeers' = mxPeers /\ (pc[Net] \in NetLocked \cup PeerLabels <=> pc'[Net] \in NetLocked \cup PeerLabels)
    \/ mxPeers = NULL /\ mxPeers' = Net /\ pc'[Net] \in NetLocked
    \/ mxPeers = Net /\ mxPeers' = NULL /\ pc'[Net] \notin NetLocked \cup PeerLabels

LEMMA NetActs ==
    ASSUME TypeInv, Only(Net), NetLockStep, UNCHANGED mxListener,
           \/ pc'[Net] \in OwnLabels(Net) /\ stack'[Net] = << >>
           \/ pc'[Net] = "delete" /\ stack'[Net] \in Rests(Net)
           \/ pc'[Net] = "unregister" /\ stack'[Net] = <<"goodbye">>,
           pc'[Net] \in Busy => cur'[Net] # NULL
    PROVE  Acts(Net)
<1>1. LockStep(Net)
  BY DEF LockStep, NetLockStep, HoldsPeers
<1>2. ListenerStep(Net)
  BY ThreadNames DEF ListenerStep
<1>3. Here(Net)'
  BY ThreadNames DEF Here, InMethod, Deletes, Leaves
<1>4. QED
  BY <1>1, <1>2, <1>3 DEF Acts

LEMMA FirstIs ==
    ASSUME TypeInv
    PROVE  First(list) \in Listed \cup {NULL} /\ Listed \subseteq Peers
BY DEF TypeInv, TypeOK, First, Listed

LEMMA AfterListed ==
    ASSUME TypeInv, NEW p \in Listed
    PROVE  /\ After(list, p) \in Listed \cup {NULL}
           /\ After(list, p) # p
<1>1. PICK i \in DOMAIN list : list[i] = p
  BY DEF Listed
<1>2. list \in Seq(Peers) /\ Distinct(list) /\ p \in Peers
  BY <1>1, FirstIs DEF TypeInv, TypeOK, Iterates
<1>3. /\ After(list, list[i]) = IF i < Len(list) THEN list[i + 1] ELSE NULL
      /\ After(list, list[i]) # NULL => \E j \in DOMAIN list : j # i /\ After(list, list[i]) = list[j]
  BY <1>2, AfterIs
<1>4. QED
  BY <1>1, <1>2, <1>3, ThreadNames DEF Listed, Distinct

LEMMA CurListed ==
    ASSUME TypeInv, fault = "none", pc[Net] \in NetLocked \cup PeerLabels, cur[Net] # NULL
    PROVE  mxPeers = Net /\ cur[Net] \in Listed /\ cur[Net] \in Peers
BY ThreadNames, FirstIs DEF TypeInv, Control, HoldsPeers, Iterates
-----------------------------------------------------------------------------
(* The steps of the network thread. *)

LEMMA NetMoves ==
    ASSUME TypeInv, fault = "none", pc[Net] \in OwnLabels(Net), UNCHANGED mxListener, NetLockStep,
           NEW label \in OwnLabels(Net), NEW p \in Peers \cup {NULL}, Move(Net, label, p),
           label \in Busy => p # NULL
    PROVE  Acts(Net) /\ pc'[Net] = label /\ cur'[Net] = p /\ stack'[Net] = << >>
<1>1. label \in Labels
  BY ThreadNames, LabelSets
<1>2. Only(Net) /\ pc'[Net] = label /\ cur'[Net] = p /\ stack'[Net] = stack[Net]
  BY <1>1, MoveIs, ThreadNames DEF TypeInv
<1>3. stack[Net] = << >>
  BY AtOwn, ThreadNames
<1>4. QED
  BY <1>2, <1>3, NetActs

LEMMA NetCalls ==
    ASSUME TypeInv, fault = "none", pc[Net] \in NetLocked, UNCHANGED <<mxListener, mxPeers>>,
           cur[Net] \in Peers,
           NEW label, NEW back,
           \/ label = "delete" /\ back \in Rests(Net)
           \/ label = "unregister" /\ back = <<"goodbye">>,
           Call(Net, label, cur[Net], back)
    PROVE  Acts(Net) /\ pc'[Net] = label /\ cur'[Net] = cur[Net] /\ stack'[Net] = back
<1>1. label \in PeerLabels /\ label \in Labels
  BY LabelSets DEF PeerLabels, Labels
<1>2. {"goodbye", "pruneErase", "scanErase"} \subseteq Labels
  BY DEF Labels
<1>3. back \in Seq(Labels)
  <2>1. back = <<"goodbye">> \/ back = <<"pruneErase">> \/ back = <<"scanErase">>
    BY DEF Rests
  <2>2. QED
    BY <1>2, <2>1
<1>4. Only(Net) /\ pc'[Net] = label /\ cur'[Net] = cur[Net] /\ stack'[Net] = back \o stack[Net]
  BY <1>1, <1>3, CallIs, ThreadNames DEF TypeInv
<1>5. stack[Net] = << >>
  BY AtOwn, ThreadNames, LabelSets
<1>6. back \o << >> = back
  BY <1>3
<1>7. NetLockStep
  BY <1>1, <1>4 DEF NetLockStep
<1>8. QED
  BY <1>4, <1>5, <1>6, <1>7, NetActs, ThreadNames

LEMMA NetLabels ==
    /\ {"enter", "while", "select", "udp", "udpPeer", "lockScan", "ended"} \subseteq OwnLabels(Net)
    /\ {"enter", "while", "select", "udp", "udpPeer", "lockScan", "ended"}
            \cap (NetLocked \cup PeerLabels) = {}
    /\ {"prune", "pruneErase", "scan", "read", "readFailed", "scanErase", "handle", "goodbye"}
            = NetLocked
    /\ {"enter", "while", "select", "udp", "lockScan", "ended", "prune", "scan"} \cap Busy = {}
    /\ {"udpPeer", "pruneErase", "read", "readFailed", "scanErase", "handle", "goodbye"} \subseteq Busy
BY DEF OwnLabels, NetLocked, PeerLabels, SendLabels, Busy

\* What keeps m_mxPeers.
LEMMA NetKeeps ==
    ASSUME UNCHANGED mxPeers, pc[Net] \in NetLocked \cup PeerLabels <=> pc'[Net] \in NetLocked \cup PeerLabels
    PROVE  NetLockStep
BY DEF NetLockStep

LEMMA MoveTo ==
    ASSUME TypeInv, NEW label \in Labels, NEW p \in Peers \cup {NULL}, Move(Net, label, p)
    PROVE  pc'[Net] = label
BY ThreadNames, MoveIs DEF TypeInv

\* The steps outside of the two loops.
LEMMA OutsideIs ==
    ASSUME TypeInv, Enter \/ While \/ Unlock("prune", "select") \/ Select \/ UdpFind \/ UdpReceive
                    \/ LockScan \/ Unlock("scan", "while")
    PROVE  /\ Acts(Net) /\ fault = "none" /\ fault' = "none" /\ stack[Net] = << >> /\ stack'[Net] = << >>
           /\ \/ pc[Net] = "enter" /\ pc'[Net] = "while" /\ cur'[Net] = cur[Net]
              \/ pc[Net] = "while" /\ pc'[Net] = "prune" /\ cur'[Net] = First(list)
              \/ pc[Net] = "while" /\ pc'[Net] = "ended" /\ cur'[Net] = cur[Net]
              \/ pc[Net] = "prune" /\ pc'[Net] = "select" /\ cur'[Net] = cur[Net]
              \/ pc[Net] = "select" /\ pc'[Net] \in {"udp", "while"} /\ cur'[Net] = cur[Net]
              \/ pc[Net] = "udp" /\ pc'[Net] = "udpPeer" /\ cur'[Net] # NULL /\ \E i \in IDs : cur'[Net] = byID[i]
              \/ pc[Net] = "udp" /\ pc'[Net] = "lockScan" /\ cur'[Net] = cur[Net]
              \/ pc[Net] = "udpPeer" /\ pc'[Net] = "lockScan" /\ cur'[Net] = NULL
              \/ pc[Net] = "lockScan" /\ pc'[Net] = "scan" /\ cur'[Net] = First(list)
              \/ pc[Net] = "scan" /\ pc'[Net] = "while" /\ cur'[Net] = cur[Net]
<1> USE ThreadNames, NetLabels
<1>a. First(list) \in Peers \cup {NULL} /\ cur[Net] \in Peers \cup {NULL} /\ NULL \in Peers \cup {NULL}
  BY FirstIs DEF TypeInv, TypeOK
<1>b. {"while", "prune", "ended", "select", "udp", "udpPeer", "lockScan", "scan"} \subseteq Labels
  BY DEF Labels
<1>c. pc[Net] \in OwnLabels(Net) => stack[Net] = << >>
  BY AtOwn
<1>1. CASE Enter
  <2>1. Move(Net, "while", cur[Net]) /\ UNCHANGED <<mxPeers, mxListener>> /\ At(Net, "enter") /\ UNCHANGED fault
    BY <1>1 DEF Enter, Goto, netVars, brokerVars
  <2>2. NetLockStep
    BY <1>a, <1>b, <2>1, MoveTo, NetKeeps DEF At
  <2>3. QED
    BY <1>a, <1>c, <2>1, <2>2, NetMoves DEF At
<1>2. CASE While
  <2>1. CASE running
    <3>1. Move(Net, "prune", First(list)) /\ mxPeers = NULL /\ mxPeers' = Net
          /\ UNCHANGED mxListener /\ At(Net, "while") /\ UNCHANGED fault
      BY <1>2, <2>1 DEF While, netVars, brokerVars
    <3>2. NetLockStep
      BY <1>a, <1>b, <3>1, MoveTo DEF NetLockStep
    <3>3. QED
      BY <1>a, <1>c, <3>1, <3>2, NetMoves, LabelSets DEF At
  <2>2. CASE ~running
    <3>1. Move(Net, "ended", cur[Net]) /\ UNCHANGED <<mxPeers, mxListener>> /\ At(Net, "while") /\ UNCHANGED fault
      BY <1>2, <2>2 DEF While, Goto, netVars, brokerVars
    <3>2. NetLockStep
      BY <1>a, <1>b, <3>1, MoveTo, NetKeeps DEF At
    <3>3. QED
      BY <1>a, <1>c, <3>1, <3>2, NetMoves DEF At
  <2>3. QED
    BY <2>1, <2>2
<1>3. ASSUME NEW l \in {"prune", "scan"}, NEW n \in {"select", "while"}, Unlock(l, n)
      PROVE  /\ Acts(Net) /\ fault = "none" /\ fault' = "none" /\ stack[Net] = << >> /\ stack'[Net] = << >>
             /\ pc[Net] = l /\ pc'[Net] = n /\ cur'[Net] = cur[Net]
  <2>1. Move(Net, n, cur[Net]) /\ mxPeers' = NULL /\ UNCHANGED mxListener /\ At(Net, l) /\ UNCHANGED fault
    BY <1>3 DEF Unlock, Goto, netVars, brokerVars
  <2>2. mxPeers = Net
    BY <2>1 DEF At, TypeInv, Control, HoldsPeers
  <2>3. NetLockStep
    BY <1>a, <1>b, <2>1, <2>2, MoveTo DEF NetLockStep
  <2>4. l \in OwnLabels(Net) /\ n \in OwnLabels(Net) /\ n \notin Busy
    BY LabelSets
  <2>5. QED
    BY <1>a, <1>c, <2>1, <2>3, <2>4, NetMoves DEF At
<1>4. CASE Select
  <2>1. PICK n \in {"udp", "while"} : Move(Net, n, cur[Net])
    BY <1>4 DEF Select, Goto
  <2>2. UNCHANGED <<mxPeers, mxListener>> /\ At(Net, "select") /\ UNCHANGED fault
    BY <1>4 DEF Select, netVars, brokerVars
  <2>3. NetLockStep
    BY <1>a, <1>b, <2>1, <2>2, MoveTo, NetKeeps DEF At
  <2>4. QED
    BY <1>a, <1>c, <2>1, <2>2, <2>3, NetMoves DEF At
<1>5. CASE UdpFind
  <2>1. UNCHANGED <<mxPeers, mxListener>> /\ At(Net, "udp") /\ UNCHANGED fault
    BY <1>5 DEF UdpFind, netVars, brokerVars
  <2>2. CASE \E i \in IDs : byID[i] # NULL /\ Move(Net, "udpPeer", byID[i])
    <3>1. PICK i \in IDs : byID[i] # NULL /\ Move(Net, "udpPeer", byID[i])
      BY <2>2
    <3>2. byID[i] \in Peers \cup {NULL}
      BY DEF TypeInv, TypeOK
    <3>3. NetLockStep
      BY <1>b, <2>1, <3>1, <3>2, MoveTo, NetKeeps DEF At
    <3>4. QED
      BY <1>c, <2>1, <3>1, <3>2, <3>3, NetMoves DEF At
  <2>3. CASE Move(Net, "lockScan", cur[Net])
    <3>1. NetLockStep
      BY <1>a, <1>b, <2>1, <2>3, MoveTo, NetKeeps DEF At
    <3>2. QED
      BY <1>a, <1>c, <2>1, <2>3, <3>1, NetMoves DEF At
  <2>4. QED
    BY <1>5, <2>2, <2>3 DEF UdpFind, Goto
<1>6. CASE UdpReceive
  <2>1. Move(Net, "lockScan", NULL) /\ UNCHANGED <<mxPeers, mxListener>> /\ At(Net, "udpPeer") /\ UNCHANGED fault
    BY <1>6 DEF UdpReceive, In, netVars, brokerVars
  <2>2. NetLockStep
    BY <1>a, <1>b, <2>1, MoveTo, NetKeeps DEF At
  <2>3. QED
    BY <1>a, <1>c, <2>1, <2>2, NetMoves DEF At
<1>7. CASE LockScan
  <2>1. Move(Net, "scan", First(list)) /\ mxPeers = NULL /\ mxPeers' = Net
        /\ UNCHANGED mxListener /\ At(Net, "lockScan") /\ UNCHANGED fault
    BY <1>7 DEF LockScan, netVars, brokerVars
  <2>2. NetLockStep
    BY <1>a, <1>b, <2>1, MoveTo DEF NetLockStep
  <2>3. QED
    BY <1>a, <1>c, <2>1, <2>2, NetMoves, LabelSets DEF At
<1>8. QED
  BY <1>1, <1>2, <1>3, <1>4, <1>5, <1>6, <1>7

LEMMA NetInner ==
    ASSUME TypeInv, fault = "none", pc[Net] \in NetLocked, UNCHANGED <<mxListener, mxPeers>>,
           NEW label \in NetLocked, NEW p \in Peers \cup {NULL}, Move(Net, label, p),
           label \in Busy => p # NULL
    PROVE  Acts(Net) /\ pc'[Net] = label /\ cur'[Net] = p /\ stack'[Net] = << >>
<1>1. label \in Labels /\ label \in OwnLabels(Net) /\ pc[Net] \in OwnLabels(Net)
  BY LabelSets, ThreadNames
<1>2. NetLockStep
  BY <1>1, MoveTo, NetKeeps
<1>3. QED
  BY <1>1, <1>2, NetMoves

\* The steps of the two loops.
Skips(t) == cur'[t] = After(list, cur[t])
Keeps(t) == cur'[t] = cur[t]
LoopStep ==
    \/ pc[Net] = "prune" /\ pc'[Net] = "prune" /\ Skips(Net) /\ stack'[Net] = << >>
    \/ pc[Net] = "prune" /\ pc'[Net] = "delete" /\ Keeps(Net) /\ stack'[Net] = <<"pruneErase">>
    \/ pc[Net] = "scan" /\ pc'[Net] = "scan" /\ Skips(Net) /\ stack'[Net] = << >>
    \/ pc[Net] = "scan" /\ pc'[Net] = "read" /\ Keeps(Net) /\ stack'[Net] = << >>
    \/ pc[Net] = "read" /\ pc'[Net] = "scan" /\ Skips(Net) /\ stack'[Net] = << >>
    \/ pc[Net] = "read" /\ pc'[Net] \in {"handle", "readFailed"} /\ Keeps(Net) /\ stack'[Net] = << >>
    \/ pc[Net] = "readFailed" /\ pc'[Net] = "scan" /\ Skips(Net) /\ stack'[Net] = << >>
    \/ pc[Net] = "readFailed" /\ pc'[Net] = "delete" /\ Keeps(Net) /\ stack'[Net] = <<"scanErase">>
    \/ pc[Net] = "handle" /\ pc'[Net] = "scan" /\ Skips(Net) /\ stack'[Net] = << >>
    \/ pc[Net] = "handle" /\ pc'[Net] \in {"handle", "goodbye"} /\ Keeps(Net) /\ stack'[Net] = << >>
    \/ pc[Net] = "handle" /\ pc'[Net] = "unregister" /\ Keeps(Net) /\ stack'[Net] = <<"goodbye">>
EraseStep ==
    \/ /\ pc[Net] = "pruneErase" /\ pc'[Net] = "prune" /\ stack'[Net] = << >>
       /\ cur'[Net] = IF After(list, cur[Net]) = NULL THEN First(list') ELSE After(list', After(list, cur[Net]))
    \/ pc[Net] \in {"scanErase", "goodbye"} /\ pc'[Net] = "scan" /\ Skips(Net) /\ stack'[Net] = << >>
Inside ==
    /\ Acts(Net) /\ fault = "none" /\ fault' = "none" /\ stack[Net] = << >>
    /\ cur[Net] \in Listed /\ cur[Net] \in Peers /\ mxPeers = Net /\ mxPeers' = Net
    /\ (list' = list /\ LoopStep) \/ (list' = Without(list, cur[Net]) /\ EraseStep)

LEMMA InsideAt ==
    ASSUME TypeInv, pc[Net] \in NetLocked, fault = "none", cur[Net] # NULL
    PROVE  /\ mxPeers = Net /\ cur[Net] \in Listed /\ cur[Net] \in Peers /\ stack[Net] = << >>
           /\ After(list, cur[Net]) \in Peers \cup {NULL}
           /\ After(list, cur[Net]) \in Listed \cup {NULL} /\ After(list, cur[Net]) # cur[Net]
<1>1. mxPeers = Net /\ cur[Net] \in Listed /\ cur[Net] \in Peers
  BY CurListed
<1>2. stack[Net] = << >>
  BY AtOwn, ThreadNames, LabelSets
<1>3. /\ After(list, cur[Net]) \in Listed \cup {NULL}
      /\ After(list, cur[Net]) # cur[Net]
  BY <1>1, AfterListed
<1>4. QED
  BY <1>1, <1>2, <1>3, FirstIs

LEMMA BusyCur ==
    ASSUME TypeInv, pc[Net] \in {"pruneErase", "read", "readFailed", "scanErase", "handle", "goodbye"}
    PROVE  cur[Net] # NULL
BY ThreadNames, NetLabels DEF TypeInv, Control, Here

LEMMA InsideFirst ==
    ASSUME TypeInv, Prune \/ PruneErase \/ Scan \/ Read
    PROVE  Inside
<1> USE ThreadNames, NetLabels DEF Skips, Keeps
<1>1. CASE Prune
  <2>1. At(Net, "prune") /\ cur[Net] # NULL /\ UNCHANGED <<mxPeers, mxListener, fault, list>>
    BY <1>1 DEF Prune, brokerVars
  <2>2. /\ mxPeers = Net /\ cur[Net] \in Listed /\ cur[Net] \in Peers /\ stack[Net] = << >>
        /\ After(list, cur[Net]) \in Peers \cup {NULL}
    BY <2>1, InsideAt DEF At
  <2>3. CASE Move(Net, "prune", After(list, cur[Net]))
    BY <2>1, <2>2, <2>3, NetInner DEF At, Inside, LoopStep, EraseStep
  <2>4. CASE Call(Net, "delete", cur[Net], <<"pruneErase">>)
    <3>1. <<"pruneErase">> \in Rests(Net)
      BY DEF Rests
    <3>2. QED
      BY <2>1, <2>2, <2>4, <3>1, NetCalls DEF At, Inside, LoopStep, EraseStep
  <2>5. QED
    BY <1>1, <2>3, <2>4 DEF Prune
<1>2. CASE PruneErase
  <2> DEFINE p == cur[Net]
             next == After(list, p)
             rest == Without(list, p)
             c == IF next = NULL THEN First(rest) ELSE After(rest, next)
  <2>1. At(Net, "pruneErase") /\ UNCHANGED <<mxPeers, mxListener, fault>> /\ list' = rest /\ Move(Net, "prune", c)
    BY <1>2 DEF PruneErase, brokerVars
  <2>2. /\ mxPeers = Net /\ p \in Listed /\ p \in Peers /\ stack[Net] = << >>
        /\ next \in Listed \cup {NULL} /\ next # p
    BY <2>1, InsideAt, BusyCur DEF At
  <2>3. rest \in Seq(Peers) /\ Distinct(rest) /\ Range(rest) = Listed \ {p}
    BY WithoutIs, ListedIs DEF TypeInv, TypeOK, Iterates
  <2>4. c \in Peers \cup {NULL}
    <3> HIDE DEF next, rest
    <3>1. CASE next = NULL
      BY <2>3, <3>1 DEF First
    <3>2. CASE next # NULL
      <4>1. PICK i \in DOMAIN rest : rest[i] = next
        BY <2>2, <2>3, <3>2 DEF Range
      <4>2. After(rest, rest[i]) = IF i < Len(rest) THEN rest[i + 1] ELSE NULL
        BY <2>3, <4>1, AfterIs
      <4>3. QED
        BY <2>3, <3>2, <4>1, <4>2
    <3>3. QED
      BY <3>1, <3>2
  <2> HIDE DEF c
  <2>5. Acts(Net) /\ pc'[Net] = "prune" /\ cur'[Net] = c /\ stack'[Net] = << >>
    BY <2>1, <2>2, <2>4, NetInner DEF At
  <2>6. QED
    BY <2>1, <2>2, <2>5 DEF At, Inside, EraseStep, c
<1>3. CASE Scan
  <2>1. At(Net, "scan") /\ cur[Net] # NULL /\ UNCHANGED <<mxPeers, mxListener, fault, list>>
    BY <1>3 DEF Scan, netVars, brokerVars
  <2>2. /\ mxPeers = Net /\ cur[Net] \in Listed /\ cur[Net] \in Peers /\ stack[Net] = << >>
        /\ After(list, cur[Net]) \in Peers \cup {NULL}
    BY <2>1, InsideAt DEF At
  <2>3. CASE Move(Net, "scan", After(list, cur[Net]))
    BY <2>1, <2>2, <2>3, NetInner DEF At, Inside, LoopStep, EraseStep
  <2>4. CASE Move(Net, "read", cur[Net])
    BY <2>1, <2>2, <2>4, NetInner DEF At, Inside, LoopStep, EraseStep
  <2>5. QED
    BY <1>3, <2>3, <2>4 DEF Scan, Goto
<1>4. CASE Read
  <2>1. At(Net, "read") /\ UNCHANGED <<mxPeers, mxListener, fault, list>>
    BY <1>4 DEF Read, brokerVars
  <2>2. /\ mxPeers = Net /\ cur[Net] \in Listed /\ cur[Net] \in Peers /\ stack[Net] = << >>
        /\ After(list, cur[Net]) \in Peers \cup {NULL}
    BY <2>1, InsideAt, BusyCur DEF At
  <2>3. CASE Move(Net, "scan", After(list, cur[Net]))
    BY <2>1, <2>2, <2>3, NetInner DEF At, Inside, LoopStep, EraseStep
  <2>4. ASSUME NEW l \in {"handle", "readFailed"}, Move(Net, l, cur[Net])
        PROVE  Inside
    <3>1. l \in NetLocked
      OBVIOUS
    <3>2. Acts(Net) /\ pc'[Net] = l /\ cur'[Net] = cur[Net] /\ stack'[Net] = << >>
      BY <2>1, <2>2, <2>4, <3>1, NetInner DEF At
    <3>3. QED
      BY <2>1, <2>2, <3>2 DEF At, Inside, LoopStep, EraseStep
  <2>5. QED
    BY <1>4, <2>3, <2>4 DEF Read, Goto
<1>5. QED
  BY <1>1, <1>2, <1>3, <1>4

LEMMA InsideSecond ==
    ASSUME TypeInv, ReadFailed \/ ScanErase \/ HandleData \/ HandleSubscribe \/ HandleGoodbye \/ Goodbye
    PROVE  Inside
<1> USE ThreadNames, NetLabels DEF Skips, Keeps
<1>1. CASE ReadFailed
  <2>1. At(Net, "readFailed") /\ UNCHANGED <<mxPeers, mxListener, fault, list>>
    BY <1>1 DEF ReadFailed, netVars, brokerVars
  <2>2. /\ mxPeers = Net /\ cur[Net] \in Listed /\ cur[Net] \in Peers /\ stack[Net] = << >>
        /\ After(list, cur[Net]) \in Peers \cup {NULL}
    BY <2>1, InsideAt, BusyCur DEF At
  <2>3. CASE Move(Net, "scan", After(list, cur[Net]))
    BY <2>1, <2>2, <2>3, NetInner DEF At, Inside, LoopStep, EraseStep
  <2>4. CASE Call(Net, "delete", cur[Net], <<"scanErase">>)
    <3>1. <<"scanErase">> \in Rests(Net)
      BY DEF Rests
    <3>2. QED
      BY <2>1, <2>2, <2>4, <3>1, NetCalls DEF At, Inside, LoopStep, EraseStep
  <2>5. QED
    BY <1>1, <2>3, <2>4 DEF ReadFailed
<1>2. CASE ScanErase \/ Goodbye
  <2>1. PICK l \in {"scanErase", "goodbye"} : At(Net, l)
    BY <1>2 DEF ScanErase, Goodbye
  <2>2. /\ UNCHANGED <<mxPeers, mxListener, fault>> /\ list' = Without(list, cur[Net])
        /\ Move(Net, "scan", After(list, cur[Net]))
    BY <1>2 DEF ScanErase, Goodbye, brokerVars
  <2>3. pc[Net] \in NetLocked /\ cur[Net] # NULL
    BY <2>1, BusyCur DEF At
  <2>4. /\ mxPeers = Net /\ cur[Net] \in Listed /\ cur[Net] \in Peers /\ stack[Net] = << >>
        /\ After(list, cur[Net]) \in Peers \cup {NULL}
    BY <2>1, <2>3, InsideAt DEF At
  <2>5. Acts(Net) /\ pc'[Net] = "scan" /\ cur'[Net] = After(list, cur[Net]) /\ stack'[Net] = << >>
    BY <2>1, <2>2, <2>3, <2>4, NetInner DEF At
  <2>6. QED
    BY <2>1, <2>2, <2>4, <2>5 DEF At, Inside, LoopStep, EraseStep
<1>3. CASE HandleData \/ HandleSubscribe \/ HandleGoodbye
  <2>1. At(Net, "handle") /\ UNCHANGED <<mxPeers, mxListener, fault, list>>
    BY <1>3 DEF HandleData, HandleSubscribe, HandleGoodbye, netVars, brokerVars
  <2>2. /\ mxPeers = Net /\ cur[Net] \in Listed /\ cur[Net] \in Peers /\ stack[Net] = << >>
        /\ After(list, cur[Net]) \in Peers \cup {NULL}
    BY <2>1, InsideAt, BusyCur DEF At
  <2>3. CASE Move(Net, "scan", After(list, cur[Net]))
    BY <2>1, <2>2, <2>3, NetInner DEF At, Inside, LoopStep, EraseStep
  <2>4. ASSUME NEW l \in {"handle", "goodbye"}, Move(Net, l, cur[Net])
        PROVE  Inside
    <3>1. l \in NetLocked
      OBVIOUS
    <3>2. Acts(Net) /\ pc'[Net] = l /\ cur'[Net] = cur[Net] /\ stack'[Net] = << >>
      BY <2>1, <2>2, <2>4, <3>1, NetInner DEF At
    <3>3. QED
      BY <2>1, <2>2, <3>2 DEF At, Inside, LoopStep, EraseStep
  <2>5. CASE Call(Net, "unregister", cur[Net], <<"goodbye">>)
    BY <2>1, <2>2, <2>5, NetCalls DEF At, Inside, LoopStep, EraseStep
  <2>6. QED
    BY <1>3, <2>3, <2>4, <2>5 DEF HandleData, HandleSubscribe, HandleGoodbye, NextOfBatch, Goto
<1>4. QED
  BY <1>1, <1>2, <1>3
-----------------------------------------------------------------------------
(* The steps inside a method of a Peer. *)

LEMMA OneRest ==
    ASSUME NEW r \in AllRests, NEW q \in AllRests
    PROVE  /\ <<"free">> \o r = <<"free">> \o q => r = q
           /\ <<"unregister", "free">> \o r = <<"unregister", "free">> \o q => r = q
           /\ <<"unregister", "free">> \o r \notin {<<"idle">>, <<"next">>}
           /\ <<"free">> \o r # <<"goodbye">>
<1>1. /\ Tail(<<"free">> \o r) = r /\ Tail(<<"free">> \o q) = q
      /\ Tail(<<"unregister", "free">> \o r) = <<"free">> \o r
      /\ Tail(<<"unregister", "free">> \o q) = <<"free">> \o q
      /\ Head(<<"unregister", "free">> \o r) = "unregister" /\ Head(<<"free">> \o r) = "free"
  BY Back
<1>2. <<"free">> \o r = <<"free">> \o q => Tail(<<"free">> \o r) = Tail(<<"free">> \o q)
  OBVIOUS
<1>3. <<"unregister", "free">> \o r = <<"unregister", "free">> \o q
          => Tail(<<"unregister", "free">> \o r) = Tail(<<"unregister", "free">> \o q)
  OBVIOUS
<1>4. \A s : s \in {<<"idle">>, <<"next">>} => Head(s) # "unregister"
  OBVIOUS
<1>5. \A s : s = <<"goodbye">> => Head(s) # "free"
  OBVIOUS
<1>6. QED
  BY <1>1, <1>2, <1>3, <1>4, <1>5

LEMMA RestsIs == \A t \in Threads : Rests(t) \subseteq AllRests /\ Rests(Worker) = {}
BY ThreadNames DEF Rests, AllRests

\* A thread is in one method.
LEMMA OneMethod ==
    ASSUME NEW t \in Threads
    PROVE  /\ \A r, q \in Rests(t) : Deletes(t, r) /\ Deletes(t, q) => r = q
           /\ Sends(t) => ~Leaves(t) /\ \A r \in Rests(t) : ~Deletes(t, r)
           /\ Leaves(t) => \A r \in Rests(t) : ~Deletes(t, r)
<1>1. ASSUME NEW r \in Rests(t), NEW q \in Rests(t), Deletes(t, r), Deletes(t, q) PROVE r = q
  <2>1. r \in AllRests /\ q \in AllRests
    BY RestsIs
  <2>2. /\ <<"free">> \o r = <<"free">> \o q => r = q
        /\ <<"unregister", "free">> \o r = <<"unregister", "free">> \o q => r = q
    BY <2>1, OneRest
  <2>3. QED
    BY <1>1, <2>2 DEF Deletes, SendLabels
<1>2. ASSUME NEW r \in Rests(t), Deletes(t, r) PROVE ~Sends(t) /\ ~Leaves(t)
  <2>1. r \in AllRests
    BY RestsIs
  <2>2. <<"unregister", "free">> \o r \notin {<<"idle">>, <<"next">>} /\ <<"free">> \o r # <<"goodbye">>
    BY <2>1, OneRest
  <2>3. QED
    BY <1>2, <2>2 DEF Deletes, Sends, Leaves, Home, SendLabels
<1>3. QED
  BY <1>1, <1>2 DEF Sends, Leaves

LEMMA OneMethodNext ==
    ASSUME NEW t \in Threads
    PROVE  /\ \A r, q \in Rests(t) : Deletes(t, r)' /\ Deletes(t, q)' => r = q
           /\ Sends(t)' => ~(Leaves(t)') /\ \A r \in Rests(t) : ~(Deletes(t, r)')
           /\ Leaves(t)' => \A r \in Rests(t) : ~(Deletes(t, r)')
<1>1. ASSUME NEW r \in Rests(t), NEW q \in Rests(t), Deletes(t, r)', Deletes(t, q)' PROVE r = q
  <2>1. r \in AllRests /\ q \in AllRests
    BY RestsIs
  <2>2. /\ <<"free">> \o r = <<"free">> \o q => r = q
        /\ <<"unregister", "free">> \o r = <<"unregister", "free">> \o q => r = q
    BY <2>1, OneRest
  <2>3. QED
    BY <1>1, <2>2 DEF Deletes, SendLabels
<1>2. ASSUME NEW r \in Rests(t), Deletes(t, r)' PROVE ~(Sends(t)') /\ ~(Leaves(t)')
  <2>1. r \in AllRests
    BY RestsIs
  <2>2. <<"unregister", "free">> \o r \notin {<<"idle">>, <<"next">>} /\ <<"free">> \o r # <<"goodbye">>
    BY <2>1, OneRest
  <2>3. QED
    BY <1>2, <2>2 DEF Deletes, Sends, Leaves, Home, SendLabels
<1>3. QED
  BY <1>1, <1>2 DEF Sends, Leaves

Deleting(t) == \E r \in Rests(t) : Deletes(t, r) /\ Deletes(t, r)' /\ Keeps(t)
Deleted(t) == \E r \in Rests(t) :
    /\ Deletes(t, r) /\ pc[t] = "free" /\ pc'[t] = Head(r) /\ stack'[t] = Tail(r)
    /\ cur'[t] = IF t = Net THEN cur[t] ELSE NULL
Sending(t) == Sends(t) /\ Sends(t)' /\ Keeps(t)
Sent(t)    == Sends(t) /\ pc'[t] = Home(t) /\ stack'[t] = << >> /\ cur'[t] = NULL
Leaving(t) == Leaves(t) /\ Leaves(t)' /\ Keeps(t)
Left(t)    == Leaves(t) /\ pc[t] = "drop" /\ pc'[t] = "goodbye" /\ stack'[t] = << >> /\ Keeps(t)
InMethodStep(t) == Deleting(t) \/ Deleted(t) \/ Sending(t) \/ Sent(t) \/ Leaving(t) \/ Left(t)

LEMMA MethodActs ==
    ASSUME TypeInv, NEW t \in Threads, pc[t] \in PeerLabels, Only(t), UNCHANGED <<mxPeers, mxListener>>,
           InMethodStep(t)
    PROVE  Acts(t)
<1> USE ThreadNames
<1>1. InMethod(t) /\ ~Clearing(t) /\ cur[t] \in Peers /\ cur[t] # NULL
  BY AtMethod
<1>2. CASE Deleting(t)
  <2>1. PICK r \in Rests(t) : Deletes(t, r) /\ Deletes(t, r)' /\ cur'[t] = cur[t]
    BY <1>2 DEF Deleting, Keeps
  <2>2. InMethod(t)' /\ pc'[t] \in PeerLabels
    BY <2>1 DEF InMethod, Deletes, PeerLabels, SendLabels
  <2>3. Here(t)'
    BY <1>1, <2>1, <2>2 DEF Here
  <2>4. t # Worker
    BY <2>1, RestsIs
  <2>5. ~(Clearing(t)')
    BY <2>2, LabelSets DEF Clearing
  <2>6. HoldsPeers(t)' <=> HoldsPeers(t)
    <3>1. CASE t = Net
      BY <2>2, <3>1 DEF HoldsPeers
    <3>2. CASE t # Net
      <4>1. \A q \in Rests(t) : Deletes(t, q) <=> Deletes(t, q)'
        BY <2>1, OneMethod, OneMethodNext
      <4>2. {<<"clear", "idle">>, <<"clear", "done">>} \subseteq Rests(t)
        BY <2>4, <3>2 DEF Rests
      <4>3. InClear(t)' <=> InClear(t)
        BY <1>1, <2>5, <4>1, <4>2 DEF InClear
      <4>4. QED
        BY <3>2, <4>3 DEF HoldsPeers
    <3>3. QED
      BY <3>1, <3>2
  <2>7. QED
    BY <2>3, <2>4, <2>6 DEF Acts, LockStep, ListenerStep
<1>3. CASE Deleted(t)
  <2>1. PICK r \in Rests(t) : /\ Deletes(t, r) /\ pc[t] = "free" /\ pc'[t] = Head(r) /\ stack'[t] = Tail(r)
                              /\ cur'[t] = IF t = Net THEN cur[t] ELSE NULL
    BY <1>3 DEF Deleted
  <2>2. t # Worker
    BY <2>1, RestsIs
  <2>3. CASE t = Net
    <3>1. pc'[Net] \in {"pruneErase", "scanErase"} /\ stack'[Net] = << >>
      BY <2>1, <2>3, RestHeads DEF Rests
    <3>2. Here(t)' /\ HoldsPeers(t) /\ HoldsPeers(t)'
      BY <1>1, <2>1, <2>3, <3>1, NetLabels, LabelSets DEF Here, HoldsPeers
    <3>3. QED
      BY <2>2, <3>2 DEF Acts, LockStep, ListenerStep
  <2>4. CASE t # Net /\ r = <<"idle">>
    <3>1. pc'[t] = "idle" /\ stack'[t] = << >>
      BY <2>1, <2>4, RestHeads
    <3>2. Here(t)' /\ ~(Clearing(t)') /\ ~(InMethod(t)')
      BY <2>2, <2>4, <3>1, LabelSets
         DEF Here, Clearing, Busy, OwnLabels, InMethod, Deletes, Sends, Leaves, PeerLabels, SendLabels, NetLocked
    <3>3. \A q \in {<<"clear", "idle">>, <<"clear", "done">>} : ~Deletes(t, q)
      BY <2>1, <2>2, <2>4, OneMethod DEF Rests
    <3>4. \A q \in {<<"clear", "idle">>, <<"clear", "done">>} : ~(Deletes(t, q)')
      BY <2>2, <2>4, <3>2 DEF Rests, InMethod
    <3>5. ~HoldsPeers(t) /\ ~(HoldsPeers(t)')
      BY <1>1, <2>4, <3>2, <3>3, <3>4 DEF HoldsPeers, InClear
    <3>6. QED
      BY <2>2, <3>2, <3>5 DEF Acts, LockStep, ListenerStep
  <2>5. CASE t # Net /\ r \in {<<"clear", "idle">>, <<"clear", "done">>}
    <3>1. pc'[t] = "clear" /\ stack'[t] \in {<<"idle">>, <<"done">>}
      BY <2>1, <2>5, RestHeads
    <3>2. Clearing(t)' /\ "clear" \notin Busy
      BY <2>2, <2>5, <3>1 DEF Clearing, Busy, PeerLabels, SendLabels, NetLocked
    <3>3. Here(t)' /\ HoldsPeers(t) /\ HoldsPeers(t)'
      BY <2>1, <2>2, <2>5, <3>1, <3>2 DEF Here, HoldsPeers, InClear
    <3>4. QED
      BY <2>2, <3>3 DEF Acts, LockStep, ListenerStep
  <2>6. QED
    BY <2>1, <2>2, <2>3, <2>4, <2>5 DEF Rests
<1>4. CASE Sending(t) \/ Sent(t)
  <2>1. Sends(t) /\ t # Net /\ pc[t] \in SendLabels /\ stack[t] = <<Home(t)>>
    BY <1>4 DEF Sending, Sent, Sends
  <2>2. \/ Sends(t)' /\ cur'[t] = cur[t]
        \/ pc'[t] = Home(t) /\ stack'[t] = << >> /\ cur'[t] = NULL
    BY <1>4 DEF Sending, Sent, Keeps
  <2>3. Home(t) \in OwnLabels(t) /\ Home(t) \notin Busy /\ Home(t) \notin PeerLabels /\ Home(t) # "clear"
    BY <2>1 DEF Home, OwnLabels, Busy, PeerLabels, SendLabels, NetLocked
  <2>4. Here(t)'
    BY <1>1, <2>2, <2>3 DEF Here, InMethod
  <2>5. ~HoldsPeers(t)
    BY <1>1, <2>1, OneMethod DEF HoldsPeers, InClear, Rests
  <2>6. ~(Clearing(t)') /\ \A r \in Rests(t) : ~(Deletes(t, r)')
    <3>1. CASE Sends(t)'
      BY <3>1, OneMethodNext DEF Sends, Clearing, SendLabels
    <3>2. CASE pc'[t] = Home(t)
      BY <2>3, <3>2 DEF Clearing, Deletes, PeerLabels, SendLabels
    <3>3. QED
      BY <2>2, <3>1, <3>2
  <2>7. ~(HoldsPeers(t)')
    BY <2>1, <2>6 DEF HoldsPeers, InClear, Rests
  <2>8. ListenerStep(t)
    <3>1. CASE t = Worker
      <4>1. pc[Worker] # "idle" /\ mxListener = Worker
        BY <2>1, <3>1 DEF SendLabels, TypeInv, Control
      <4>2. pc'[Worker] # "idle"
        BY <2>2, <3>1 DEF Sends, SendLabels, Home
      <4>3. QED
        BY <3>1, <4>1, <4>2 DEF ListenerStep
    <3>2. QED
      BY <3>1 DEF ListenerStep
  <2>9. QED
    BY <2>4, <2>5, <2>7, <2>8 DEF Acts, LockStep
<1>5. CASE Leaving(t) \/ Left(t)
  <2>1. /\ t = Net /\ cur'[t] = cur[t]
        /\ Leaves(t)' \/ (pc'[t] = "goodbye" /\ stack'[t] = << >>)
    BY <1>5 DEF Leaving, Left, Leaves, Keeps
  <2>2. pc'[t] \in PeerLabels \cup NetLocked /\ Here(t)'
    BY <1>1, <2>1, NetLabels, LabelSets DEF Leaves, Here, InMethod, PeerLabels
  <2>3. HoldsPeers(t) /\ HoldsPeers(t)'
    BY <2>1, <2>2 DEF HoldsPeers
  <2>4. QED
    BY <2>1, <2>2, <2>3 DEF Acts, LockStep, ListenerStep
<1>6. QED
  BY <1>2, <1>3, <1>4, <1>5 DEF InMethodStep

LEMMA MethodCalls ==
    ASSUME TypeInv, NEW t \in Threads, pc[t] \in PeerLabels
    PROVE  /\ stack[t] \in Seq(Labels) /\ stack[t] # << >>
           /\ \/ \E r \in Rests(t) : Deletes(t, r)
              \/ Sends(t)
              \/ Leaves(t)
<1>1. InMethod(t)
  BY AtMethod
<1>2. ASSUME NEW r \in Rests(t), Deletes(t, r) PROVE stack[t] # << >>
  <2>1. r \in AllRests
    BY RestsIs
  <2>2. r # << >> /\ <<"free">> \o r # << >> /\ <<"unregister", "free">> \o r # << >>
    BY <2>1, Back
  <2>3. QED
    BY <1>2, <2>2 DEF Deletes
<1>3. Sends(t) \/ Leaves(t) => stack[t] # << >>
  <2>1. \A x : <<x>> # << >>
    OBVIOUS
  <2>2. QED
    BY <2>1 DEF Sends, Leaves
<1>4. stack[t] \in Seq(Labels)
  BY DEF TypeInv, TypeOK
<1>5. QED
  BY <1>1, <1>2, <1>3, <1>4 DEF InMethod

\* A thread that goes on inside the method.
LEMMA MethodStays ==
    ASSUME TypeInv, NEW t \in Threads, pc[t] \in PeerLabels, NEW label,
           \/ pc[t] \in SendLabels /\ label \in SendLabels
           \/ pc[t] = "unregister" /\ label = "drop"
           \/ pc[t] = "delete" /\ label = "free",
           Move(t, label, cur[t]), UNCHANGED <<mxPeers, mxListener>>
    PROVE  Acts(t) /\ InMethodStep(t) /\ pc'[t] = label
<1>1. label \in Labels /\ cur[t] \in Peers \cup {NULL}
  BY LabelSets DEF TypeInv, TypeOK, SendLabels, PeerLabels
<1>2. Only(t) /\ pc'[t] = label /\ cur'[t] = cur[t] /\ stack'[t] = stack[t]
  BY <1>1, MoveIs DEF TypeInv
<1>3. (\E r \in Rests(t) : Deletes(t, r)) \/ Sends(t) \/ Leaves(t)
  BY MethodCalls
<1>4. ASSUME NEW r \in Rests(t), Deletes(t, r) PROVE Deletes(t, r)'
  BY <1>2, <1>4 DEF Deletes, SendLabels
<1>5. Sends(t) => Sends(t)'
  BY <1>2 DEF Sends, SendLabels
<1>6. Leaves(t) => Leaves(t)'
  BY <1>2 DEF Leaves, SendLabels
<1>7. InMethodStep(t)
  BY <1>2, <1>3, <1>4, <1>5, <1>6 DEF InMethodStep, Deleting, Sending, Leaving, Keeps
<1>8. QED
  BY <1>2, <1>7, MethodActs

\* A thread that leaves a part of the method.
LEMMA MethodReturns ==
    ASSUME TypeInv, NEW t \in Threads, pc[t] \in SendLabels \cup {"drop", "free"},
           Return(t), UNCHANGED <<mxPeers, mxListener>>
    PROVE  Acts(t) /\ InMethodStep(t) /\ pc'[t] = Head(stack[t])
<1>1. pc[t] \in PeerLabels
  BY DEF PeerLabels
<1>2. stack[t] # << >> /\ ((\E r \in Rests(t) : Deletes(t, r)) \/ Sends(t) \/ Leaves(t))
  BY <1>1, MethodCalls
<1>3. /\ Only(t) /\ pc'[t] = Head(stack[t]) /\ stack'[t] = Tail(stack[t])
      /\ cur'[t] = IF Head(stack[t]) \in {"idle", "clear", "next"} THEN NULL ELSE cur[t]
  BY <1>2, ReturnIs DEF TypeInv
<1>4. ASSUME NEW r \in Rests(t), Deletes(t, r) PROVE Deleting(t) \/ Deleted(t)
  <2>1. r \in AllRests
    BY RestsIs
  <2>2. /\ Head(<<"free">> \o r) = "free" /\ Tail(<<"free">> \o r) = r
        /\ Head(<<"unregister", "free">> \o r) = "unregister"
        /\ Tail(<<"unregister", "free">> \o r) = <<"free">> \o r
    BY <2>1, Back
  <2>3. CASE pc[t] \in SendLabels
    <3>1. stack[t] = <<"unregister", "free">> \o r
      BY <1>4, <2>3 DEF Deletes, SendLabels
    <3>2. pc'[t] = "unregister" /\ stack'[t] = <<"free">> \o r /\ cur'[t] = cur[t]
      BY <1>3, <2>2, <3>1
    <3>3. QED
      BY <1>4, <3>2 DEF Deleting, Deletes, Keeps
  <2>4. CASE pc[t] = "drop"
    <3>1. stack[t] = <<"free">> \o r
      BY <1>4, <2>4 DEF Deletes, SendLabels
    <3>2. pc'[t] = "free" /\ stack'[t] = r /\ cur'[t] = cur[t]
      BY <1>3, <2>2, <3>1
    <3>3. QED
      BY <1>4, <3>2 DEF Deleting, Deletes, Keeps
  <2>5. CASE pc[t] = "free"
    <3>1. stack[t] = r
      BY <1>4, <2>5 DEF Deletes, SendLabels
    <3>2. IF t = Net THEN Head(r) \in {"pruneErase", "scanErase"} ELSE Head(r) \in {"idle", "clear"}
      BY RestHeads DEF Rests
    <3>3. cur'[t] = IF t = Net THEN cur[t] ELSE NULL
      BY <1>3, <3>1, <3>2
    <3>4. QED
      BY <1>3, <1>4, <2>5, <3>1, <3>3 DEF Deleted
  <2>6. QED
    BY <2>3, <2>4, <2>5
<1>5. ASSUME Sends(t) PROVE Sent(t)
  <2>1. stack[t] = <<Home(t)>> /\ Home(t) \in {"idle", "next"}
    BY <1>5 DEF Sends, Home
  <2>2. Head(stack[t]) = Home(t) /\ Tail(stack[t]) = << >>
    BY <2>1
  <2>3. QED
    BY <1>3, <1>5, <2>1, <2>2 DEF Sent
<1>6. ASSUME Leaves(t) PROVE Left(t)
  <2>1. stack[t] = <<"goodbye">> /\ pc[t] = "drop"
    BY <1>6 DEF Leaves, SendLabels
  <2>2. Head(stack[t]) = "goodbye" /\ Tail(stack[t]) = << >>
    BY <2>1
  <2>3. QED
    BY <1>3, <1>6, <2>1, <2>2 DEF Left, Keeps
<1>7. InMethodStep(t)
  BY <1>2, <1>4, <1>5, <1>6 DEF InMethodStep
<1>8. QED
  BY <1>1, <1>3, <1>7, MethodActs

\* ~Peer() calls disconnect(true).
LEMMA MethodDisconnects ==
    ASSUME TypeInv, NEW t \in Threads, pc[t] = "delete",
           Call(t, "send", cur[t], <<"unregister", "free">>), UNCHANGED <<mxPeers, mxListener>>
    PROVE  Acts(t) /\ InMethodStep(t) /\ pc'[t] = "send"
<1>1. pc[t] \in PeerLabels /\ pc[t] \notin SendLabels
  BY DEF PeerLabels, SendLabels
<1>2. PICK r \in Rests(t) : Deletes(t, r)
  BY <1>1, MethodCalls DEF Sends, Leaves
<1>3. stack[t] = r
  BY <1>1, <1>2 DEF Deletes
<1>4. "send" \in Labels /\ cur[t] \in Peers \cup {NULL} /\ <<"unregister", "free">> \in Seq(Labels)
  BY DEF Labels, PeerLabels, SendLabels, TypeInv, TypeOK
<1>5. /\ Only(t) /\ pc'[t] = "send" /\ cur'[t] = cur[t]
      /\ stack'[t] = <<"unregister", "free">> \o stack[t]
  BY <1>4, CallIs DEF TypeInv
<1>6. Deletes(t, r)'
  BY <1>3, <1>5 DEF Deletes, SendLabels
<1>7. InMethodStep(t)
  BY <1>2, <1>5, <1>6 DEF InMethodStep, Deleting, Keeps
<1>8. QED
  BY <1>1, <1>5, <1>7, MethodActs

PeerNext(t) == \/ Send(t) \/ Reconnect(t) \/ Recheck(t) \/ Write(t)
               \/ Delete(t) \/ Unregister(t) \/ Drop(t) \/ Free(t)

LEMMA MethodIs ==
    ASSUME TypeInv, NEW t \in Threads, PeerNext(t)
    PROVE  /\ Acts(t) /\ InMethodStep(t) /\ fault = "none" /\ fault' = "none"
           /\ cur[t] \in Peers /\ mem[cur[t]] = "alive" /\ pc[t] \in PeerLabels
           /\ UNCHANGED <<netVars, mxListener, targets, pumped, said>>
<1>1. /\ fault = "none" /\ fault' = "none" /\ mem[cur[t]] = "alive" /\ pc[t] \in PeerLabels
      /\ UNCHANGED <<netVars, mxListener, targets, pumped, said>>
  BY DEF PeerNext, Send, Reconnect, Recheck, Write, Delete, Unregister, Drop, Free, In, At,
         PeerLabels, SendLabels, brokerVars, remoteVars
<1>2. cur[t] \in Peers
  BY <1>1, AtMethod
<1>3. UNCHANGED <<mxPeers, mxListener>>
  BY <1>1 DEF netVars
<1>4. CASE Send(t)
  <2>1. pc[t] = "send" /\ (Return(t) \/ Move(t, "recheck", cur[t]) \/ Move(t, "reconnect", cur[t]))
    BY <1>4 DEF Send, In, At, Goto
  <2>2. QED
    BY <1>1, <1>2, <1>3, <2>1, MethodStays, MethodReturns DEF SendLabels
<1>5. CASE Reconnect(t)
  <2>1. pc[t] = "reconnect" /\ Move(t, "recheck", cur[t])
    BY <1>5 DEF Reconnect, In, At, Goto
  <2>2. QED
    BY <1>1, <1>2, <1>3, <2>1, MethodStays DEF SendLabels
<1>6. CASE Recheck(t)
  <2>1. pc[t] = "recheck" /\ (Return(t) \/ Move(t, "write", cur[t]))
    BY <1>6 DEF Recheck, In, At, Goto
  <2>2. QED
    BY <1>1, <1>2, <1>3, <2>1, MethodStays, MethodReturns DEF SendLabels
<1>7. CASE Write(t)
  <2>1. pc[t] = "write" /\ Return(t)
    BY <1>7 DEF Write, In, At, Goto
  <2>2. QED
    BY <1>1, <1>2, <1>3, <2>1, MethodReturns DEF SendLabels
<1>8. CASE Delete(t)
  <2>1. /\ pc[t] = "delete"
        /\ Call(t, "send", cur[t], <<"unregister", "free">>) \/ Move(t, "free", cur[t])
    BY <1>8 DEF Delete, In, At, Goto
  <2>2. QED
    BY <1>1, <1>2, <1>3, <2>1, MethodStays, MethodDisconnects
<1>9. CASE Unregister(t)
  <2>1. pc[t] = "unregister" /\ Move(t, "drop", cur[t])
    BY <1>9 DEF Unregister, In, At, Goto
  <2>2. QED
    BY <1>1, <1>2, <1>3, <2>1, MethodStays
<1>10. CASE Drop(t) \/ Free(t)
  <2>1. pc[t] \in {"drop", "free"} /\ Return(t)
    BY <1>10 DEF Drop, Free, In, At
  <2>2. QED
    BY <1>1, <1>2, <1>3, <2>1, MethodReturns
<1>11. QED
  BY <1>4, <1>5, <1>6, <1>7, <1>8, <1>9, <1>10 DEF PeerNext
-----------------------------------------------------------------------------
(* The steps of the application and of the worker. *)

LEMMA TwoInSeq ==
    ASSUME NEW S, NEW x \in S, NEW y \in S
    PROVE  <<x>> \o << >> = <<x>> /\ <<x>> \o <<y>> = <<x, y>>
<1> DEFINE f == <<x>>
           g == <<y>>
           s == f \o g
           u == <<x, y>>
<1>1. /\ f \in Seq(S) /\ Len(f) = 1 /\ f[1] = x /\ g \in Seq(S) /\ Len(g) = 1 /\ g[1] = y
      /\ u \in Seq(S) /\ Len(u) = 2 /\ u[1] = x /\ u[2] = y
  OBVIOUS
<1> HIDE DEF f, g, u
<1>2. f \o << >> = f
  BY <1>1
<1>3. /\ f \o g \in Seq(S) /\ Len(f \o g) = Len(f) + Len(g)
      /\ \A i \in 1 .. Len(f) + Len(g) :
            (f \o g)[i] = IF i <= Len(f) THEN f[i] ELSE g[i - Len(f)]
  <2>1. f \in Seq(S) /\ g \in Seq(S)
    BY <1>1
  <2>2. QED
    BY ONLY <2>1, ConcatProperties
<1> HIDE DEF s
<1>6. s \in Seq(S) /\ Len(s) = 2 /\ s[1] = x /\ s[2] = y
  BY <1>1, <1>3 DEF s
<1>4. s = u
  BY <1>1, <1>6, SeqEqual
<1>5. QED
  BY <1>2, <1>4 DEF s, f, g, u

LEMMA TwoLabels ==
    /\ <<"idle">> \o << >> = <<"idle">> /\ <<"done">> \o << >> = <<"done">>
    /\ <<"next">> \o << >> = <<"next">>
    /\ <<"clear">> \o <<"idle">> = <<"clear", "idle">> /\ <<"clear">> \o <<"done">> = <<"clear", "done">>
<1> DEFINE S == {"idle", "done", "next", "clear"}
<1>1. "idle" \in S /\ "done" \in S /\ "next" \in S /\ "clear" \in S
  OBVIOUS
<1> HIDE DEF S
<1>2. <<"idle">> \o << >> = <<"idle">>
  BY ONLY <1>1, TwoInSeq
<1>3. <<"done">> \o << >> = <<"done">>
  BY ONLY <1>1, TwoInSeq
<1>4. <<"next">> \o << >> = <<"next">>
  BY ONLY <1>1, TwoInSeq
<1>5. <<"clear">> \o <<"idle">> = <<"clear", "idle">>
  BY ONLY <1>1, TwoInSeq
<1>6. <<"clear">> \o <<"done">> = <<"clear", "done">>
  BY ONLY <1>1, TwoInSeq
<1>7. QED
  BY <1>2, <1>3, <1>4, <1>5, <1>6

LEMMA AppLabels ==
    ASSUME NEW a \in AppThreads
    PROVE  /\ {"idle", "insert", "eraseID", "remove", "join", "done"} = OwnLabels(a)
           /\ {"idle", "join", "done", "clear"} \cap Busy = {}
           /\ {"idle", "insert", "eraseID", "remove", "join", "done", "clear", "send", "delete",
               "next"} \subseteq Labels
           /\ <<"idle">> \in Seq(Labels) /\ <<"done">> \in Seq(Labels) /\ <<"clear">> \in Seq(Labels)
           /\ <<"next">> \in Seq(Labels)
<1>1. {"idle", "insert", "eraseID", "remove", "join", "done", "clear", "send", "delete",
       "next"} \subseteq Labels
  BY DEF Labels, PeerLabels, SendLabels
<1>2. {"idle", "join", "done", "clear"} \cap Busy = {}
  BY DEF Busy, PeerLabels, SendLabels, NetLocked
<1>3. QED
  BY <1>1, <1>2, ThreadNames DEF OwnLabels

\* Outside of the methods m_mxPeers is not locked.
LEMMA AppFree ==
    ASSUME TypeInv, NEW a \in AppThreads, pc[a] \in OwnLabels(a)
    PROVE  ~HoldsPeers(a) /\ stack[a] = << >> /\ mxPeers # a
<1>1. stack[a] = << >> /\ ~InMethod(a) /\ ~Clearing(a)
  BY AtOwn, ThreadNames
<1>2. ~HoldsPeers(a)
  BY <1>1, ThreadNames DEF HoldsPeers, InClear, InMethod, Rests
<1>3. QED
  BY <1>1, <1>2, ThreadNames DEF TypeInv, Control

AppOutside(a) == pc'[a] \in OwnLabels(a) /\ stack'[a] = << >>
AppInside(a, r) == pc'[a] = "delete" /\ stack'[a] = r /\ cur'[a] # NULL
AppSends(a) == pc'[a] = "send" /\ stack'[a] = <<"idle">> /\ cur'[a] # NULL
AppClears(a) == pc'[a] = "clear" /\ stack'[a] \in {<<"idle">>, <<"done">>}

LEMMA AppHere ==
    ASSUME NEW a \in AppThreads
    PROVE  /\ AppOutside(a) /\ (pc'[a] \in {"insert", "eraseID", "remove"} => cur'[a] # NULL)
                  => Here(a)' /\ ~(HoldsPeers(a)')
           /\ AppInside(a, <<"idle">>) \/ AppSends(a) => Here(a)' /\ ~(HoldsPeers(a)')
           /\ AppClears(a) => Here(a)' /\ HoldsPeers(a)'
           /\ AppInside(a, <<"clear", "idle">>) \/ AppInside(a, <<"clear", "done">>)
                  => Here(a)' /\ HoldsPeers(a)'
<1> USE ThreadNames
<1>0. "delete" \notin SendLabels /\ "send" \in SendLabels /\ SendLabels \subseteq PeerLabels
      /\ PeerLabels \cap {"idle", "insert", "eraseID", "remove", "join", "done", "clear"} = {}
  BY DEF SendLabels, PeerLabels
<1>1. ASSUME AppOutside(a), pc'[a] \in {"insert", "eraseID", "remove"} => cur'[a] # NULL
      PROVE  Here(a)' /\ ~(HoldsPeers(a)')
  <2>1. /\ pc'[a] \in {"idle", "insert", "eraseID", "remove", "join", "done"}
        /\ pc'[a] \in Busy => pc'[a] \in {"insert", "eraseID", "remove"}
    BY <1>1, AppLabels DEF AppOutside
  <2>2. Here(a)'
    BY <1>1, <2>1 DEF Here, AppOutside
  <2>3. ~(Clearing(a)') /\ \A r : ~(Deletes(a, r)')
    BY <2>1, <1>0 DEF Clearing, Deletes, PeerLabels
  <2>4. QED
    BY <2>2, <2>3 DEF HoldsPeers, InClear
<1>2. ASSUME AppInside(a, <<"idle">>) \/ AppSends(a) PROVE Here(a)' /\ ~(HoldsPeers(a)')
  <2>1. Sends(a)' \/ Deletes(a, <<"idle">>)'
    BY <1>0, <1>2 DEF AppInside, AppSends, Sends, Deletes, Home
  <2>2. <<"idle">> \in Rests(a) /\ <<"clear", "idle">> \in Rests(a) /\ <<"clear", "done">> \in Rests(a)
        /\ <<"clear", "idle">> # <<"idle">> /\ <<"clear", "done">> # <<"idle">>
    BY DEF Rests
  <2>3. Here(a)'
    BY <1>2, <2>1, <2>2 DEF Here, InMethod, AppInside, AppSends
  <2>4. ~(Clearing(a)')
    BY <1>2 DEF Clearing, AppInside, AppSends
  <2>5. ~(Deletes(a, <<"clear", "idle">>)') /\ ~(Deletes(a, <<"clear", "done">>)')
    BY <2>1, <2>2, OneMethodNext
  <2>6. QED
    BY <2>3, <2>4, <2>5 DEF HoldsPeers, InClear
<1>3. ASSUME AppClears(a) PROVE Here(a)' /\ HoldsPeers(a)'
  <2>1. Clearing(a)' /\ pc'[a] \notin Busy
    BY <1>3, AppLabels DEF AppClears, Clearing
  <2>2. QED
    BY <2>1 DEF Here, HoldsPeers, InClear
<1>4. ASSUME NEW r \in {<<"clear", "idle">>, <<"clear", "done">>}, AppInside(a, r)
      PROVE  Here(a)' /\ HoldsPeers(a)'
  <2>1. Deletes(a, r)'
    BY <1>4 DEF AppInside, Deletes
  <2>2. r \in Rests(a)
    BY DEF Rests
  <2>3. QED
    BY <1>4, <2>1, <2>2 DEF Here, InMethod, HoldsPeers, InClear, AppInside
<1>5. QED
  BY <1>1, <1>2, <1>3, <1>4

\* What an application thread does outside of the Peer's methods.
AppStep(a) ==
    \/ pc[a] = "idle" /\ pc'[a] = "insert" /\ AppOutside(a) /\ cur'[a] \in Peers /\ mem[cur'[a]] = "unborn"
    \/ pc[a] = "insert" /\ pc'[a] = "idle" /\ AppOutside(a) /\ cur'[a] = NULL
    \/ pc[a] = "idle" /\ pc'[a] = "join" /\ AppOutside(a) /\ cur'[a] = cur[a]
    \/ /\ pc[a] = "idle" /\ pc'[a] = "eraseID" /\ AppOutside(a)
       /\ cur'[a] \in Peers /\ \E i \in IDs : cur'[a] = byID[i]
    \/ /\ pc[a] = "eraseID" /\ pc'[a] = "remove" /\ AppOutside(a)
       /\ cur'[a] \in Peers /\ cur'[a] = cur[a]
    \/ /\ pc[a] = "remove" /\ AppInside(a, <<"idle">>)
       /\ cur'[a] \in Peers /\ cur'[a] = cur[a]
    \/ /\ pc[a] = "idle" /\ AppSends(a)
       /\ cur'[a] \in Peers /\ mem[cur'[a]] # "unborn"
       /\ \A b \in AppThreads : pc[b] = "insert" => cur[b] # cur'[a]
    \/ pc[a] = "idle" /\ AppClears(a) /\ stack'[a] = <<"idle">> /\ cur'[a] = NULL
    \/ pc[a] = "join" /\ AppClears(a) /\ stack'[a] = <<"done">> /\ cur'[a] = NULL
    \/ /\ Clearing(a) /\ (AppInside(a, <<"clear", "idle">>) \/ AppInside(a, <<"clear", "done">>))
       /\ cur'[a] \in Listed /\ mem[cur'[a]] # "freed"
    \/ /\ Clearing(a) /\ AppOutside(a) /\ cur'[a] \in {cur[a], NULL} /\ pc'[a] \in {"idle", "done"}
       /\ \A p \in Listed : mem[p] = "freed"

LEMMA AppIs ==
    ASSUME TypeInv, NEW a \in AppThreads, App(a)
    PROVE  Acts(a) /\ AppStep(a) /\ fault = "none" /\ UNCHANGED <<mxListener, targets, listening, pumped, said, batch>>
<1> USE ThreadNames, AppLabels
<1>a. NULL \in Peers \cup {NULL} /\ cur[a] \in Peers \cup {NULL} /\ \A p \in Peers : p \in Peers \cup {NULL}
  BY DEF TypeInv, TypeOK
<1>b. UNCHANGED mxListener => ListenerStep(a)
  BY DEF ListenerStep
<1>c. fault = "none" /\ UNCHANGED <<mxListener, targets, listening, pumped, said, batch>>
  BY DEF App, AddPeer, SendMessage, SubPeer, EraseID, Remove, Insert, Disconnect, Clear, Destroy, Join, At, MayCall,
         netVars, brokerVars, remoteVars
<1>d. pc[a] \in {"idle", "insert", "eraseID", "remove", "join"}
         => ~HoldsPeers(a) /\ stack[a] = << >> /\ mxPeers # a
  BY AppFree
<1>f. pc[a] \in {"eraseID", "remove"} => cur[a] \in Peers
  <2>1. pc[a] \in Busy => cur[a] # NULL
    BY DEF TypeInv, Control, Here
  <2>2. QED
    BY <1>a, <2>1 DEF Busy
<1>e. /\ <<"idle">> \o << >> = <<"idle">> /\ <<"done">> \o << >> = <<"done">>
      /\ <<"clear">> \o <<"idle">> = <<"clear", "idle">> /\ <<"clear">> \o <<"done">> = <<"clear", "done">>
  BY TwoLabels
<1>1. ASSUME NEW p \in Peers, AddPeer(a, p) PROVE Acts(a) /\ AppStep(a)
  <2>1. /\ pc[a] = "idle" /\ mem[p] = "unborn" /\ UNCHANGED mxPeers
        /\ Move(a, "insert", p)
    BY <1>1 DEF AddPeer, MayCall, At, netVars
  <2>2. Only(a) /\ pc'[a] = "insert" /\ cur'[a] = p /\ stack'[a] = << >>
    BY <1>a, <1>d, <2>1, MoveIs DEF TypeInv
  <2>3. AppOutside(a) /\ cur'[a] # NULL
    BY <2>2 DEF AppOutside
  <2>4. QED
    BY <1>b, <1>c, <1>d, <2>1, <2>2, <2>3, AppHere DEF Acts, LockStep, AppStep
<1>2. CASE Insert(a)
  <2>1. pc[a] = "insert" /\ UNCHANGED mxPeers /\ Move(a, "idle", NULL)
    BY <1>2 DEF Insert, At
  <2>2. Only(a) /\ pc'[a] = "idle" /\ cur'[a] = NULL /\ stack'[a] = << >>
    BY <1>a, <1>d, <2>1, MoveIs DEF TypeInv
  <2>3. AppOutside(a)
    BY <2>2 DEF AppOutside
  <2>4. QED
    BY <1>b, <1>c, <1>d, <2>1, <2>2, <2>3, AppHere DEF Acts, LockStep, AppStep
<1>3. CASE Destroy(a)
  <2>1. pc[a] = "idle" /\ UNCHANGED mxPeers /\ Move(a, "join", cur[a])
    BY <1>3 DEF Destroy, MayCall, At, Goto
  <2>2. Only(a) /\ pc'[a] = "join" /\ cur'[a] = cur[a] /\ stack'[a] = << >>
    BY <1>a, <1>d, <2>1, MoveIs DEF TypeInv
  <2>3. AppOutside(a)
    BY <2>2 DEF AppOutside
  <2>4. QED
    BY <1>b, <1>c, <1>d, <2>1, <2>2, <2>3, AppHere DEF Acts, LockStep, AppStep
<1>4. ASSUME NEW i \in IDs, SubPeer(a, i) PROVE Acts(a) /\ AppStep(a)
  <2>1. /\ pc[a] = "idle" /\ UNCHANGED mxPeers /\ byID[i] # NULL
        /\ Move(a, "eraseID", byID[i])
    BY <1>4 DEF SubPeer, MayCall, At, netVars
  <2>2. byID[i] \in Peers /\ byID[i] # NULL
    BY <2>1 DEF TypeInv, TypeOK
  <2>3. Only(a) /\ pc'[a] = "eraseID" /\ cur'[a] = byID[i] /\ stack'[a] = << >>
    BY <1>a, <1>d, <2>1, <2>2, MoveIs DEF TypeInv
  <2>4. AppOutside(a)
    BY <2>3 DEF AppOutside
  <2>5. QED
    BY <1>b, <1>c, <1>d, <2>1, <2>2, <2>3, <2>4, AppHere DEF Acts, LockStep, AppStep
<1>5. ASSUME NEW p \in Peers, SendMessage(a, p) PROVE Acts(a) /\ AppStep(a)
  <2>1. /\ pc[a] = "idle" /\ UNCHANGED mxPeers /\ mem[p] # "unborn"
        /\ \A b \in AppThreads : pc[b] = "insert" => cur[b] # p
        /\ Call(a, "send", p, <<"idle">>)
    BY <1>5 DEF SendMessage, MayCall, At, netVars
  <2>2. Only(a) /\ pc'[a] = "send" /\ cur'[a] = p /\ stack'[a] = <<"idle">>
    BY <1>a, <1>d, <1>e, <2>1, CallIs DEF TypeInv
  <2>3. AppSends(a)
    BY <2>2 DEF AppSends
  <2>4. QED
    BY <1>b, <1>c, <1>d, <2>1, <2>2, <2>3, AppHere DEF Acts, LockStep, AppStep
<1>6. CASE Disconnect(a)
  <2>1. pc[a] = "idle" /\ mxPeers = NULL /\ mxPeers' = a /\ Call(a, "clear", NULL, <<"idle">>)
    BY <1>6 DEF Disconnect, MayCall, At
  <2>2. Only(a) /\ pc'[a] = "clear" /\ cur'[a] = NULL /\ stack'[a] = <<"idle">>
    BY <1>a, <1>d, <1>e, <2>1, CallIs DEF TypeInv
  <2>3. AppClears(a)
    BY <2>2 DEF AppClears
  <2>4. QED
    BY <1>b, <1>c, <1>d, <2>1, <2>2, <2>3, AppHere DEF Acts, LockStep, AppStep
<1>7. CASE Join(a)
  <2>1. pc[a] = "join" /\ mxPeers = NULL /\ mxPeers' = a /\ Call(a, "clear", NULL, <<"done">>)
    BY <1>7 DEF Join, MayCall, At
  <2>2. Only(a) /\ pc'[a] = "clear" /\ cur'[a] = NULL /\ stack'[a] = <<"done">>
    <3>1. Only(a) /\ pc'[a] = "clear" /\ cur'[a] = NULL /\ stack'[a] = <<"done">> \o stack[a]
      BY <1>a, <2>1, CallIs DEF TypeInv
    <3>2. QED
      BY <1>d, <1>e, <2>1, <3>1
  <2>3. AppClears(a)
    BY <2>2 DEF AppClears
  <2>4. QED
    BY <1>b, <1>c, <1>d, <2>1, <2>2, <2>3, AppHere DEF Acts, LockStep, AppStep
<1>8. CASE Clear(a)
  <2>1. Clearing(a)
    <3>1. pc[a] = "clear" /\ Here(a)
      BY <1>8 DEF Clear, At, TypeInv, Control
    <3>2. ~InMethod(a) /\ pc[a] \notin OwnLabels(a)
      BY <3>1, MethodLabels, LabelSets
    <3>3. QED
      BY <3>1, <3>2 DEF Here
  <2>2. HoldsPeers(a) /\ mxPeers = a
    BY <2>1 DEF HoldsPeers, InClear, TypeInv, Control
  <2>3. stack[a] \in {<<"idle">>, <<"done">>} /\ list \in Seq(Peers)
    BY <2>1 DEF Clearing, TypeInv, TypeOK
  <2>4. ASSUME NEW i \in DOMAIN list, mem[list[i]] # "freed", Call(a, "delete", list[i], <<"clear">>),
               UNCHANGED mxPeers
        PROVE  Acts(a) /\ AppStep(a)
    <3>1. list[i] \in Peers /\ list[i] \in Listed
      BY <2>3 DEF Listed
    <3>2. Only(a) /\ pc'[a] = "delete" /\ cur'[a] = list[i] /\ stack'[a] = <<"clear">> \o stack[a]
      BY <2>4, <3>1, CallIs DEF TypeInv
    <3>3. AppInside(a, <<"clear", "idle">>) \/ AppInside(a, <<"clear", "done">>)
      BY <1>e, <2>3, <3>1, <3>2 DEF AppInside
    <3>4. QED
      BY <1>b, <1>c, <2>1, <2>2, <2>4, <3>1, <3>2, <3>3, AppHere DEF Acts, LockStep, AppStep
  <2>5. ASSUME {i \in DOMAIN list : mem[list[i]] # "freed"} = {}, Return(a), mxPeers' = NULL
        PROVE  Acts(a) /\ AppStep(a)
    <3>1. Head(stack[a]) \in {"idle", "done"} /\ Tail(stack[a]) = << >> /\ stack[a] # << >>
      <4>1. CASE stack[a] = <<"idle">>
        BY <4>1
      <4>2. CASE stack[a] = <<"done">>
        BY <4>2
      <4>3. QED
        BY <2>3, <4>1, <4>2
    <3>2. /\ Only(a) /\ pc'[a] = Head(stack[a]) /\ stack'[a] = << >>
          /\ cur'[a] = IF Head(stack[a]) \in {"idle", "clear", "next"} THEN NULL ELSE cur[a]
      BY <2>5, <3>1, ReturnIs DEF TypeInv
    <3>3. AppOutside(a) /\ pc'[a] \notin {"insert", "eraseID", "remove"}
      BY <3>1, <3>2 DEF AppOutside
    <3>4. \A p \in Listed : mem[p] = "freed"
      BY <2>5 DEF Listed
    <3>5. Acts(a)
      <4>1. Here(a)' /\ ~(HoldsPeers(a)')
        BY <3>3, AppHere
      <4>2. QED
        BY <1>b, <1>c, <2>2, <2>5, <3>2, <4>1 DEF Acts, LockStep
    <3>6. QED
      BY <2>1, <3>1, <3>2, <3>3, <3>4, <3>5 DEF AppStep
  <2>6. CASE {i \in DOMAIN list : mem[list[i]] # "freed"} = {}
    BY <1>8, <1>c, <2>5, <2>6 DEF Clear
  <2>7. CASE {i \in DOMAIN list : mem[list[i]] # "freed"} # {}
    <3>1. PICK i \in DOMAIN list : mem[list[i]] # "freed" /\ Call(a, "delete", list[i], <<"clear">>)
      BY <1>8, <2>7 DEF Clear
    <3>2. UNCHANGED mxPeers
      BY <1>8, <2>7 DEF Clear, netVars
    <3>3. QED
      BY <1>c, <2>4, <3>1, <3>2
  <2>8. QED
    BY <2>6, <2>7
<1>9. CASE EraseID(a)
  <2>1. pc[a] = "eraseID" /\ UNCHANGED mxPeers /\ Move(a, "remove", cur[a])
    BY <1>9 DEF EraseID, At, Goto
  <2>2. cur[a] \in Peers /\ cur[a] # NULL
    BY <1>f, <2>1
  <2>3. Only(a) /\ pc'[a] = "remove" /\ cur'[a] = cur[a] /\ stack'[a] = << >>
    BY <1>a, <1>d, <2>1, MoveIs DEF TypeInv
  <2>4. AppOutside(a)
    BY <2>3 DEF AppOutside
  <2>5. QED
    BY <1>b, <1>c, <1>d, <2>1, <2>2, <2>3, <2>4, AppHere DEF Acts, LockStep, AppStep
<1>10. CASE Remove(a)
  <2>1. pc[a] = "remove" /\ UNCHANGED mxPeers /\ Call(a, "delete", cur[a], <<"idle">>)
    BY <1>10 DEF Remove, At
  <2>2. cur[a] \in Peers /\ cur[a] # NULL
    BY <1>f, <2>1
  <2>3. Only(a) /\ pc'[a] = "delete" /\ cur'[a] = cur[a] /\ stack'[a] = <<"idle">>
    <3>1. /\ Only(a) /\ pc'[a] = "delete" /\ cur'[a] = cur[a]
          /\ stack'[a] = <<"idle">> \o stack[a]
      BY <1>a, <2>1, CallIs DEF TypeInv
    <3>2. QED
      BY <1>d, <1>e, <2>1, <3>1
  <2>4. AppInside(a, <<"idle">>)
    BY <2>2, <2>3 DEF AppInside
  <2>5. QED
    BY <1>b, <1>c, <1>d, <2>1, <2>2, <2>3, <2>4, AppHere DEF Acts, LockStep, AppStep
<1>11. QED
  BY <1>1, <1>2, <1>3, <1>4, <1>5, <1>6, <1>7, <1>8, <1>9, <1>10, <1>c DEF App

WorkerStep ==
    \/ /\ pc[Worker] = "idle" /\ pc'[Worker] = "next" /\ stack'[Worker] = << >> /\ Keeps(Worker)
       /\ targets' = listening
    \/ /\ pc[Worker] = "next" /\ pc'[Worker] = "send" /\ stack'[Worker] = <<"next">>
       /\ cur'[Worker] \in targets /\ targets' = targets \ {cur'[Worker]}
    \/ /\ pc[Worker] = "next" /\ pc'[Worker] = "idle" /\ stack'[Worker] = << >> /\ Keeps(Worker)
       /\ targets' = targets

LEMMA WorkerIs ==
    ASSUME TypeInv, Broadcast \/ NextTarget
    PROVE  /\ Acts(Worker) /\ WorkerStep /\ fault = "none"
           /\ UNCHANGED <<peerVars, netVars, listening, fault, remoteVars, pumped>>
<1> USE ThreadNames
<1>a. /\ {"idle", "next"} = OwnLabels(Worker) /\ {"idle", "next"} \cap Busy = {}
      /\ {"idle", "next", "send"} \subseteq Labels /\ "send" \in SendLabels /\ <<"next">> \in Seq(Labels)
  <2>1. {"idle", "next", "send"} \subseteq Labels
    BY DEF Labels, PeerLabels, SendLabels
  <2>2. {"idle", "next"} \cap Busy = {}
    BY DEF Busy, PeerLabels, SendLabels, NetLocked
  <2>3. QED
    BY <2>1, <2>2 DEF OwnLabels, SendLabels
<1>b. pc[Worker] \in {"idle", "next"} => stack[Worker] = << >>
  BY <1>a, AtOwn
<1>c. cur[Worker] \in Peers \cup {NULL} /\ targets \subseteq Peers
  BY DEF TypeInv, TypeOK
<1>d. /\ fault = "none" /\ UNCHANGED <<peerVars, netVars, listening, fault, remoteVars, pumped>>
      /\ UNCHANGED mxPeers
  BY DEF Broadcast, NextTarget, At, netVars
<1>e. LockStep(Worker)
  BY <1>d DEF LockStep, HoldsPeers
<1>1. CASE Broadcast
  <2>1. pc[Worker] = "idle" /\ mxListener' = Worker /\ targets' = listening /\ Move(Worker, "next", cur[Worker])
    BY <1>1 DEF Broadcast, At, Goto
  <2>2. Only(Worker) /\ pc'[Worker] = "next" /\ cur'[Worker] = cur[Worker] /\ stack'[Worker] = << >>
    BY <1>a, <1>b, <1>c, <2>1, MoveIs DEF TypeInv
  <2>3. Here(Worker)' /\ ListenerStep(Worker)
    BY <1>a, <2>1, <2>2 DEF Here, ListenerStep
  <2>4. QED
    BY <1>d, <1>e, <2>1, <2>2, <2>3 DEF Acts, WorkerStep, Keeps
<1>2. CASE NextTarget /\ targets # {}
  <2>1. PICK p \in targets : targets' = targets \ {p} /\ Call(Worker, "send", p, <<"next">>) /\ UNCHANGED mxListener
    BY <1>2 DEF NextTarget
  <2>2. pc[Worker] = "next" /\ p \in Peers
    BY <1>2, <1>c DEF NextTarget, At
  <2>3. Only(Worker) /\ pc'[Worker] = "send" /\ cur'[Worker] = p /\ stack'[Worker] = <<"next">>
    <3>1. /\ Only(Worker) /\ pc'[Worker] = "send" /\ cur'[Worker] = p
          /\ stack'[Worker] = <<"next">> \o stack[Worker]
      BY <1>a, <2>1, <2>2, CallIs DEF TypeInv
    <3>2. QED
      BY <1>b, <2>2, <3>1, TwoLabels
  <2>4. Here(Worker)'
    BY <1>a, <2>2, <2>3 DEF Here, InMethod, Sends, Home
  <2>5. mxListener = Worker
    BY <2>2 DEF TypeInv, Control
  <2>6. QED
    BY <1>d, <1>e, <2>1, <2>2, <2>3, <2>4, <2>5 DEF Acts, WorkerStep, ListenerStep
<1>3. CASE NextTarget /\ ~(targets # {})
  <2>1. pc[Worker] = "next" /\ mxListener' = NULL /\ targets' = targets /\ Move(Worker, "idle", cur[Worker])
    BY <1>3 DEF NextTarget, At, Goto
  <2>2. Only(Worker) /\ pc'[Worker] = "idle" /\ cur'[Worker] = cur[Worker] /\ stack'[Worker] = << >>
    BY <1>a, <1>b, <1>c, <2>1, MoveIs DEF TypeInv
  <2>3. Here(Worker)' /\ ListenerStep(Worker)
    BY <1>a, <2>1, <2>2 DEF Here, ListenerStep
  <2>4. QED
    BY <1>d, <1>e, <2>1, <2>2, <2>3 DEF Acts, WorkerStep, Keeps
<1>4. QED
  BY <1>1, <1>2, <1>3

-----------------------------------------------------------------------------
(* Every step is one of these. *)

Outside == \/ Enter \/ While \/ Unlock("prune", "select") \/ Select \/ UdpFind \/ UdpReceive
           \/ LockScan \/ Unlock("scan", "while")
Within == \/ Prune \/ PruneErase \/ Scan \/ Read
          \/ ReadFailed \/ ScanErase \/ HandleData \/ HandleSubscribe \/ HandleGoodbye \/ Goodbye
Quiet ==
    /\ UNCHANGED <<pc, stack, cur, netVars, brokerVars, pumped, mem, status, active, udp, mxSockets>>
    /\ fault' \in {fault, "freedPeer", "freedNetwork"}
    /\ \/ UNCHANGED <<tcp, remoteVars>>
       \/ \E p \in Peers : Remote(p)

LEMMA NextIs ==
    ASSUME [Next]_vars
    PROVE  \/ \E a \in AppThreads : App(a)
           \/ Broadcast \/ NextTarget
           \/ Outside \/ Within
           \/ \E t \in Threads : PeerNext(t)
           \/ Quiet
<1> USE DEF peerVars, netVars, brokerVars, remoteVars, control
<1>1. UNCHANGED vars => Quiet
  BY DEF Quiet, vars
<1>2. Over => Quiet
  BY <1>1 DEF Over
<1>3. ASSUME NEW p \in Peers, Remote(p) PROVE Quiet
  BY <1>3 DEF Remote, Say, CloseSilently, Break, Quiet
<1>4. ASSUME NEW t \in Threads, PeerStep(t) PROVE PeerNext(t) \/ Quiet
  BY <1>4 DEF PeerStep, PeerNext, UseFreed, Quiet
<1>5. Run => Outside \/ Within \/ Quiet
  BY DEF Run, Outside, Within, EnterFreed, Quiet
<1>6. QED
  BY <1>1, <1>2, <1>3, <1>4, <1>5 DEF Next

LEMMA InsideIs ==
    ASSUME TypeInv, Within
    PROVE  Inside
BY InsideFirst, InsideSecond DEF Within

LEMMA ControlNext ==
    ASSUME TypeInv, [Next]_vars
    PROVE  Control' /\ pc' \in [Threads -> Labels] /\ stack' \in [Threads -> Seq(Labels)]
           /\ cur' \in [Threads -> Peers \cup {NULL}]
<1>1. ASSUME NEW t \in Threads, Acts(t)
      PROVE  Control' /\ pc' \in [Threads -> Labels] /\ stack' \in [Threads -> Seq(Labels)]
             /\ cur' \in [Threads -> Peers \cup {NULL}]
  BY <1>1, ControlStep DEF Acts, Only
<1>2. ASSUME NEW a \in AppThreads, App(a) PROVE \E t \in Threads : Acts(t)
  BY <1>2, AppIs, ThreadNames
<1>3. ASSUME Broadcast \/ NextTarget PROVE \E t \in Threads : Acts(t)
  BY <1>3, WorkerIs, ThreadNames
<1>4. ASSUME Outside PROVE \E t \in Threads : Acts(t)
  BY <1>4, OutsideIs, ThreadNames DEF Outside
<1>5. ASSUME Within PROVE \E t \in Threads : Acts(t)
  BY <1>5, InsideIs, ThreadNames DEF Inside
<1>6. ASSUME NEW t \in Threads, PeerNext(t) PROVE Acts(t)
  BY <1>6, MethodIs
<1>7. CASE Quiet
  BY <1>7, ControlStay DEF Quiet, netVars, brokerVars, TypeInv, TypeOK
<1>8. QED
  BY <1>1, <1>2, <1>3, <1>4, <1>5, <1>6, <1>7, NextIs

-----------------------------------------------------------------------------
(* Types. *)

PeersOK ==
    /\ mem \in [Peers -> {"unborn", "alive", "freed"}]
    /\ status \in [Peers -> 0 .. 2]
    /\ active \in [Peers -> BOOLEAN]
    /\ tcp \in [Peers -> {"up", "error", "closed"}]
    /\ udp \in [Peers -> {"up", "closed"}]
    /\ mxSockets \in [Peers -> Threads \cup {NULL}]
    /\ stream \in [Peers -> Seq(Kinds)]
    /\ eof \in [Peers -> BOOLEAN]
    /\ said \in 0 .. MaxSaid
    /\ pumped \in [Peers -> Kinds \cup {NULL}]
NetOK ==
    /\ list \in Seq(Peers)
    /\ byID \in [IDs -> Peers \cup {NULL}]
    /\ mxPeers \in Threads \cup {NULL}
    /\ running \in BOOLEAN
    /\ ready \in SUBSET Peers
    /\ batch \in Seq(Kinds)
    /\ listening \in SUBSET Peers
    /\ mxListener \in Threads \cup {NULL}
    /\ targets \in SUBSET Peers
    /\ fault \in {"none", "freedPeer", "lostIterator", "freedNetwork"}

LEMMA TypeParts ==
    TypeOK <=> /\ PeersOK /\ NetOK /\ pc \in [Threads -> Labels] /\ stack \in [Threads -> Seq(Labels)]
               /\ cur \in [Threads -> Peers \cup {NULL}]
BY DEF TypeOK, PeersOK, NetOK

LEMMA IsConnectedOK ==
    ASSUME PeersOK, NEW p \in Peers, IsConnected(p)
    PROVE  /\ status' \in [Peers -> 0 .. 2] /\ tcp' \in [Peers -> {"up", "error", "closed"}]
           /\ \A q \in Peers : status'[q] # status[q] \/ tcp'[q] # tcp[q] => q = p /\ ~Connected(p)
           /\ tcp'[p] # "up" => tcp[p] # "up"
BY DEF PeersOK, IsConnected, Connected

LEMMA ConnectSocketsOK ==
    ASSUME PeersOK, NEW p \in Peers, ConnectSockets(p)
    PROVE  /\ status' \in [Peers -> 0 .. 2] /\ tcp' \in [Peers -> {"up", "error", "closed"}]
           /\ udp' \in [Peers -> {"up", "closed"}] /\ eof' \in [Peers -> BOOLEAN]
           /\ \A q \in Peers \ {p} : /\ status'[q] = status[q] /\ tcp'[q] = tcp[q]
                                     /\ udp'[q] = udp[q] /\ eof'[q] = eof[q]
BY DEF PeersOK, ConnectSockets

LEMMA CloseSocketsOK ==
    ASSUME PeersOK, NEW p \in Peers, CloseSockets(p)
    PROVE  /\ tcp' \in [Peers -> {"up", "error", "closed"}] /\ udp' \in [Peers -> {"up", "closed"}]
           /\ stream' \in [Peers -> Seq(Kinds)] /\ eof' \in [Peers -> BOOLEAN]
           /\ \A q \in Peers \ {p} : tcp'[q] = tcp[q] /\ udp'[q] = udp[q]
<1>1. << >> \in Seq(Kinds)
  OBVIOUS
<1>2. QED
  BY <1>1 DEF PeersOK, CloseSockets

LEMMA PeersNext ==
    ASSUME TypeInv, [Next]_vars
    PROVE  PeersOK'
<1> USE ThreadNames
<1>0. PeersOK
  BY TypeParts DEF TypeInv
<1>a. 1 \in 0 .. 2 /\ 0 \in 0 .. 2 /\ 2 \in 0 .. 2 /\ MaxSaid \in Nat
  BY MaxSaidAssumption
<1>1. ASSUME NEW a \in AppThreads, App(a) PROVE PeersOK'
  <2>1. ASSUME NEW p \in Peers, AddPeer(a, p) PROVE PeersOK'
    <3>1. PICK st \in 0 .. 2 : status' = [status EXCEPT ![p] = st]
      BY <1>a, <2>1 DEF AddPeer
    <3>2. QED
      BY <1>0, <2>1, <3>1 DEF AddPeer, PeersOK, remoteVars
  <2>2. CASE UNCHANGED <<peerVars, remoteVars, pumped>>
    BY <1>0, <2>2 DEF PeersOK, peerVars, remoteVars
  <2>3. QED
    BY <1>1, <2>1, <2>2 DEF App, SendMessage, SubPeer, EraseID, Remove, Insert, Disconnect, Clear, Destroy, Join
<1>2. CASE Broadcast \/ NextTarget
  BY <1>0, <1>2 DEF Broadcast, NextTarget, PeersOK, peerVars, remoteVars
<1>3. CASE Enter \/ While \/ Unlock("prune", "select") \/ Select \/ LockScan \/ Unlock("scan", "while")
  BY <1>0, <1>3 DEF Enter, While, Unlock, Select, LockScan, PeersOK, peerVars, remoteVars
<1>4. CASE UdpFind
  <2>1. UNCHANGED <<peerVars, stream, eof, pumped>> /\ (said' = said \/ (said < MaxSaid /\ said' = said + 1))
    BY <1>4 DEF UdpFind
  <2>2. said' \in 0 .. MaxSaid
    BY <1>0, <1>a, <2>1 DEF PeersOK
  <2>3. QED
    BY <1>0, <2>1, <2>2 DEF PeersOK, peerVars
<1>5. CASE UdpReceive
  <2>1. cur[Net] \in Peers
    BY <1>5, NetLabels DEF UdpReceive, In, At, TypeInv, TypeOK, Control, Here
  <2>2. IsConnected(cur[Net]) /\ UNCHANGED <<mem, active, udp, mxSockets, remoteVars>>
        /\ (pumped' = pumped \/ pumped' = [pumped EXCEPT ![cur[Net]] = "data"])
    BY <1>5 DEF UdpReceive, Pump
  <2>3. pumped' \in [Peers -> Kinds \cup {NULL}]
    BY <1>0, <2>1, <2>2 DEF PeersOK, Kinds
  <2>4. QED
    BY <1>0, <2>1, <2>2, <2>3, IsConnectedOK DEF PeersOK, remoteVars
<1>6. CASE Within
  <2>0. cur[Net] \in Peers
    BY <1>6, InsideIs DEF Inside
  <2>1. CASE Prune \/ Scan
    <3>1. IsConnected(cur[Net]) /\ UNCHANGED <<mem, active, udp, mxSockets, remoteVars, pumped>>
      BY <2>1 DEF Prune, Scan
    <3>2. QED
      BY <1>0, <2>0, <3>1, IsConnectedOK DEF PeersOK, remoteVars
  <2>2. CASE PruneErase \/ ScanErase \/ Goodbye \/ HandleSubscribe
    BY <1>0, <2>2 DEF PruneErase, ScanErase, Goodbye, HandleSubscribe, PeersOK, peerVars, remoteVars
  <2>3. CASE HandleData \/ HandleGoodbye
    <3>1. PICK k \in Kinds : /\ UNCHANGED <<peerVars, remoteVars>>
                             /\ pumped' = pumped \/ pumped' = [pumped EXCEPT ![cur[Net]] = k]
      BY <2>3 DEF HandleData, HandleGoodbye, Pump, Kinds
    <3>2. pumped' \in [Peers -> Kinds \cup {NULL}]
      BY <1>0, <2>0, <3>1 DEF PeersOK
    <3>3. QED
      BY <1>0, <3>1, <3>2 DEF PeersOK, peerVars, remoteVars
  <2>4. CASE ReadFailed
    <3>1. ConnectSockets(cur[Net]) /\ UNCHANGED <<mem, active, mxSockets, stream, said, pumped>>
      BY <2>4 DEF ReadFailed
    <3>2. QED
      BY <1>0, <2>0, <3>1, ConnectSocketsOK DEF PeersOK
  <2>5. CASE Read
    <3> DEFINE p == cur[Net]
    <3>1. UNCHANGED <<mem, active, udp, mxSockets, said, eof, pumped>>
      BY <2>5 DEF Read
    <3>2. /\ status' \in [Peers -> 0 .. 2] /\ tcp' \in [Peers -> {"up", "error", "closed"}]
          /\ stream' \in [Peers -> Seq(Kinds)]
      <4>1. CASE UNCHANGED <<status, tcp>> /\ \E k \in 1 .. Len(stream[p]) :
                     stream' = [stream EXCEPT ![p] = SubSeq(@, k + 1, Len(@))]
        <5>1. PICK k \in 1 .. Len(stream[p]) : stream' = [stream EXCEPT ![p] = SubSeq(@, k + 1, Len(@))]
          BY <4>1
        <5>2. stream[p] \in Seq(Kinds)
          BY <1>0, <2>0 DEF PeersOK
        <5>3. SubSeq(stream[p], k + 1, Len(stream[p])) \in Seq(Kinds)
          BY <5>2
        <5>4. QED
          BY <1>0, <2>0, <4>1, <5>1, <5>3 DEF PeersOK
      <4>2. CASE IsConnected(p) /\ UNCHANGED stream
        BY <1>0, <2>0, <4>2, IsConnectedOK DEF PeersOK
      <4>3. CASE /\ tcp' = [tcp EXCEPT ![p] = "closed"]
                 /\ status' = [status EXCEPT ![p] = IF @ = 2 THEN 1 ELSE @] /\ UNCHANGED stream
        BY <1>0, <1>a, <2>0, <4>3 DEF PeersOK
      <4>4. QED
        BY <2>5, <4>1, <4>2, <4>3 DEF Read
    <3>3. QED
      BY <1>0, <3>1, <3>2 DEF PeersOK
  <2>6. QED
    BY <1>6, <2>1, <2>2, <2>3, <2>4, <2>5 DEF Within
<1>7. ASSUME NEW t \in Threads, PeerNext(t) PROVE PeersOK'
  <2>0. cur[t] \in Peers
    BY <1>7, MethodIs
  <2>1. CASE Send(t)
    <3>1. UNCHANGED <<mem, active, udp, mxSockets, remoteVars, pumped>>
          /\ (UNCHANGED <<status, tcp>> \/ IsConnected(cur[t]))
      BY <2>1 DEF Send
    <3>2. QED
      BY <1>0, <2>0, <3>1, IsConnectedOK DEF PeersOK, remoteVars
  <2>2. CASE Reconnect(t)
    <3>1. ConnectSockets(cur[t]) /\ UNCHANGED <<mem, active, mxSockets, stream, said, pumped>>
      BY <2>2 DEF Reconnect
    <3>2. QED
      BY <1>0, <2>0, <3>1, ConnectSocketsOK DEF PeersOK
  <2>3. CASE Recheck(t)
    <3>1. IsConnected(cur[t]) /\ UNCHANGED <<mem, active, udp, mxSockets, remoteVars, pumped>>
      BY <2>3 DEF Recheck
    <3>2. QED
      BY <1>0, <2>0, <3>1, IsConnectedOK DEF PeersOK, remoteVars
  <2>4. CASE Write(t)
    <3>1. UNCHANGED <<mem, status, active, remoteVars, pumped>>
      BY <2>4 DEF Write
    <3>2. mxSockets' \in [Peers -> Threads \cup {NULL}]
      <4>1. mxSockets' = mxSockets \/ mxSockets' = [mxSockets EXCEPT ![cur[t]] = t]
        BY <2>4 DEF Write
      <4>2. QED
        BY <1>0, <2>0, <4>1 DEF PeersOK
    <3>3. tcp' \in [Peers -> {"up", "error", "closed"}]
      <4>1. tcp' = tcp \/ tcp' = [tcp EXCEPT ![cur[t]] = IF @ = "up" THEN @ ELSE "closed"]
        BY <2>4 DEF Write
      <4>2. QED
        BY <1>0, <2>0, <4>1 DEF PeersOK
    <3>4. udp' \in [Peers -> {"up", "closed"}]
      <4>1. udp' = udp \/ udp' = [udp EXCEPT ![cur[t]] = "closed"]
        BY <2>4 DEF Write
      <4>2. QED
        BY <1>0, <2>0, <4>1 DEF PeersOK
    <3>5. QED
      BY <1>0, <3>1, <3>2, <3>3, <3>4 DEF PeersOK, remoteVars
  <2>5. CASE Delete(t) \/ Unregister(t)
    BY <1>0, <2>5 DEF Delete, Unregister, PeersOK, peerVars, remoteVars
  <2>6. CASE Drop(t) \/ Free(t)
    <3>1. CloseSockets(cur[t]) /\ UNCHANGED <<mxSockets, said, pumped>>
          /\ (mem' = mem \/ mem' = [mem EXCEPT ![cur[t]] = "freed"])
          /\ status' = [status EXCEPT ![cur[t]] = 0] /\ active' = [active EXCEPT ![cur[t]] = FALSE]
      BY <2>6 DEF Drop, Free
    <3>2. QED
      BY <1>0, <1>a, <2>0, <3>1, CloseSocketsOK DEF PeersOK
  <2>7. QED
    BY <1>7, <2>1, <2>2, <2>3, <2>4, <2>5, <2>6 DEF PeerNext
<1>8. CASE Quiet
  <2>1. UNCHANGED <<mem, status, active, udp, mxSockets, pumped>>
    BY <1>8 DEF Quiet
  <2>2. CASE UNCHANGED <<tcp, remoteVars>>
    BY <1>0, <2>1, <2>2 DEF PeersOK, remoteVars
  <2>3. ASSUME NEW p \in Peers, NEW k \in Kinds, Say(p, k) PROVE PeersOK'
    <3>1. said' \in 0 .. MaxSaid
      BY <1>0, <1>a, <2>3 DEF Say, PeersOK
    <3>2. stream' \in [Peers -> Seq(Kinds)]
      <4>1. stream[p] \in Seq(Kinds)
        BY <1>0 DEF PeersOK
      <4>2. Append(stream[p], k) \in Seq(Kinds)
        BY <4>1
      <4>3. QED
        BY <1>0, <2>3, <4>2 DEF Say, PeersOK
    <3>3. eof' \in [Peers -> BOOLEAN] /\ UNCHANGED tcp
      BY <1>0, <2>3 DEF Say, PeersOK, peerVars
    <3>4. QED
      BY <1>0, <2>1, <3>1, <3>2, <3>3 DEF PeersOK
  <2>4. ASSUME NEW p \in Peers, CloseSilently(p) \/ Break(p) PROVE PeersOK'
    <3>1. << >> \in Seq(Kinds)
      OBVIOUS
    <3>2. CASE CloseSilently(p)
      BY <1>0, <3>2 DEF CloseSilently, PeersOK, peerVars
    <3>3. CASE Break(p)
      <4>1. UNCHANGED <<said, eof>> /\ tcp' \in [Peers -> {"up", "error", "closed"}]
        BY <1>0, <3>3 DEF Break, PeersOK
      <4>2. stream' \in [Peers -> Seq(Kinds)]
        BY <1>0, <3>1, <3>3 DEF Break, PeersOK
      <4>3. QED
        BY <1>0, <2>1, <4>1, <4>2 DEF PeersOK
    <3>4. QED
      BY <2>4, <3>2, <3>3
  <2>5. QED
    BY <1>8, <2>2, <2>3, <2>4 DEF Quiet, Remote
<1>9. QED
  BY <1>1, <1>2, <1>3, <1>4, <1>5, <1>6, <1>7, <1>8, NextIs DEF Outside

-----------------------------------------------------------------------------
(* The list and the iterators. *)

LEMMA ListWithout ==
    ASSUME TypeInv, NEW p, list' = Without(list, p)
    PROVE  list' \in Seq(Peers) /\ Distinct(list') /\ Listed' = Listed \ {p}
<1>1. list \in Seq(Peers) /\ Distinct(list)
  BY DEF TypeInv, TypeOK, Iterates
<1>2. /\ Without(list, p) \in Seq(Peers) /\ Distinct(Without(list, p))
      /\ Range(Without(list, p)) = Range(list) \ {p}
  BY <1>1, WithoutIs
<1>3. Listed' = Range(list')
  BY DEF Listed, Range
<1>4. QED
  BY <1>2, <1>3, ListedIs

LEMMA ListAppend ==
    ASSUME TypeInv, NEW p \in Peers \ Listed, list' = Append(list, p)
    PROVE  list' \in Seq(Peers) /\ Distinct(list') /\ Listed' = Listed \cup {p}
<1> DEFINE s == Append(list, p)
<1>1. list \in Seq(Peers) /\ Distinct(list) /\ DOMAIN list = 1 .. Len(list) /\ Len(list) \in Nat
  BY DEF TypeInv, TypeOK, Iterates
<1>2. /\ s \in Seq(Peers) /\ DOMAIN s = 1 .. Len(list) + 1 /\ s[Len(list) + 1] = p
      /\ \A i \in 1 .. Len(list) : s[i] = list[i]
  BY <1>1
<1>3. list' = s
  OBVIOUS
<1> HIDE DEF s
<1>4. \A i \in DOMAIN list : list[i] \in Listed /\ list[i] # p
  BY DEF Listed
<1>5. Distinct(s)
  <2>1. ASSUME NEW i \in DOMAIN s, NEW j \in DOMAIN s, s[i] = s[j] PROVE i = j
    <3>1. i \in 1 .. Len(list) \/ i = Len(list) + 1
      BY <1>1, <1>2
    <3>2. j \in 1 .. Len(list) \/ j = Len(list) + 1
      BY <1>1, <1>2
    <3>3. CASE i \in 1 .. Len(list) /\ j \in 1 .. Len(list)
      BY <1>1, <1>2, <2>1, <3>3 DEF Distinct
    <3>4. CASE i \in 1 .. Len(list) /\ j = Len(list) + 1
      BY <1>1, <1>2, <1>4, <2>1, <3>4
    <3>5. CASE j \in 1 .. Len(list) /\ i = Len(list) + 1
      BY <1>1, <1>2, <1>4, <2>1, <3>5
    <3>6. QED
      BY <3>1, <3>2, <3>3, <3>4, <3>5
  <2>2. QED
    BY <2>1 DEF Distinct
<1>6. {s[i] : i \in DOMAIN s} = Listed \cup {p}
  <2>1. ASSUME NEW i \in DOMAIN s PROVE s[i] \in Listed \cup {p}
    <3>1. i \in 1 .. Len(list) \/ i = Len(list) + 1
      BY <1>1, <1>2
    <3>2. QED
      BY <1>1, <1>2, <1>4, <3>1
  <2>2. ASSUME NEW q \in Listed PROVE \E i \in DOMAIN s : s[i] = q
    <3>1. PICK i \in DOMAIN list : list[i] = q
      BY DEF Listed
    <3>2. QED
      BY <1>1, <1>2, <3>1
  <2>3. Len(list) + 1 \in DOMAIN s
    BY <1>1, <1>2
  <2>4. QED
    BY <1>2, <2>1, <2>2, <2>3
<1>7. QED
  BY <1>2, <1>3, <1>5, <1>6 DEF Listed

LEMMA ListSame ==
    ASSUME TypeInv, list' = list
    PROVE  list' \in Seq(Peers) /\ Distinct(list') /\ Listed' = Listed
BY DEF TypeInv, TypeOK, Iterates, Listed

LEMMA ListEmpty ==
    ASSUME list' = << >>
    PROVE  list' \in Seq(Peers) /\ Distinct(list') /\ Listed' = {}
<1>1. DOMAIN list' = {}
  OBVIOUS
<1>2. QED
  BY <1>1 DEF Distinct, Listed

\* What App leaves alone, and what it does to the list.
AppList(a) ==
    \/ UNCHANGED <<list, byID>> /\ pc[a] # "insert" /\ (pc'[a] # "insert" => mem' = mem)
    \/ /\ pc[a] = "insert" /\ mxPeers = NULL /\ mxPeers' = NULL /\ list' = Append(list, cur[a]) /\ mem' = mem
       /\ byID' = [byID EXCEPT ![IDOf[cur[a]]] = IF @ = NULL THEN cur[a] ELSE @]
    \/ /\ pc[a] = "eraseID" /\ pc'[a] = "remove" /\ cur'[a] = cur[a] /\ UNCHANGED <<mem, list, mxPeers>>
       /\ byID' = [byID EXCEPT ![IDOf[cur[a]]] = NULL]
    \/ /\ pc[a] = "remove" /\ AppInside(a, <<"idle">>) /\ cur'[a] = cur[a]
       /\ list' = Without(list, cur[a]) /\ UNCHANGED <<mem, byID, mxPeers>>
       /\ mxPeers # NULL /\ cur[mxPeers] = cur[a] => fault' # "none"
    \/ Clearing(a) /\ mxPeers' = NULL /\ mem' = mem /\ list' = << >> /\ byID' = [i \in IDs |-> NULL]

LEMMA AppLists ==
    ASSUME TypeInv, NEW a \in AppThreads, App(a)
    PROVE  AppList(a) /\ (fault' = fault \/ fault' = "lostIterator") /\ running' \in {running, FALSE} /\ ready' = ready
           /\ (pc'[a] # "insert" => UNCHANGED peerVars) /\ UNCHANGED active
<1> USE DEF MayCall, At, netVars, peerVars, AppList
<1>1. ASSUME NEW p \in Peers, AddPeer(a, p) \/ SendMessage(a, p)
      PROVE  AppList(a) /\ fault' = fault /\ running' = running /\ ready' = ready
             /\ (pc'[a] # "insert" => UNCHANGED peerVars) /\ UNCHANGED active
  <2>1. CASE AddPeer(a, p)
    <3>1. Move(a, "insert", p) /\ "insert" \in Labels /\ p \in Peers \cup {NULL}
      BY <2>1, AppLabels DEF AddPeer
    <3>2. pc'[a] = "insert"
      BY <3>1, MoveIs, ThreadNames DEF TypeInv
    <3>3. QED
      BY <2>1, <3>2 DEF AddPeer
  <2>2. CASE SendMessage(a, p)
    BY <2>2 DEF SendMessage
  <2>3. QED
    BY <1>1, <2>1, <2>2
<1>2. CASE Insert(a)
  BY <1>2 DEF Insert
<1>3. ASSUME NEW i \in IDs, SubPeer(a, i)
      PROVE  AppList(a) /\ fault' = fault /\ running' = running /\ ready' = ready
             /\ UNCHANGED peerVars
  BY <1>3 DEF SubPeer
<1>4. CASE Disconnect(a) \/ Destroy(a) \/ Join(a)
  BY <1>4 DEF Disconnect, Destroy, Join
<1>5. CASE Clear(a)
  <2>1. Clearing(a)
    <3>1. pc[a] = "clear" /\ Here(a)
      BY <1>5, ThreadNames DEF Clear, TypeInv, Control
    <3>2. ~InMethod(a) /\ pc[a] \notin OwnLabels(a)
      BY <3>1, MethodLabels, LabelSets, ThreadNames
    <3>3. QED
      BY <3>1, <3>2 DEF Here
  <2>2. \/ UNCHANGED <<netVars, peerVars, fault>>
        \/ list' = << >> /\ byID' = [i \in IDs |-> NULL] /\ mxPeers' = NULL
              /\ UNCHANGED <<running, ready, peerVars, fault>>
    BY <1>5 DEF Clear
  <2>3. pc[a] # "insert"
    BY <2>1 DEF Clearing
  <2>4. QED
    BY <2>1, <2>2, <2>3
<1>6. CASE EraseID(a)
  <2>1. cur[a] \in Peers \cup {NULL} /\ "remove" \in Labels
    BY AppLabels, ThreadNames DEF TypeInv, TypeOK
  <2>2. pc'[a] = "remove" /\ cur'[a] = cur[a]
    BY <1>6, <2>1, MoveIs, ThreadNames DEF EraseID, Goto, TypeInv
  <2>3. QED
    BY <1>6, <2>2 DEF EraseID
<1>7. CASE Remove(a)
  <2>1. /\ pc[a] = "remove" /\ Call(a, "delete", cur[a], <<"idle">>)
        /\ UNCHANGED <<byID, mxPeers, running, ready, peerVars>>
        /\ list' = Without(list, cur[a])
        /\ fault' = IF mxPeers # NULL /\ cur[mxPeers] = cur[a] THEN "lostIterator" ELSE fault
    BY <1>7 DEF Remove
  <2>2. AppInside(a, <<"idle">>) /\ cur'[a] = cur[a]
    <3>1. cur[a] \in Peers /\ "delete" \in Labels /\ <<"idle">> \in Seq(Labels)
      <4>1. pc[a] \in Busy => cur[a] # NULL
        BY ThreadNames DEF TypeInv, Control, Here
      <4>2. QED
        BY <2>1, <4>1, AppLabels, ThreadNames DEF Busy, TypeInv, TypeOK
    <3>2. pc'[a] = "delete" /\ cur'[a] = cur[a] /\ stack'[a] = <<"idle">> \o stack[a]
      BY <2>1, <3>1, CallIs, ThreadNames DEF TypeInv
    <3>3. stack[a] = << >>
      BY <2>1, AppFree, AppLabels
    <3>4. QED
      BY <3>1, <3>2, <3>3, NullIsNothing, TwoLabels DEF AppInside
  <2>3. QED
    BY <2>1, <2>2
<1>8. QED
  BY <1>1, <1>2, <1>3, <1>4, <1>5, <1>6, <1>7 DEF App

LEMMA NetOKNext ==
    ASSUME TypeInv, Births, [Next]_vars
    PROVE  NetOK' /\ Distinct(list')
<1> USE ThreadNames
<1>0. NetOK
  BY TypeParts DEF TypeInv
<1>a. << >> \in Seq(Peers) /\ << >> \in Seq(Kinds)
  OBVIOUS
<1>b. Distinct(list)
  BY DEF TypeInv, Iterates
<1>1. ASSUME NEW a \in AppThreads, App(a) PROVE NetOK' /\ Distinct(list')
  <2>1. /\ AppList(a) /\ (fault' = fault \/ fault' = "lostIterator") /\ running' \in {running, FALSE} /\ ready' = ready
        /\ UNCHANGED <<mxListener, targets, listening, batch>> /\ Acts(a)
    BY <1>1, AppIs, AppLists
  <2>2. mxPeers' \in Threads \cup {NULL}
    BY <1>0, <2>1 DEF Acts, LockStep, NetOK
  <2>3. byID' \in [IDs -> Peers \cup {NULL}] /\ list' \in Seq(Peers) /\ Distinct(list')
    <3>1. CASE UNCHANGED <<list, byID>>
      BY <1>0, <1>b, <3>1 DEF NetOK
    <3>2. CASE /\ pc[a] = "insert" /\ list' = Append(list, cur[a])
               /\ byID' = [byID EXCEPT ![IDOf[cur[a]]] = IF @ = NULL THEN cur[a] ELSE @]
      <4>1. Fresh(cur[a], a) /\ cur[a] # NULL /\ cur[a] \in Peers
        BY <3>2 DEF Births, TypeInv, TypeOK, Control, Here, Busy
      <4>2. cur[a] \in Peers \ Listed
        BY <4>1 DEF Fresh, Known
      <4>3. list' \in Seq(Peers) /\ Distinct(list')
        BY <3>2, <4>2, ListAppend
      <4>4. byID' \in [IDs -> Peers \cup {NULL}]
        BY <1>0, <3>2, <4>1 DEF NetOK
      <4>5. QED
        BY <4>3, <4>4
    <3>3. CASE list' = list /\ byID' = [byID EXCEPT ![IDOf[cur[a]]] = NULL]
      BY <1>0, <1>b, <3>3 DEF NetOK
    <3>4. CASE list' = Without(list, cur[a]) /\ byID' = byID
      BY <1>0, <3>4, ListWithout DEF NetOK
    <3>5. CASE list' = << >> /\ byID' = [i \in IDs |-> NULL]
      BY <1>a, <3>5, ListEmpty
    <3>6. QED
      BY <2>1, <3>1, <3>2, <3>3, <3>4, <3>5 DEF AppList
  <2>4. QED
    BY <1>0, <2>1, <2>2, <2>3 DEF NetOK
<1>2. CASE Broadcast \/ NextTarget
  <2>1. /\ UNCHANGED <<netVars, listening, fault>> /\ ListenerStep(Worker)
        /\ (targets' = listening \/ targets' = targets \/ targets' = targets \ {cur'[Worker]})
    BY <1>2, WorkerIs DEF Acts, WorkerStep
  <2>2. mxListener' \in Threads \cup {NULL} /\ targets' \in SUBSET Peers
    BY <1>0, <2>1 DEF NetOK, ListenerStep
  <2>3. QED
    BY <1>0, <1>b, <2>1, <2>2 DEF NetOK, netVars
<1>3. CASE Outside
  <2>1. Acts(Net) /\ fault' = fault /\ UNCHANGED <<list, byID, running, batch, listening, targets, mxListener>>
    <3>1. Acts(Net) /\ fault' = fault
      BY <1>3, OutsideIs DEF Outside
    <3>2. QED
      BY <1>3, <3>1 DEF Outside, Enter, While, Unlock, Select, UdpFind, UdpReceive, LockScan, netVars, brokerVars
  <2>2. ready' \in SUBSET Peers
    BY <1>0, <1>3 DEF NetOK, Outside, Enter, While, Unlock, Select, UdpFind, UdpReceive, LockScan, netVars
  <2>3. mxPeers' \in Threads \cup {NULL}
    BY <1>0, <2>1 DEF Acts, LockStep, NetOK
  <2>4. QED
    BY <1>0, <1>b, <2>1, <2>2, <2>3 DEF NetOK
<1>4. CASE Within
  <2>1. Inside
    BY <1>4, InsideIs
  <2>2. list' \in Seq(Peers) /\ Distinct(list')
    BY <2>1, ListWithout, ListSame DEF Inside
  <2>3. /\ fault' = fault /\ mxPeers' \in Threads \cup {NULL}
        /\ UNCHANGED <<running, mxListener, targets>>
    BY <1>4, <2>1 DEF Inside, Within, Prune, PruneErase, Scan, Read, ReadFailed, ScanErase, HandleData,
       HandleSubscribe, HandleGoodbye, Goodbye, netVars, brokerVars
  <2>4. ready' \in SUBSET Peers
    <3>1. ready' = ready \/ ready' = ready \cup {cur[Net]}
      BY <1>4 DEF Within, Prune, PruneErase, Scan, Read, ReadFailed, ScanErase, HandleData,
         HandleSubscribe, HandleGoodbye, Goodbye, netVars
    <3>2. QED
      BY <1>0, <2>1, <3>1 DEF NetOK, Inside
  <2>5. listening' \in SUBSET Peers
    <3>1. listening' = listening \/ listening' = listening \cup {cur[Net]}
      BY <1>4 DEF Within, Prune, PruneErase, Scan, Read, ReadFailed, ScanErase, HandleData,
         HandleSubscribe, HandleGoodbye, Goodbye, brokerVars
    <3>2. QED
      BY <1>0, <2>1, <3>1 DEF NetOK, Inside
  <2>6. byID' \in [IDs -> Peers \cup {NULL}]
    <3>1. byID' = byID \/ byID' = [byID EXCEPT ![IDOf[cur[Net]]] = NULL]
      BY <1>4 DEF Within, Prune, PruneErase, Scan, Read, ReadFailed, ScanErase, HandleData,
         HandleSubscribe, HandleGoodbye, Goodbye, netVars
    <3>2. QED
      BY <1>0, <3>1 DEF NetOK
  <2>7. batch' \in Seq(Kinds)
    <3>1. CASE Read
      <4>1. cur[Net] \in Peers /\ stream[cur[Net]] \in Seq(Kinds)
        BY <2>1 DEF Inside, TypeInv, TypeOK
      <4>2. \A k \in 1 .. Len(stream[cur[Net]]) : SubSeq(stream[cur[Net]], 1, k) \in Seq(Kinds)
        BY <4>1
      <4>3. batch' = batch \/ \E k \in 1 .. Len(stream[cur[Net]]) : batch' = SubSeq(stream[cur[Net]], 1, k)
        BY <3>1 DEF Read
      <4>4. QED
        BY <1>0, <4>2, <4>3 DEF NetOK
    <3>2. CASE ~Read
      <4>1. batch' = batch \/ batch' = << >> \/ (pc[Net] = "handle" /\ batch' = Tail(batch))
        BY <1>4, <3>2 DEF Within, Prune, PruneErase, Scan, ReadFailed, ScanErase, HandleData,
           HandleSubscribe, HandleGoodbye, Goodbye, NextOfBatch, At, netVars
      <4>2. pc[Net] = "handle" => batch # << >>
        BY DEF TypeInv, Iterates
      <4>3. batch \in Seq(Kinds)
        BY <1>0 DEF NetOK
      <4>4. batch # << >> => Tail(batch) \in Seq(Kinds)
        BY <4>3
      <4>5. QED
        BY <1>a, <4>1, <4>2, <4>3, <4>4
    <3>3. QED
      BY <3>1, <3>2
  <2>8. QED
    BY <1>0, <2>2, <2>3, <2>4, <2>5, <2>6, <2>7 DEF NetOK
<1>5. ASSUME NEW t \in Threads, PeerNext(t) PROVE NetOK' /\ Distinct(list')
  <2>1. UNCHANGED <<netVars, mxListener, targets, fault>>
    BY <1>5, MethodIs
  <2>2. listening' \in SUBSET listening
    BY <1>5 DEF PeerNext, Send, Reconnect, Recheck, Write, Delete, Unregister, Drop, Free, brokerVars
  <2>3. QED
    BY <1>0, <1>b, <2>1, <2>2 DEF NetOK, netVars
<1>6. CASE Quiet
  BY <1>0, <1>b, <1>6 DEF Quiet, NetOK, netVars, brokerVars
<1>7. QED
  BY <1>1, <1>2, <1>3, <1>4, <1>5, <1>6, NextIs

LEMMA IteratesNext ==
    ASSUME TypeInv, Births, [Next]_vars
    PROVE  Iterates'
<1> USE ThreadNames
<1>a. Distinct(list')
  BY NetOKNext
<1>b. /\ mxPeers = Net /\ cur[Net] # NULL /\ fault = "none" => cur[Net] \in Listed
      /\ pc[Net] = "handle" => batch # << >>
      /\ list \in Seq(Peers)
  BY DEF TypeInv, TypeOK, Iterates
<1>c. SUFFICES /\ mxPeers' = Net /\ cur'[Net] # NULL /\ fault' = "none" => cur'[Net] \in Listed'
               /\ pc'[Net] = "handle" => batch' # << >>
  BY <1>a DEF Iterates
<1>1. ASSUME NEW a \in AppThreads, App(a)
      PROVE  /\ mxPeers' = Net /\ cur'[Net] # NULL /\ fault' = "none" => cur'[Net] \in Listed'
             /\ pc'[Net] = "handle" => batch' # << >>
  <2>1. AppList(a) /\ Acts(a) /\ fault = "none" /\ UNCHANGED batch
    BY <1>1, AppIs, AppLists
  <2>2. pc'[Net] = pc[Net] /\ cur'[Net] = cur[Net]
    BY <2>1 DEF Acts, Only
  <2>3. mxPeers' = Net => mxPeers = Net
    BY <2>1 DEF Acts, LockStep
  <2>4. ASSUME mxPeers' = Net, cur'[Net] # NULL, fault' = "none" PROVE cur'[Net] \in Listed'
    <3>1. CASE list' = list
      BY <1>b, <2>1, <2>2, <2>3, <2>4, <3>1 DEF Listed
    <3>2. CASE /\ list' = Without(list, cur[a])
               /\ mxPeers # NULL /\ cur[mxPeers] = cur[a] => fault' # "none"
      <4>1. Listed' = Listed \ {cur[a]}
        BY <3>2, ListWithout
      <4>2. QED
        BY <1>b, <2>1, <2>2, <2>3, <2>4, <3>2, <4>1
    <3>3. QED
      BY <2>1, <2>4, <3>1, <3>2 DEF AppList
  <2>5. QED
    BY <1>b, <2>1, <2>2, <2>4
<1>2. CASE Broadcast \/ NextTarget
  BY <1>2, <1>b, WorkerIs DEF Acts, Only, netVars, Listed
<1>3. CASE Outside
  <2>1. UNCHANGED <<list, batch>>
    BY <1>3 DEF Outside, Enter, While, Unlock, Select, UdpFind, UdpReceive, LockScan, netVars
  <2>2. /\ Acts(Net) /\ fault = "none"
        /\ \/ pc'[Net] \in {"prune", "scan"} /\ cur'[Net] = First(list)
           \/ pc'[Net] \in {"while", "ended", "select", "udp", "udpPeer", "lockScan"}
    BY <1>3, OutsideIs DEF Outside
  <2>3. CASE pc'[Net] \in {"prune", "scan"} /\ cur'[Net] = First(list)
    BY <2>1, <2>3, FirstIs DEF Listed
  <2>4. CASE pc'[Net] \in {"while", "ended", "select", "udp", "udpPeer", "lockScan"}
    <3>1. ~(HoldsPeers(Net)')
      BY <2>4, NetLabels DEF HoldsPeers
    <3>2. Control'
      BY ControlNext
    <3>3. mxPeers' # Net
      BY <3>1, <3>2 DEF Control
    <3>4. QED
      BY <2>4, <3>3
  <2>5. QED
    BY <2>2, <2>3, <2>4
<1>4. CASE Within
  <2>1. Inside
    BY <1>4, InsideIs
  <2>2. /\ cur[Net] \in Listed /\ list' \in {list, Without(list, cur[Net])}
        /\ Listed' = Listed \/ Listed' = Listed \ {cur[Net]}
    BY <2>1, ListWithout, ListSame DEF Inside
  <2>3. After(list, cur[Net]) \in (Listed \ {cur[Net]}) \cup {NULL}
    BY <2>2, AfterListed
  <2>4. cur'[Net] # NULL => cur'[Net] \in Listed'
    <3>1. CASE Skips(Net)
      BY <2>2, <2>3, <3>1 DEF Skips
    <3>2. CASE /\ list' = Without(list, cur[Net])
               /\ cur'[Net] = IF After(list, cur[Net]) = NULL THEN First(list') ELSE After(list', After(list, cur[Net]))
      <4> DEFINE next == After(list, cur[Net])
      <4>1. list' \in Seq(Peers) /\ Distinct(list') /\ Listed' = Listed \ {cur[Net]}
        BY <3>2, ListWithout
      <4>2. First(list') \in Listed' \cup {NULL}
        BY <4>1 DEF First, Listed
      <4>3. ASSUME next # NULL PROVE After(list', next) \in Listed' \cup {NULL}
        <5>1. PICK i \in DOMAIN list' : list'[i] = next
          BY <2>3, <4>1, <4>3 DEF Listed
        <5>2. /\ After(list', list'[i]) = IF i < Len(list') THEN list'[i + 1] ELSE NULL
              /\ After(list', list'[i]) # NULL => \E j \in DOMAIN list' : j # i /\ After(list', list'[i]) = list'[j]
          BY <4>1, AfterIs
        <5>3. QED
          BY <5>1, <5>2 DEF Listed
      <4>4. QED
        BY <3>2, <4>2, <4>3
    <3>3. CASE Keeps(Net) /\ list' = list
      BY <2>2, <3>3, ListSame DEF Keeps
    <3>4. QED
      BY <2>1, <3>1, <3>2, <3>3 DEF Inside, LoopStep, EraseStep
  <2>5. pc'[Net] = "handle" => batch' # << >>
    <3>1. batch \in Seq(Kinds) /\ pc \in [Threads -> Labels] /\ cur[Net] \in Peers
      BY <2>1 DEF TypeInv, TypeOK, Inside
    <3>2. pc'[Net] = "handle" => pc[Net] \in {"read", "handle"}
      BY <2>1 DEF Inside, LoopStep, EraseStep
    <3>3. ASSUME Read, pc'[Net] = "handle" PROVE batch' # << >>
      <4>1. PICK k \in 1 .. Len(stream[cur[Net]]) : batch' = SubSeq(stream[cur[Net]], 1, k)
        BY <3>1, <3>3 DEF Read, Goto, Move
      <4>2. stream[cur[Net]] \in Seq(Kinds)
        BY <3>1 DEF TypeInv, TypeOK
      <4>3. QED
        BY <4>1, <4>2
    <3>4. ASSUME HandleData \/ HandleSubscribe, pc'[Net] = "handle" PROVE batch' # << >>
      <4>1. NextOfBatch(cur[Net]) /\ pc[Net] = "handle"
        BY <3>4 DEF HandleData, HandleSubscribe, At
      <4>2. batch' = Tail(batch) /\ Len(batch) > 1
        BY <3>1, <3>4, <4>1 DEF NextOfBatch, Move
      <4>3. batch # << >> /\ Len(batch) \in Nat
        BY <3>1, <4>2
      <4>4. Len(Tail(batch)) = Len(batch) - 1
        BY <3>1, <4>3
      <4>5. Len(batch') > 0
        BY <4>2, <4>3, <4>4
      <4>6. Len(<< >>) = 0
        OBVIOUS
      <4>7. QED
        BY ONLY <4>5, <4>6
    <3>5. HandleGoodbye => pc'[Net] # "handle"
      BY <3>1 DEF HandleGoodbye, Goto, Move, Call
    <3>6. QED
      BY <1>4, <3>2, <3>3, <3>4, <3>5 DEF Within, Prune, PruneErase, Scan, ReadFailed, ScanErase, Goodbye, At
  <2>6. QED
    BY <2>4, <2>5
<1>5. ASSUME NEW t \in Threads, PeerNext(t)
      PROVE  /\ mxPeers' = Net /\ cur'[Net] # NULL /\ fault' = "none" => cur'[Net] \in Listed'
             /\ pc'[Net] = "handle" => batch' # << >>
  <2>1. UNCHANGED <<list, batch, mxPeers>> /\ Only(t) /\ InMethodStep(t) /\ fault = "none"
    BY <1>5, MethodIs DEF netVars, Acts
  <2>2. cur'[Net] = cur[Net]
    BY <2>1 DEF Only, InMethodStep, Deleting, Deleted, Sending, Sent, Leaving, Left, Sends, Keeps
  <2>3. pc'[Net] = pc[Net] \/ pc'[Net] # "handle"
    <3>1. CASE t # Net
      BY <2>1, <3>1 DEF Only
    <3>2. CASE t = Net
      <4>1. CASE Deleted(t)
        BY <3>2, <4>1, RestHeads DEF Deleted, Rests
      <4>2. CASE ~Deleted(t)
        BY <2>1, <3>2, <4>2
           DEF InMethodStep, Deleting, Sending, Sent, Leaving, Left, Sends, Leaves, Deletes, SendLabels
      <4>3. QED
        BY <4>1, <4>2
    <3>3. QED
      BY <3>1, <3>2
  <2>4. QED
    BY <1>b, <2>1, <2>2, <2>3 DEF Listed
<1>6. CASE Quiet
  BY <1>b, <1>6 DEF Quiet, netVars, Listed
<1>7. QED
  BY <1>1, <1>2, <1>3, <1>4, <1>5, <1>6, NextIs

-----------------------------------------------------------------------------
(* Which peers are known. *)

\* A step of thread t brings nobody else's new peer into play.
Tame(t) ==
    /\ Only(t) /\ pc'[t] # "insert"
    /\ \A p \in Peers : mem'[p] # mem[p] \/ active'[p] # active[p]
                            => p = cur[t] /\ mem[p] # "unborn" /\ mem'[p] # "unborn"
    /\ Known' \subseteq Known \cup {NULL, cur[t]}
    /\ cur'[t] \in Known \cup {NULL, cur[t]}
           \cup {p \in Born : \A b \in AppThreads : pc[b] = "insert" => cur[b] # p}

FreshNext(p, a) ==
    /\ mem'[p] = "alive" /\ active'[p] = TRUE /\ p \notin Known'
    /\ \A t \in Threads \ {a} : cur'[t] # p

LEMMA TameStep ==
    ASSUME TypeInv, Births, NEW t \in Threads, Tame(t)
    PROVE  Births'
<1> USE ThreadNames
<1>1. Born \subseteq Born' /\ NULL \notin Born
  BY DEF Born, Tame
<1>2. Known \cup {cur[u] : u \in Threads} \subseteq Born \cup {NULL}
  BY DEF Births
<1>3. \A u \in Threads : cur'[u] \in Born' \cup {NULL}
  <2>1. ASSUME NEW u \in Threads PROVE cur'[u] \in Born' \cup {NULL}
    <3>1. CASE u = t
      BY <1>1, <1>2, <3>1 DEF Tame
    <3>2. CASE u # t
      BY <1>1, <1>2, <3>2 DEF Tame, Only
    <3>3. QED
      BY <3>1, <3>2
  <2>2. QED
    BY <2>1
<1>4. Known' \subseteq Born' \cup {NULL}
  BY <1>1, <1>2 DEF Tame
<1>5. ASSUME NEW a \in AppThreads, pc'[a] = "insert" PROVE FreshNext(cur'[a], a)
  <2>1. a # t /\ pc[a] = "insert" /\ cur'[a] = cur[a]
    BY <1>5 DEF Tame, Only
  <2>2. Fresh(cur[a], a)
    BY <2>1 DEF Births
  <2>3. cur[a] # NULL /\ cur[a] \in Peers
    BY <2>1 DEF TypeInv, TypeOK, Control, Here, Busy
  <2>4. cur[t] # cur[a] /\ cur[a] \notin Known
    BY <2>1, <2>2 DEF Fresh
  <2>5. mem'[cur[a]] = "alive" /\ active'[cur[a]] = TRUE
    BY <2>2, <2>3, <2>4 DEF Tame, Fresh
  <2>6. cur[a] \notin Known' /\ cur'[t] # cur[a]
    BY <2>1, <2>3, <2>4 DEF Tame
  <2>7. \A u \in Threads \ {a} : cur'[u] # cur[a]
    <3>1. ASSUME NEW u \in Threads \ {a} PROVE cur'[u] # cur[a]
      <4>1. CASE u = t
        BY <2>6, <4>1
      <4>2. CASE u # t
        BY <2>2, <4>2 DEF Tame, Only, Fresh
      <4>3. QED
        BY <4>1, <4>2
    <3>2. QED
      BY <3>1
  <2>8. QED
    BY <2>1, <2>5, <2>6, <2>7 DEF FreshNext
<1>6. ASSUME NEW p \in Peers, mem'[p] = "unborn" PROVE active'[p] = TRUE
  BY <1>6 DEF Tame, Births
<1>7. QED
  <2>1. Known' \cup {cur'[u] : u \in Threads} \subseteq Born' \cup {NULL}
    BY <1>3, <1>4
  <2>2. QED
    BY <1>5, <1>6, <2>1 DEF Births, Fresh, FreshNext

\* How m_lpPeers, m_mapPeersByID and the listeners change.
KnownStep(t) ==
    /\ Listed' \subseteq Listed \cup {cur[t]}
    /\ \A i \in IDs : byID'[i] \in {byID[i], NULL, cur[t]}
    /\ listening' \subseteq listening \cup {cur[t]}
    /\ targets' \subseteq targets \cup listening

LEMMA KnownIs ==
    ASSUME NEW t, KnownStep(t)
    PROVE  Known' \subseteq Known \cup {NULL, cur[t]}
<1>1. ASSUME NEW p \in Known' PROVE p \in Known \cup {NULL, cur[t]}
  <2>1. p \in Listed' \/ p \in listening' \/ p \in targets' \/ \E i \in IDs : p = byID'[i]
    BY DEF Known
  <2>2. QED
    BY <2>1 DEF Known, KnownStep
<1>2. QED
  BY <1>1

LEMMA WithinKnown ==
    ASSUME TypeInv, Within
    PROVE  /\ KnownStep(Net) /\ UNCHANGED <<mem, active>>
           /\ Listed' = Listed \/ Listed' = Listed \ {cur[Net]}
<1>1. Inside
  BY InsideIs
<1>2. Listed' = Listed \/ Listed' = Listed \ {cur[Net]}
  BY <1>1, ListWithout, ListSame DEF Inside
<1>3. /\ listening' = listening \/ listening' = listening \cup {cur[Net]}
      /\ UNCHANGED <<mem, active, targets>>
      /\ byID' = byID \/ byID' = [byID EXCEPT ![IDOf[cur[Net]]] = NULL]
  BY DEF Within, Prune, PruneErase, Scan, Read, ReadFailed, ScanErase, HandleData,
     HandleSubscribe, HandleGoodbye, Goodbye, peerVars, netVars, brokerVars
<1>4. \A i \in IDs : byID'[i] \in {byID[i], NULL, cur[Net]}
  BY <1>3 DEF TypeInv, TypeOK
<1>5. QED
  BY <1>2, <1>3, <1>4 DEF KnownStep

LEMMA MethodKnown ==
    ASSUME TypeInv, NEW t \in Threads, PeerNext(t)
    PROVE  /\ KnownStep(t) /\ list' = list /\ byID' = byID /\ Listed' = Listed
           /\ \A p \in Peers : mem'[p] # mem[p] \/ active'[p] # active[p]
                                  => p = cur[t] /\ mem[p] # "unborn" /\ mem'[p] # "unborn"
<1>1. UNCHANGED <<list, byID, targets>> /\ cur[t] \in Peers /\ mem[cur[t]] = "alive"
  BY MethodIs DEF netVars
<1>2. listening' \subseteq listening
  BY DEF PeerNext, Send, Reconnect, Recheck, Write, Delete, Unregister, Drop, Free, brokerVars
<1>3. /\ mem' = mem \/ mem' = [mem EXCEPT ![cur[t]] = "freed"]
      /\ active' = active \/ active' = [active EXCEPT ![cur[t]] = FALSE]
  BY DEF PeerNext, Send, Reconnect, Recheck, Write, Delete, Unregister, Drop, Free, peerVars
<1>4. \A p \in Peers : mem'[p] # mem[p] \/ active'[p] # active[p]
                                  => p = cur[t] /\ mem[p] # "unborn" /\ mem'[p] # "unborn"
  BY <1>1, <1>3 DEF TypeInv, TypeOK
<1>5. Listed' = Listed
  BY <1>1 DEF Listed
<1>6. QED
  BY <1>1, <1>2, <1>4, <1>5 DEF KnownStep

LEMMA AppKnown ==
    ASSUME TypeInv, Births, NEW a \in AppThreads, App(a)
    PROVE  /\ \/ Listed' = Listed \/ Listed' = {}
              \/ pc[a] = "insert" /\ Listed' = Listed \cup {cur[a]} /\ cur[a] \in Peers
              \/ /\ pc[a] = "remove" /\ AppInside(a, <<"idle">>) /\ cur'[a] = cur[a] /\ cur[a] \in Peers
                 /\ Listed' = Listed \ {cur[a]}
           /\ KnownStep(a)
<1> USE ThreadNames
<1>1. AppList(a) /\ UNCHANGED <<targets, listening>>
  BY AppIs, AppLists
<1>a. list \in Seq(Peers) /\ byID \in [IDs -> Peers \cup {NULL}]
  BY DEF TypeInv, TypeOK
<1>2. CASE UNCHANGED <<list, byID>>
  BY <1>1, <1>2 DEF KnownStep, Listed
<1>3. CASE /\ pc[a] = "insert" /\ list' = Append(list, cur[a])
           /\ byID' = [byID EXCEPT ![IDOf[cur[a]]] = IF @ = NULL THEN cur[a] ELSE @]
  <2>1. Fresh(cur[a], a) /\ cur[a] # NULL /\ cur[a] \in Peers
    BY <1>3 DEF Births, TypeInv, TypeOK, Control, Here, Busy
  <2>2. cur[a] \in Peers \ Listed
    BY <2>1 DEF Fresh, Known
  <2>3. Listed' = Listed \cup {cur[a]}
    BY <1>3, <2>2, ListAppend
  <2>4. \A i \in IDs : byID'[i] \in {byID[i], NULL, cur[a]}
    BY <1>a, <1>3
  <2>5. QED
    BY <1>1, <1>3, <2>1, <2>3, <2>4 DEF KnownStep
<1>4. CASE list' = list /\ byID' = [byID EXCEPT ![IDOf[cur[a]]] = NULL]
  <2>1. \A j \in IDs : byID'[j] \in {byID[j], NULL}
    BY <1>a, <1>4
  <2>2. QED
    BY <1>1, <1>4, <2>1 DEF KnownStep, Listed
<1>5. CASE /\ pc[a] = "remove" /\ AppInside(a, <<"idle">>) /\ cur'[a] = cur[a]
           /\ list' = Without(list, cur[a]) /\ byID' = byID
  <2>1. Listed' = Listed \ {cur[a]}
    BY <1>5, ListWithout
  <2>2. cur[a] \in Peers
    BY <1>5 DEF AppInside, TypeInv, TypeOK
  <2>3. QED
    BY <1>1, <1>5, <2>1, <2>2 DEF KnownStep
<1>6. CASE list' = << >> /\ byID' = [i \in IDs |-> NULL]
  BY <1>1, <1>6, ListEmpty DEF KnownStep
<1>7. QED
  BY <1>1, <1>2, <1>3, <1>4, <1>5, <1>6 DEF AppList

LEMMA BirthsNext ==
    ASSUME TypeInv, Births, [Next]_vars
    PROVE  Births'
<1> USE ThreadNames
<1>a. /\ Known \subseteq Born \cup {NULL} /\ \A t \in Threads : cur[t] \in Born \cup {NULL}
      /\ \A a \in AppThreads : pc[a] = "insert" => Fresh(cur[a], a)
      /\ NULL \notin Born
  BY DEF Births, Born
<1>1. ASSUME NEW a \in AppThreads, App(a) PROVE Births'
  <2>1. /\ AppStep(a) /\ Only(a) /\ KnownStep(a) /\ UNCHANGED active
        /\ (pc'[a] # "insert" => UNCHANGED peerVars)
    BY <1>1, AppIs, AppLists, AppKnown DEF Acts
  <2>2. Known' \subseteq Known \cup {NULL, cur[a]}
    BY <2>1, KnownIs
  <2>3. CASE pc'[a] = "insert"
    <3>1. PICK p \in Peers : AddPeer(a, p)
      <4>1. pc \in [Threads -> Labels] /\ stack \in [Threads -> Seq(Labels)]
        BY DEF TypeInv, TypeOK
      <4>2. pc[a] = "idle"
        BY <2>1, <2>3 DEF AppStep, AppInside, AppSends, AppClears
      <4>3. QED
        BY <1>1, <2>3, <4>1, <4>2
           DEF App, SendMessage, SubPeer, EraseID, Remove, Insert, Disconnect, Clear, Destroy, Join, Call, Goto, Move, At
    <3>2. /\ mem[p] = "unborn" /\ mem' = [mem EXCEPT ![p] = "alive"] /\ UNCHANGED <<list, byID, listening, targets>>
          /\ Move(a, "insert", p)
      BY <3>1 DEF AddPeer, netVars, brokerVars
    <3>3. cur'[a] = p
      BY <3>2 DEF Move, TypeInv, TypeOK
    <3>4. Known' = Known
      BY <3>2 DEF Known, Listed
    <3>5. p \notin Known /\ \A t \in Threads : cur[t] # p
      BY <1>a, <3>2 DEF Born
    <3>6. mem'[p] = "alive" /\ \A q \in Peers \ {p} : mem'[q] = mem[q]
      BY <3>2 DEF TypeInv, TypeOK
    <3>7. Born' = Born \cup {p}
      BY <3>2, <3>6 DEF Born
    <3>8. active[p] = TRUE
      BY <3>2 DEF Births
    <3>9. ASSUME NEW b \in AppThreads, pc'[b] = "insert" PROVE FreshNext(cur'[b], b)
      <4>1. CASE b = a
        BY <2>1, <3>3, <3>4, <3>5, <3>6, <3>8, <4>1 DEF FreshNext, Only
      <4>2. CASE b # a
        <5>1. pc[b] = "insert" /\ cur'[b] = cur[b]
          BY <2>1, <3>9, <4>2 DEF Only
        <5>2. Fresh(cur[b], b) /\ cur[b] \in Peers /\ cur[b] # p
          BY <1>a, <3>5, <5>1 DEF TypeInv, TypeOK, Control, Here, Busy
        <5>3. mem'[cur[b]] = "alive" /\ active'[cur[b]] = TRUE /\ cur[b] \notin Known'
          BY <2>1, <3>4, <3>6, <5>2 DEF Fresh
        <5>4. \A u \in Threads \ {b} : cur'[u] # cur[b]
          BY <2>1, <3>3, <5>2 DEF Fresh, Only
        <5>5. QED
          BY <5>1, <5>3, <5>4 DEF FreshNext
      <4>3. QED
        BY <4>1, <4>2
    <3>10. \A t \in Threads : cur'[t] \in Born' \cup {NULL}
      BY <1>a, <2>1, <3>3, <3>7 DEF Only
    <3>11. QED
      <4>1. Known' \cup {cur'[t] : t \in Threads} \subseteq Born' \cup {NULL}
        BY <1>a, <3>4, <3>7, <3>10
      <4>2. \A q \in Peers : mem'[q] = "unborn" => active'[q] = TRUE
        BY <2>1, <3>6 DEF Births
      <4>3. QED
        BY <3>9, <4>1, <4>2 DEF Births, Fresh, FreshNext
  <2>4. CASE pc'[a] # "insert"
    <3>1. UNCHANGED <<mem, active>>
      BY <2>1, <2>4 DEF peerVars
    <3>2. cur'[a] \in Known \cup {NULL, cur[a]}
              \cup {p \in Born : \A b \in AppThreads : pc[b] = "insert" => cur[b] # p}
      BY <2>1, <2>4 DEF AppStep, Known, Born
    <3>3. Tame(a)
      BY <2>1, <2>2, <2>4, <3>1, <3>2 DEF Tame
    <3>4. QED
      BY <3>3, TameStep
  <2>5. QED
    BY <2>3, <2>4
<1>2. CASE Broadcast \/ NextTarget
  <2>1. /\ Only(Worker) /\ WorkerStep /\ UNCHANGED <<mem, active, list, byID, listening>>
    BY <1>2, WorkerIs DEF Acts, peerVars, netVars
  <2>2. KnownStep(Worker)
    BY <2>1 DEF KnownStep, WorkerStep, Listed
  <2>3. Known' \subseteq Known \cup {NULL, cur[Worker]}
    BY <2>2, KnownIs
  <2>4. cur'[Worker] \in Known \cup {cur[Worker]} /\ pc'[Worker] # "insert"
    BY <2>1 DEF WorkerStep, Known, Keeps
  <2>5. Tame(Worker)
    BY <2>1, <2>3, <2>4 DEF Tame
  <2>6. QED
    BY <2>5, TameStep
<1>3. CASE Outside
  <2>1. UNCHANGED <<mem, active, list, byID, listening, targets>>
    BY <1>3 DEF Outside, Enter, While, Unlock, Select, UdpFind, UdpReceive, LockScan, peerVars, netVars, brokerVars
  <2>2. KnownStep(Net)
    BY <2>1 DEF KnownStep, Listed
  <2>3. Only(Net) /\ pc'[Net] # "insert" /\ cur'[Net] \in Known \cup {NULL, cur[Net]}
    <3>1. First(list) \in Known \cup {NULL}
      BY FirstIs DEF Known
    <3>2. QED
      BY <1>3, <3>1, OutsideIs DEF Outside, Acts, Known
  <2>4. Tame(Net)
    BY <2>1, <2>2, <2>3, KnownIs DEF Tame
  <2>5. QED
    BY <2>4, TameStep
<1>4. CASE Within
  <2>1. KnownStep(Net) /\ UNCHANGED <<mem, active>> /\ Inside /\ (Listed' = Listed \/ Listed' = Listed \ {cur[Net]})
    BY <1>4, WithinKnown, InsideIs
  <2>2. Only(Net) /\ pc'[Net] # "insert"
    BY <2>1 DEF Inside, Acts, LoopStep, EraseStep
  <2>3. cur'[Net] \in Known \cup {NULL, cur[Net]}
    <3>1. cur'[Net] = cur[Net] \/ cur'[Net] \in Listed' \cup {NULL}
      <4>1. Iterates' /\ mxPeers' = Net /\ fault' = "none"
        BY <2>1, IteratesNext DEF Inside
      <4>2. QED
        BY <4>1 DEF Iterates
    <3>2. QED
      BY <2>1, <3>1 DEF Known
  <2>4. Tame(Net)
    BY <2>1, <2>2, <2>3, KnownIs DEF Tame
  <2>5. QED
    BY <2>4, TameStep
<1>5. ASSUME NEW t \in Threads, PeerNext(t) PROVE Births'
  <2>1. Only(t) /\ InMethodStep(t)
    BY <1>5, MethodIs DEF Acts
  <2>2. pc'[t] # "insert" /\ cur'[t] \in {cur[t], NULL}
    <3>1. CASE Deleted(t)
      BY <3>1, RestHeads DEF Deleted, Rests
    <3>2. CASE ~Deleted(t)
      BY <2>1, <3>2
         DEF InMethodStep, Deleting, Sending, Sent, Leaving, Left, Sends, Leaves, Deletes, SendLabels, Home, Keeps
    <3>3. QED
      BY <3>1, <3>2
  <2>3. Tame(t)
    BY <1>5, <2>1, <2>2, MethodKnown, KnownIs DEF Tame
  <2>4. QED
    BY <2>3, TameStep
<1>6. CASE Quiet
  BY <1>6 DEF Quiet, netVars, brokerVars, Births, Born, Known, Listed, Fresh
<1>7. QED
  BY <1>1, <1>2, <1>3, <1>4, <1>5, <1>6, NextIs

LEMMA TypeInvInit == Init => TypeInv /\ Births
<1> SUFFICES ASSUME Init PROVE TypeInv /\ Births
  OBVIOUS
<1> USE ThreadNames
<1>1. << >> \in Seq(Peers) /\ << >> \in Seq(Kinds) /\ << >> \in Seq(Labels)
  OBVIOUS
<1>2. PeersOK
  BY <1>1, MaxSaidAssumption DEF Init, PeersOK
<1>3. NetOK
  BY <1>1 DEF Init, NetOK
<1>4. pc \in [Threads -> Labels] /\ stack \in [Threads -> Seq(Labels)] /\ cur \in [Threads -> Peers \cup {NULL}]
  BY <1>1 DEF Init, Labels
<1>5. \A t \in Threads : /\ pc[t] \in {"enter", "idle"} /\ pc[t] \in OwnLabels(t) /\ stack[t] = << >> /\ cur[t] = NULL
                         /\ (t # Net => pc[t] = "idle") /\ (t = Net => pc[t] = "enter")
  BY DEF Init, OwnLabels
<1>6. \A t \in Threads : Here(t) /\ ~HoldsPeers(t)
  <2>1. \A t \in Threads : ~Clearing(t) /\ \A r : ~Deletes(t, r)
    BY <1>5 DEF Clearing, Deletes, SendLabels
  <2>2. QED
    BY <1>5, <2>1, NetLabels DEF Here, HoldsPeers, InClear, Busy, PeerLabels, SendLabels, NetLocked
<1>7. Control
  BY <1>5, <1>6 DEF Init, Control
<1>8. Iterates /\ Listed = {}
  BY <1>5 DEF Init, Iterates, Distinct, Listed
<1>9. Births
  <2>1. \A p \in Known : p = NULL
    BY <1>8 DEF Init, Known
  <2>2. QED
    BY <1>5, <2>1 DEF Init, Births
<1>10. QED
  BY <1>2, <1>3, <1>4, <1>7, <1>8, <1>9, TypeParts DEF TypeInv

LEMMA TypeInvNext ==
    ASSUME TypeInv, Births, [Next]_vars
    PROVE  TypeInv' /\ Births'
<1>1. TypeOK'
  BY PeersNext, NetOKNext, ControlNext DEF TypeOK, PeersOK, NetOK
<1>2. QED
  BY <1>1, ControlNext, IteratesNext, BirthsNext DEF TypeInv

LEMMA Inductive == Spec => [](TypeInv /\ Births)
<1>1. TypeInv /\ Births /\ [Next]_vars => (TypeInv /\ Births)'
  BY TypeInvNext
<1>2. QED
  BY <1>1, TypeInvInit, PTL DEF Spec

\* Every variable has its type, whatever the threads, the peers and the remote
\* programs do (Peer2PeerNetwork.cpp, Peer.cpp).
THEOREM TypeCorrect == Spec => []TypeOK
<1>1. TypeInv => TypeOK
  BY DEF TypeInv
<1>2. QED
  BY <1>1, Inductive, PTL

-----------------------------------------------------------------------------
(* Which peers exist. *)

\* Whoever deletes a peer has locked m_mxPeers, unless it is in subPeer().
LEMMA DeleterIs ==
    ASSUME TypeInv, NEW t \in Threads, NEW r \in Rests(t), Deletes(t, r)
    PROVE  \/ t = Net /\ mxPeers = Net
           \/ t \in AppThreads /\ mxPeers = t /\ r # <<"idle">>
           \/ t \in AppThreads /\ mxPeers # t /\ r = <<"idle">>
<1> USE ThreadNames
<1>1. pc[t] \in PeerLabels
  BY MethodLabels DEF InMethod
<1>2. mxPeers = t <=> HoldsPeers(t)
  BY DEF TypeInv, Control
<1>3. CASE t = Net
  BY <1>1, <1>2, <1>3 DEF HoldsPeers
<1>4. CASE t \in AppThreads /\ r = <<"idle">>
  <2>1. ~Clearing(t)
    BY <1>1, AtMethod
  <2>2. \A q \in {<<"clear", "idle">>, <<"clear", "done">>} : q \in Rests(t) /\ q # r
    BY <1>4 DEF Rests
  <2>3. ~HoldsPeers(t)
    BY <1>4, <2>1, <2>2, OneMethod DEF HoldsPeers, InClear
  <2>4. QED
    BY <1>2, <1>4, <2>3
<1>5. CASE t \in AppThreads /\ r # <<"idle">>
  <2>1. r \in {<<"clear", "idle">>, <<"clear", "done">>}
    BY <1>5 DEF Rests
  <2>2. QED
    BY <1>2, <1>5, <2>1 DEF HoldsPeers, InClear
<1>6. QED
  BY <1>3, <1>4, <1>5, RestsIs

\* A peer that a thread deletes is the network thread's own, or not one that
\* the network thread is at.
LEMMA FreeIs ==
    ASSUME TypeInv, Deaths, NEW t \in Threads, PeerNext(t)
    PROVE  /\ \A p \in Peers \ {cur[t]} : mem'[p] = mem[p] /\ active'[p] = active[p]
           /\ pc[t] # "free" => mem' = mem
           /\ pc[t] = "free" => \/ t = Net /\ mxPeers = Net
                                \/ mxPeers \in AppThreads
                                \/ t # Net /\ cur[t] \notin Listed
<1> USE ThreadNames
<1>1. cur[t] \in Peers /\ pc[t] \in PeerLabels
  BY MethodIs
<1>2. \A p \in Peers \ {cur[t]} : mem'[p] = mem[p] /\ active'[p] = active[p]
  BY MethodKnown
<1>3. pc[t] # "free" => mem' = mem
  BY DEF PeerNext, Send, Reconnect, Recheck, Write, Delete, Unregister, Drop, Free, In, At, peerVars
<1>4. ASSUME pc[t] = "free"
      PROVE  \/ t = Net /\ mxPeers = Net
             \/ mxPeers \in AppThreads
             \/ t # Net /\ cur[t] \notin Listed
  <2>1. PICK r \in Rests(t) : Deletes(t, r)
    BY <1>1, <1>4, AtMethod DEF InMethod, Sends, Leaves, SendLabels
  <2>2. QED
    BY <2>1, DeleterIs DEF Deaths
<1>5. QED
  BY <1>2, <1>3, <1>4

LEMMA NetLockIs ==
    ASSUME TypeInv
    PROVE  mxPeers = Net <=> pc[Net] \in NetLocked \cup PeerLabels
BY ThreadNames DEF TypeInv, Control, HoldsPeers

LEMMA RemoveIs ==
    ASSUME NEW a \in AppThreads, App(a)
    PROVE  /\ pc[a] = "eraseID" => EraseID(a)
           /\ pc[a] = "remove" => Remove(a)
BY DEF App, AddPeer, SendMessage, SubPeer, Insert, EraseID, Remove, Disconnect, Clear, Destroy, Join,
       MayCall, At

LEMMA RemoveErases ==
    ASSUME TypeInv, NEW a \in AppThreads, Remove(a)
    PROVE  Listed' = Listed \ {cur'[a]} /\ cur'[a] = cur[a]
<1>1. cur'[a] = cur[a]
  BY ThreadNames DEF Remove, Call, TypeInv, TypeOK
<1>2. Listed' = Listed \ {cur[a]}
  BY ListWithout DEF Remove
<1>3. QED
  BY <1>1, <1>2

\* The network thread, or none, iterates over the list.
LEMMA ListedAlive ==
    ASSUME TypeInv, ListedExist, mxPeers \notin AppThreads
    PROVE  \A p \in Listed : mem[p] = "alive" \/ (mxPeers = Net /\ cur[Net] = p)
BY DEF ListedExist

LEMMA ListedExistNext ==
    ASSUME ExistInv, [Next]_vars
    PROVE  ListedExist'
<1> USE ThreadNames
<1>0. TypeInv /\ Births /\ Deaths /\ ListedExist /\ TypeInv' /\ Births'
  BY TypeInvNext DEF ExistInv
<1>a. \A p \in Listed : p \in Peers
  BY <1>0, FirstIs
<1>b. \A i, j \in DOMAIN list' : list'[i] = list'[j] => i = j
  BY <1>0 DEF TypeInv, Iterates, Distinct
<1>c. SUFFICES ASSUME NEW p \in Listed', mxPeers' \notin AppThreads
               PROVE  mem'[p] = "alive" \/ (mxPeers' = Net /\ cur'[Net] = p)
  BY <1>b DEF ListedExist
<1>1. ASSUME NEW a \in AppThreads, App(a) PROVE mem'[p] = "alive" \/ (mxPeers' = Net /\ cur'[Net] = p)
  <2>1. AppList(a) /\ Acts(a) /\ (pc'[a] # "insert" => UNCHANGED peerVars)
    BY <1>0, <1>1, AppIs, AppLists
  <2>2. cur'[Net] = cur[Net]
    BY <2>1 DEF Acts, Only
  <2>3. /\ \/ Listed' = Listed \/ Listed' = {}
           \/ pc[a] = "insert" /\ Listed' = Listed \cup {cur[a]} /\ cur[a] \in Peers
           \/ Listed' = Listed \ {cur[a]}
    BY <1>0, <1>1, AppKnown
  <2>4. ASSUME NEW q \in Peers, mem[q] = "alive" PROVE mem'[q] = "alive"
    <3>1. mem' = mem \/ \E n \in Peers : mem[n] = "unborn" /\ mem' = [mem EXCEPT ![n] = "alive"]
      BY <1>1 DEF App, AddPeer, SendMessage, SubPeer, EraseID, Remove, Insert, Disconnect, Clear, Destroy, Join, peerVars
    <3>2. QED
      BY <1>0, <2>4, <3>1 DEF TypeInv, TypeOK
  <2>5. CASE pc[a] = "insert" /\ p = cur[a]
    <3>1. mem[p] = "alive" /\ p \in Peers
      BY <1>0, <2>5 DEF Births, Fresh, TypeInv, TypeOK, Control, Here, Busy
    <3>2. QED
      BY <2>4, <3>1
  <2>6. CASE p \in Listed
    <3>1. CASE mxPeers = Net
      <4>1. mxPeers' = Net
        BY <2>1, <3>1, <1>0, AtOwn DEF Acts, LockStep
      <4>2. QED
        BY <1>0, <1>a, <2>2, <2>4, <2>6, <3>1, <4>1, ListedAlive
    <3>2. CASE mxPeers # Net /\ mxPeers \notin AppThreads
      BY <1>0, <1>a, <2>4, <2>6, <3>2, ListedAlive
    <3>3. CASE mxPeers \in AppThreads
      <4>1. mxPeers = a /\ mxPeers' = NULL
        BY <1>c, <2>1, <3>3 DEF Acts, LockStep
      <4>2. list' = << >>
        BY <1>1, <4>1 DEF App, AddPeer, SendMessage, SubPeer, EraseID, Remove, Insert, Disconnect, Clear, Destroy, Join, netVars
      <4>3. QED
        BY <4>2, ListEmpty
    <3>4. QED
      BY <3>1, <3>2, <3>3
  <2>7. QED
    BY <2>3, <2>5, <2>6
<1>2. CASE Broadcast \/ NextTarget
  BY <1>0, <1>c, <1>2, WorkerIs DEF Acts, Only, netVars, peerVars, Listed, ListedExist
<1>3. CASE Outside
  <2>1. UNCHANGED <<mem, list>>
    BY <1>3 DEF Outside, Enter, While, Unlock, Select, UdpFind, UdpReceive, LockScan, peerVars, netVars
  <2>2. Acts(Net) /\ fault = "none"
    BY <1>0, <1>3, OutsideIs DEF Outside
  <2>3. mxPeers = Net => cur[Net] = NULL
    <3>1. mxPeers = Net => pc[Net] \in NetLocked \cup PeerLabels
      BY <1>0, NetLockIs
    <3>2. QED
      BY <1>3, <3>1, NetLabels DEF Outside, Enter, While, Unlock, Select, UdpFind, UdpReceive, LockScan, In, At
  <2>4. mxPeers \notin AppThreads
    BY <1>c, <2>2 DEF Acts, LockStep
  <2>5. QED
    BY <1>0, <1>a, <2>1, <2>3, <2>4, ListedAlive DEF Listed
<1>4. CASE Within
  <2>1. Inside /\ UNCHANGED mem /\ (Listed' = Listed \/ Listed' = Listed \ {cur[Net]})
    BY <1>0, <1>4, InsideIs, WithinKnown
  <2>2. CASE p # cur[Net]
    BY <1>0, <2>1, <2>2, ListedAlive DEF Inside
  <2>3. CASE p = cur[Net] /\ Keeps(Net)
    BY <2>1, <2>3 DEF Inside, Keeps
  <2>4. CASE p = cur[Net] /\ ~Keeps(Net)
    <3>1. LoopStep
      <4>1. list' = Without(list, cur[Net]) => Listed' = Listed \ {cur[Net]}
        BY <1>0, ListWithout
      <4>2. QED
        BY <2>1, <2>4, <4>1 DEF Inside
    <3>2. pc[Net] \in NetLocked \ {"pruneErase", "scanErase"}
      BY <3>1, NetLabels DEF LoopStep
    <3>3. mem[p] = "alive"
      BY <1>0, <2>1, <2>4, <3>2 DEF Deaths, Inside
    <3>4. QED
      BY <2>1, <3>3
  <2>5. QED
    BY <2>2, <2>3, <2>4
<1>5. ASSUME NEW t \in Threads, PeerNext(t) PROVE mem'[p] = "alive" \/ (mxPeers' = Net /\ cur'[Net] = p)
  <2>1. /\ Listed' = Listed /\ mxPeers' = mxPeers /\ InMethodStep(t) /\ Only(t) /\ cur[t] \in Peers
    BY <1>0, <1>5, MethodKnown, MethodIs DEF netVars, Acts
  <2>2. cur'[Net] = cur[Net]
    BY <2>1 DEF Only, InMethodStep, Deleting, Deleted, Sending, Sent, Leaving, Left, Sends, Keeps
  <2>3. mem[p] = "alive" \/ (mxPeers = Net /\ cur[Net] = p)
    BY <1>0, <1>c, <2>1, ListedAlive
  <2>4. CASE mem'[p] = mem[p]
    BY <2>1, <2>2, <2>3, <2>4
  <2>5. CASE mem'[p] # mem[p]
    <3>1. p = cur[t] /\ pc[t] = "free"
      BY <1>0, <1>5, <1>a, <2>1, <2>5, FreeIs
    <3>2. t = Net /\ mxPeers = Net
      BY <1>0, <1>5, <1>c, <2>1, <3>1, FreeIs
    <3>3. QED
      BY <2>1, <2>2, <3>1, <3>2
  <2>6. QED
    BY <2>4, <2>5
<1>6. CASE Quiet
  BY <1>0, <1>c, <1>6 DEF Quiet, netVars, Listed, ListedExist
<1>7. QED
  BY <1>0, <1>1, <1>2, <1>3, <1>4, <1>5, <1>6, NextIs

LEMMA DeathsNext ==
    ASSUME ExistInv, [Next]_vars
    PROVE  Deaths'
<1> USE ThreadNames
<1>0. TypeInv /\ Births /\ Deaths /\ ListedExist /\ TypeInv' /\ Births' /\ ListedExist'
  BY TypeInvNext, ListedExistNext DEF ExistInv
<1>a. \A p \in Listed : p \in Peers
  BY <1>0, FirstIs
\* The network thread.
<1> DEFINE AtAlive == \/ pc[Net] \in NetLocked \ {"pruneErase", "scanErase"} /\ cur[Net] # NULL
                      \/ Leaves(Net)
<1>b. AtAlive /\ fault = "none" => mem[cur[Net]] = "alive" /\ cur[Net] \in Peers /\ cur[Net] \in Listed /\ mxPeers = Net
  <2>1. ASSUME AtAlive, fault = "none"
        PROVE mem[cur[Net]] = "alive" /\ cur[Net] \in Peers /\ cur[Net] \in Listed /\ mxPeers = Net
    <3>1. mem[cur[Net]] = "alive"
      BY <1>0, <2>1 DEF Deaths
    <3>2. pc[Net] \in NetLocked \cup PeerLabels
      BY <2>1 DEF Leaves, PeerLabels
    <3>3. cur[Net] # NULL
      BY <1>0, <2>1, AtMethod DEF Leaves, PeerLabels
    <3>4. QED
      BY <1>0, <2>1, <3>1, <3>2, <3>3, CurListed
  <2>2. QED
    BY <2>1
<1>c. ASSUME NEW u \in Threads, u # Net, Only(u), ~UNCHANGED <<pc, stack, cur>> \/ TRUE
      PROVE  AtAlive' <=> AtAlive
  BY <1>c DEF Only, Leaves
<1>d. AtAlive' /\ fault' = "none" => mem'[cur'[Net]] = "alive"
  <2>0. SUFFICES ASSUME AtAlive', fault' = "none" PROVE mem'[cur'[Net]] = "alive"
    OBVIOUS
  <2>1. ASSUME NEW a \in AppThreads, App(a) PROVE mem'[cur'[Net]] = "alive"
    <3>1. Only(a) /\ fault = "none" /\ cur'[Net] = cur[Net]
      BY <1>0, <2>1, AppIs DEF Acts, Only
    <3>2. mem[cur[Net]] = "alive" /\ cur[Net] \in Peers
      BY <1>b, <1>c, <2>0, <3>1
    <3>3. mem' = mem \/ \E n \in Peers : mem[n] = "unborn" /\ mem' = [mem EXCEPT ![n] = "alive"]
      BY <2>1 DEF App, AddPeer, SendMessage, SubPeer, EraseID, Remove, Insert, Disconnect, Clear, Destroy, Join, peerVars
    <3>4. QED
      BY <1>0, <3>1, <3>2, <3>3 DEF TypeInv, TypeOK
  <2>2. ASSUME Broadcast \/ NextTarget PROVE mem'[cur'[Net]] = "alive"
    <3>1. Only(Worker) /\ fault = "none" /\ mem' = mem /\ cur'[Net] = cur[Net]
      BY <1>0, <2>2, WorkerIs DEF Acts, Only, peerVars
    <3>2. QED
      BY <1>b, <1>c, <2>0, <3>1
  <2>3. ASSUME Outside PROVE mem'[cur'[Net]] = "alive"
    <3>1. UNCHANGED mem /\ (pc'[Net] \in {"prune", "scan"} => mxPeers = NULL)
      BY <2>3 DEF Outside, Enter, While, Unlock, Select, UdpFind, UdpReceive, LockScan, peerVars,
            Goto, Move, TypeInv, TypeOK, ExistInv
    <3>2. cur'[Net] = First(list) /\ pc'[Net] \in {"prune", "scan"}
      BY <1>0, <2>0, <2>3, OutsideIs, NetLabels DEF Outside, Leaves
    <3>3. First(list) # NULL
      BY <2>0, <3>2 DEF Leaves
    <3>4. QED
      BY <1>0, <3>1, <3>2, <3>3, FirstIs, ListedAlive
  <2>4. ASSUME Within PROVE mem'[cur'[Net]] = "alive"
    <3>1. Inside /\ UNCHANGED mem /\ (Listed' = Listed \/ Listed' = Listed \ {cur[Net]})
      BY <1>0, <2>4, InsideIs, WithinKnown
    <3>2. cur'[Net] # NULL
      BY <1>0, <2>0 DEF Leaves, TypeInv, Control, Here, Busy, PeerLabels
    <3>3. CASE cur'[Net] = cur[Net]
      <4>1. LoopStep => pc[Net] \in NetLocked \ {"pruneErase", "scanErase"}
        BY NetLabels DEF LoopStep
      <4>2. mxPeers' = Net /\ fault' = "none" /\ cur'[Net] \in Listed'
        BY <1>0, <3>1, <3>2 DEF Inside, TypeInv, Iterates
      <4>3. LoopStep
        <5>1. list' = Without(list, cur[Net]) => Listed' = Listed \ {cur[Net]}
          BY <1>0, ListWithout
        <5>2. QED
          BY <3>1, <3>3, <4>2, <5>1 DEF Inside
      <4>4. QED
        BY <1>0, <3>1, <3>3, <4>1, <4>3 DEF Inside, Deaths
    <3>4. CASE cur'[Net] # cur[Net]
      <4>1. mxPeers' = Net /\ fault' = "none" /\ cur'[Net] \in Listed'
        BY <1>0, <3>1, <3>2 DEF Inside, TypeInv, Iterates
      <4>2. cur'[Net] \in Listed
        BY <3>1, <4>1
      <4>3. QED
        BY <1>0, <3>1, <3>4, <4>2, ListedAlive DEF Inside
    <3>5. QED
      BY <3>3, <3>4
  <2>5. ASSUME NEW t \in Threads, PeerNext(t) PROVE mem'[cur'[Net]] = "alive"
    <3>1. /\ fault = "none" /\ InMethodStep(t) /\ Only(t) /\ cur[t] \in Peers /\ pc[t] \in PeerLabels
          /\ mem[cur[t]] = "alive"
      BY <1>0, <2>5, MethodIs DEF Acts
    <3>2. cur'[Net] = cur[Net]
      BY <3>1 DEF Only, InMethodStep, Deleting, Deleted, Sending, Sent, Leaving, Left, Sends, Keeps
    <3>3. CASE t = Net
      <4>1. pc[t] # "free"
        <5>1. pc[t] = "free" => Deleting(t) \/ Deleted(t)
          BY <3>1, <3>3 DEF InMethodStep, Sending, Sent, Leaving, Left, Sends, Leaves, SendLabels
        <5>2. ~Deleted(t)
          <6>1. Deleted(t) => pc'[Net] \in {"pruneErase", "scanErase"}
            BY <3>3, RestHeads DEF Deleted, Rests
          <6>2. QED
            BY <2>0, <6>1 DEF Leaves
        <5>3. ~Deleting(t)
          <6>1. Deleting(t) => pc'[Net] \in PeerLabels /\ ~(Leaves(Net)')
            BY <3>3, OneMethodNext DEF Deleting, Deletes, PeerLabels, SendLabels
          <6>2. QED
            BY <2>0, <6>1, LabelSets
        <5>4. QED
          BY <5>1, <5>2, <5>3
      <4>2. mem' = mem
        BY <1>0, <2>5, <4>1, FreeIs
      <4>3. QED
        BY <3>1, <3>2, <3>3, <4>2
    <3>4. CASE t # Net
      <4>1. mem[cur[Net]] = "alive" /\ cur[Net] \in Peers /\ cur[Net] \in Listed /\ mxPeers = Net
        BY <1>b, <1>c, <2>0, <3>1, <3>4
      <4>2. cur[Net] # cur[t] \/ pc[t] # "free"
        BY <1>0, <2>5, <3>4, <4>1, FreeIs
      <4>3. QED
        BY <1>0, <2>5, <3>2, <4>1, <4>2, FreeIs
    <3>5. QED
      BY <3>3, <3>4
  <2>6. ASSUME Quiet PROVE mem'[cur'[Net]] = "alive"
    <3>1. UNCHANGED <<pc, stack, cur, mem>> /\ fault = "none"
      BY <2>0, <2>6 DEF Quiet
    <3>2. AtAlive
      BY <2>0, <3>1 DEF Leaves
    <3>3. QED
      BY <1>b, <3>1, <3>2
  <2>7. QED
    BY <2>1, <2>2, <2>3, <2>4, <2>5, <2>6, NextIs
\* The threads in subPeer().
<1>e. ASSUME NEW a \in AppThreads, Deletes(a, <<"idle">>)' PROVE cur'[a] \notin Listed'
  <2>0. <<"idle">> \in Rests(a) /\ pc'[a] \in PeerLabels
    BY <1>e DEF Rests, Deletes, PeerLabels, SendLabels
  <2>1. ASSUME pc'[a] = pc[a], stack'[a] = stack[a], cur'[a] = cur[a],
               Listed' \subseteq Listed \/ \E b \in AppThreads \ {a} : pc[b] = "insert" /\ Listed' = Listed \cup {cur[b]}
        PROVE  cur'[a] \notin Listed'
    <3>1. Deletes(a, <<"idle">>)
      BY <1>e, <2>1 DEF Deletes
    <3>2. cur[a] \notin Listed
      BY <1>0, <3>1 DEF Deaths
    <3>3. \A b \in AppThreads \ {a} : pc[b] = "insert" => cur[b] # cur[a]
      BY <1>0 DEF Births, Fresh
    <3>4. QED
      BY <2>1, <3>2, <3>3
  <2>2. ASSUME NEW b \in AppThreads, App(b) PROVE cur'[a] \notin Listed'
    <3>1. /\ Acts(b) /\ AppStep(b)
          /\ \/ Listed' = Listed \/ Listed' = {}
             \/ pc[b] = "insert" /\ Listed' = Listed \cup {cur[b]} /\ cur[b] \in Peers
             \/ /\ pc[b] = "remove" /\ AppInside(b, <<"idle">>) /\ cur'[b] = cur[b] /\ cur[b] \in Peers
                /\ Listed' = Listed \ {cur[b]}
      BY <1>0, <2>2, AppIs, AppKnown
    <3>2. CASE b # a
      BY <2>1, <3>1, <3>2 DEF Acts, Only
    <3>3. CASE b = a
      <4>1. ~(HoldsPeers(a)') /\ ~(Sends(a)')
        <5>1. ~(Sends(a)')
          BY <1>e, <2>0, OneMethodNext
        <5>2. \A q \in {<<"clear", "idle">>, <<"clear", "done">>} : q \in Rests(a) /\ q # <<"idle">>
          BY DEF Rests
        <5>3. ~(Clearing(a)')
          BY <2>0, LabelSets DEF Clearing
        <5>4. QED
          BY <1>e, <2>0, <5>1, <5>2, <5>3, OneMethodNext DEF HoldsPeers, InClear
      <4>2. pc'[a] \notin OwnLabels(a) /\ pc'[a] # "clear"
        BY <2>0, LabelSets
      <4>3. ~AppSends(a)
        BY <4>1 DEF AppSends, Sends, Home, SendLabels
      <4>4. pc[a] = "remove"
        BY <3>1, <3>3, <4>1, <4>2, <4>3, AppHere DEF AppStep, AppOutside, AppClears
      <4>5. Remove(a)
        BY <1>0, <2>2, <3>3, <4>4, RemoveIs
      <4>6. Listed' = Listed \ {cur'[a]}
        BY <1>0, <4>5, RemoveErases
      <4>7. QED
        BY <4>6
    <3>4. QED
      BY <3>2, <3>3
  <2>3. ASSUME NEW t \in Threads, t # a, Only(t), Listed' \subseteq Listed PROVE cur'[a] \notin Listed'
    BY <2>1, <2>3 DEF Only
  <2>4. CASE Broadcast \/ NextTarget
    BY <1>0, <2>3, <2>4, WorkerIs DEF Acts, netVars, Listed
  <2>5. CASE Outside
    <3>1. Only(Net)
      BY <1>0, <2>5, OutsideIs DEF Outside, Acts
    <3>2. list' = list
      BY <2>5 DEF Outside, Enter, While, Unlock, Select, UdpFind, UdpReceive, LockScan, netVars
    <3>3. QED
      BY <2>3, <3>1, <3>2 DEF Listed
  <2>6. CASE Within
    BY <1>0, <2>3, <2>6, InsideIs, WithinKnown DEF Inside, Acts
  <2>7. ASSUME NEW t \in Threads, PeerNext(t) PROVE cur'[a] \notin Listed'
    <3>1. Listed' = Listed /\ InMethodStep(t) /\ Only(t) /\ pc[t] \in PeerLabels
      BY <1>0, <2>7, MethodKnown, MethodIs DEF Acts
    <3>2. CASE t # a
      BY <2>3, <3>1, <3>2
    <3>3. CASE t = a
      <4>1. PICK r \in Rests(a) : Deletes(a, r) /\ Deletes(a, r)' /\ cur'[a] = cur[a]
        <5>1. ~Deleted(a)
          <6>1. Deleted(a) => pc'[a] \in {"idle", "clear"}
            BY RestHeads DEF Deleted, Rests
          <6>2. QED
            BY <2>0, <6>1, LabelSets DEF OwnLabels, PeerLabels, SendLabels
        <5>2. ~Sending(a) /\ ~Leaving(a)
          BY <1>e, <2>0, OneMethodNext DEF Sending, Leaving
        <5>3. ~Sent(a) /\ ~Left(a)
          BY <2>0, LabelSets DEF Sent, Left, Home, Leaves, PeerLabels, SendLabels
        <5>4. QED
          BY <3>1, <3>3, <5>1, <5>2, <5>3 DEF InMethodStep, Deleting, Keeps
      <4>2. r = <<"idle">>
        BY <1>e, <2>0, <4>1, OneMethodNext
      <4>3. QED
        BY <1>0, <3>1, <4>1, <4>2 DEF Deaths
    <3>4. QED
      BY <3>2, <3>3
  <2>8. CASE Quiet
    BY <2>1, <2>8 DEF Quiet, netVars, Listed
  <2>9. QED
    BY <2>2, <2>4, <2>5, <2>6, <2>7, <2>8, NextIs
<1>f. QED
  BY <1>d, <1>e DEF Deaths

LEMMA ExistInductive == Spec => []ExistInv
<1>1. Init => ExistInv
  <2>1. Init => Deaths /\ ListedExist
    <3>1. SUFFICES ASSUME Init PROVE Deaths /\ ListedExist
      OBVIOUS
    <3>a. list = << >> /\ pc = [t \in Threads |-> IF t = Net THEN "enter" ELSE "idle"]
      BY <3>1 DEF Init
    <3>2. list = << >> /\ \A t \in Threads : pc[t] \in {"enter", "idle"}
      BY <3>a
    <3>3. DOMAIN list = {} /\ Listed = {}
      BY <3>2 DEF Listed
    <3>4. QED
      BY <3>2, <3>3, ThreadNames DEF Deaths, ListedExist, Leaves, Deletes, NetLocked, SendLabels
  <2>2. QED
    BY <2>1, TypeInvInit DEF ExistInv
<1>2. ExistInv /\ [Next]_vars => ExistInv'
  BY TypeInvNext, ListedExistNext, DeathsNext DEF ExistInv
<1>3. QED
  BY <1>1, <1>2, PTL DEF Spec

\* The list holds a Peer once, and none that was deleted, outside of the
\* sections under m_mxPeers that delete and erase it (Peer2PeerNetwork.cpp:126-136,
\* 269-270, 356-358).
THEOREM ListHoldsPeers == Spec => []ListedExist
<1>1. ExistInv => ListedExist
  BY DEF ExistInv
<1>2. QED
  BY <1>1, ExistInductive, PTL

-----------------------------------------------------------------------------
(* Peers whose connection holds. *)

LEMMA OnlyDrops ==
    ASSUME TypeInv, [Next]_vars, NEW p \in Peers
    PROVE  /\ active'[p] = active[p] \/ active'[p] = FALSE
           /\ mem'[p] = mem[p] \/ mem[p] = "unborn" \/ mem'[p] = "freed"
           /\ mem'[p] # mem[p] /\ mem[p] = "unborn" => \E a \in AppThreads : AddPeer(a, p)
<1> USE ThreadNames
<1>0. active \in [Peers -> BOOLEAN] /\ mem \in [Peers -> {"unborn", "alive", "freed"}]
  BY DEF TypeInv, TypeOK
<1>1. ASSUME NEW a \in AppThreads, App(a)
      PROVE  active' = active /\ (mem' = mem \/ \E q \in Peers : AddPeer(a, q))
  BY <1>1 DEF App, AddPeer, SendMessage, SubPeer, EraseID, Remove, Insert, Disconnect, Clear, Destroy, Join, peerVars
<1>2. ASSUME NEW a \in AppThreads, NEW q \in Peers, AddPeer(a, q)
      PROVE  active' = active /\ mem[q] = "unborn" /\ mem' = [mem EXCEPT ![q] = "alive"]
  BY <1>2 DEF AddPeer
<1>3. CASE \E a \in AppThreads : App(a)
  BY <1>0, <1>1, <1>2, <1>3
<1>4. CASE Broadcast \/ NextTarget
  BY <1>4, WorkerIs DEF peerVars
<1>5. CASE Outside
  BY <1>5 DEF Outside, Enter, While, Unlock, Select, UdpFind, UdpReceive, LockScan, peerVars
<1>6. CASE Within
  BY <1>6, WithinKnown
<1>7. ASSUME NEW t \in Threads, PeerNext(t)
      PROVE  /\ mem' = mem \/ mem' = [mem EXCEPT ![cur[t]] = "freed"]
             /\ active' = active \/ active' = [active EXCEPT ![cur[t]] = FALSE]
             /\ mem[cur[t]] = "alive"
  <2>1. mem[cur[t]] = "alive"
    BY <1>7, MethodIs
  <2>2. QED
    BY <1>7, <2>1 DEF PeerNext, Send, Reconnect, Recheck, Write, Delete, Unregister, Drop, Free, peerVars
<1>8. CASE \E t \in Threads : PeerNext(t)
  BY <1>0, <1>7, <1>8
<1>9. CASE Quiet
  BY <1>9 DEF Quiet
<1>10. QED
  BY <1>3, <1>4, <1>5, <1>6, <1>8, <1>9, NextIs

\* A peer the network thread meets in its loops is active, if it is reliable.
LEMMA NetMeetsConnected ==
    ASSUME HoldInv, fault = "none", pc[Net] \in {"prune", "scan", "read", "handle"}, cur[Net] # NULL,
           cur[Net] \notin Unreliable
    PROVE  cur[Net] \in Peers /\ mem[cur[Net]] = "alive" /\ active[cur[Net]] = TRUE /\ Connected(cur[Net])
<1> USE ThreadNames
<1>1. pc[Net] \in NetLocked \ {"pruneErase", "scanErase"} /\ pc[Net] # "goodbye"
  BY NetLabels
<1>2. mxPeers = Net /\ cur[Net] \in Listed /\ cur[Net] \in Peers
  BY <1>1, CurListed DEF HoldInv, ExistInv
<1>3. active[cur[Net]] = TRUE /\ mem[cur[Net]] = "alive"
  BY <1>1, <1>2 DEF HoldInv, ListedHold, ExistInv, TypeInv, TypeOK
<1>4. QED
  BY <1>2, <1>3 DEF HoldInv, Holding

LEMMA ConnectedNext ==
    ASSUME HoldInv, [Next]_vars, NEW p \in Peers \ Unreliable, mem'[p] = "alive", active'[p] = TRUE
    PROVE  Connected(p)'
<1> USE ThreadNames
<1>0. TypeInv /\ PeersOK /\ (mem[p] = "alive" /\ active[p] = TRUE => Connected(p))
  BY TypeParts DEF HoldInv, ExistInv, TypeInv, Holding
<1>a. active[p] = TRUE
  BY <1>0, OnlyDrops DEF PeersOK
<1>1. ASSUME NEW a \in AppThreads, AddPeer(a, p) PROVE Connected(p)'
  <2>1. status' = [status EXCEPT ![p] = 2] /\ tcp' = [tcp EXCEPT ![p] = "up"] /\ udp' = [udp EXCEPT ![p] = "up"]
    BY <1>1 DEF AddPeer
  <2>2. QED
    BY <1>0, <2>1 DEF PeersOK, Connected
<1>2. CASE ~\E a \in AppThreads : AddPeer(a, p)
  <2>1. mem[p] = "alive" /\ Connected(p)
    BY <1>0, <1>2, <1>a, OnlyDrops DEF PeersOK
  <2>2. CASE status'[p] = status[p] /\ tcp'[p] = tcp[p] /\ udp'[p] = udp[p]
    BY <2>1, <2>2 DEF Connected
  <2>3. ASSUME NEW q \in Peers, IsConnected(q), UNCHANGED udp PROVE Connected(p)'
    BY <1>0, <2>1, <2>2, <2>3, IsConnectedOK
  <2>4. ASSUME NEW q \in Unreliable, q \in Peers, ConnectSockets(q) PROVE Connected(p)'
    BY <1>0, <2>2, <2>4, ConnectSocketsOK
  <2>5. ASSUME NEW a \in AppThreads, App(a) PROVE Connected(p)'
    <3>1. UNCHANGED peerVars \/ \E q \in Peers : AddPeer(a, q)
      BY <2>5 DEF App, SendMessage, SubPeer, EraseID, Remove, Insert, Disconnect, Clear, Destroy, Join
    <3>2. ASSUME NEW q \in Peers, AddPeer(a, q) PROVE Connected(p)'
      <4>1. q # p
        BY <1>2, <3>2
      <4>2. QED
        BY <1>0, <2>2, <3>2, <4>1 DEF AddPeer, PeersOK
    <3>3. QED
      BY <2>2, <3>1, <3>2 DEF peerVars
  <2>6. CASE Broadcast \/ NextTarget
    BY <1>0, <2>2, <2>6, WorkerIs DEF peerVars
  <2>7. CASE Outside
    <3>1. CASE UdpReceive
      <4>1. cur[Net] \in Peers
        BY <1>0, <3>1, NetLabels DEF UdpReceive, In, At, TypeInv, TypeOK, Control, Here
      <4>2. QED
        BY <2>3, <3>1, <4>1 DEF UdpReceive
    <3>2. CASE ~UdpReceive
      <4>1. UNCHANGED peerVars
        BY <2>7, <3>2 DEF Outside, Enter, While, Unlock, Select, UdpFind, LockScan
      <4>2. QED
        BY <2>2, <4>1 DEF peerVars
    <3>3. QED
      BY <3>1, <3>2
  <2>8. CASE Within
    <3>1. Inside /\ cur[Net] \in Peers
      BY <1>0, <2>8, InsideIs DEF Inside
    <3>2. CASE Prune \/ Scan
      BY <2>3, <3>1, <3>2 DEF Prune, Scan
    <3>3. CASE Read
      <4>1. CASE UNCHANGED <<status, tcp>>
        BY <2>2, <3>3, <4>1 DEF Read
      <4>2. CASE IsConnected(cur[Net])
        BY <2>3, <3>1, <3>3, <4>2 DEF Read
      <4>3. CASE tcp[cur[Net]] # "up" /\ tcp' = [tcp EXCEPT ![cur[Net]] = "closed"]
                 /\ status' = [status EXCEPT ![cur[Net]] = IF @ = 2 THEN 1 ELSE @]
        <5>1. cur[Net] # p
          BY <2>1, <4>3 DEF Connected
        <5>2. QED
          BY <1>0, <2>2, <3>3, <4>3, <5>1 DEF Read, PeersOK
      <4>4. QED
        BY <3>3, <4>1, <4>2, <4>3 DEF Read
    <3>4. CASE ReadFailed
      <4>1. cur[Net] \in Unreliable
        BY <3>4 DEF ReadFailed, At, HoldInv, Holding
      <4>2. QED
        BY <2>4, <3>1, <3>4, <4>1 DEF ReadFailed
    <3>5. CASE PruneErase \/ ScanErase \/ HandleData \/ HandleSubscribe \/ HandleGoodbye \/ Goodbye
      BY <2>2, <3>5 DEF PruneErase, ScanErase, HandleData, HandleSubscribe, HandleGoodbye, Goodbye, peerVars
    <3>6. QED
      BY <2>8, <3>2, <3>3, <3>4, <3>5 DEF Within
  <2>9. ASSUME NEW t \in Threads, PeerNext(t) PROVE Connected(p)'
    <3>1. cur[t] \in Peers
      BY <1>0, <2>9, MethodIs
    <3>2. CASE Send(t)
      <4>1. UNCHANGED udp /\ (UNCHANGED <<status, tcp>> \/ IsConnected(cur[t]))
        BY <3>2 DEF Send
      <4>2. QED
        BY <2>2, <2>3, <3>1, <4>1
    <3>3. CASE Recheck(t)
      BY <2>3, <3>1, <3>3 DEF Recheck
    <3>4. CASE Reconnect(t)
      <4>1. cur[t] \in Unreliable
        BY <3>4 DEF Reconnect, In, At, HoldInv, Holding
      <4>2. QED
        BY <2>4, <3>1, <3>4, <4>1 DEF Reconnect
    <3>5. CASE Write(t)
      <4>1. status' = status /\ (tcp' = tcp \/ tcp' = [tcp EXCEPT ![cur[t]] = IF @ = "up" THEN @ ELSE "closed"])
            /\ (udp' = udp \/ (cur[t] \in Unreliable /\ udp' = [udp EXCEPT ![cur[t]] = "closed"]))
        BY <3>5 DEF Write
      <4>2. tcp'[p] = tcp[p]
        BY <1>0, <2>1, <3>1, <4>1 DEF PeersOK, Connected
      <4>3. udp'[p] = udp[p]
        BY <1>0, <3>1, <4>1 DEF PeersOK
      <4>4. QED
        BY <2>2, <4>1, <4>2, <4>3
    <3>6. CASE Delete(t) \/ Unregister(t)
      BY <2>2, <3>6 DEF Delete, Unregister, peerVars
    <3>7. CASE Drop(t) \/ Free(t)
      <4>1. CloseSockets(cur[t]) /\ status' = [status EXCEPT ![cur[t]] = 0]
            /\ active' = [active EXCEPT ![cur[t]] = FALSE]
        BY <3>7 DEF Drop, Free
      <4>2. cur[t] # p
        BY <1>0, <4>1 DEF PeersOK
      <4>3. QED
        BY <1>0, <2>2, <3>1, <4>1, <4>2, CloseSocketsOK DEF PeersOK
    <3>8. QED
      BY <2>9, <3>2, <3>3, <3>4, <3>5, <3>6, <3>7 DEF PeerNext
  <2>10. CASE Quiet
    <3>1. UNCHANGED <<status, udp>>
      BY <2>10 DEF Quiet
    <3>2. tcp'[p] = tcp[p]
      <4>1. UNCHANGED tcp \/ \E q \in Unreliable : tcp' = [tcp EXCEPT ![q] = "error"]
        BY <2>10 DEF Quiet, Remote, Say, CloseSilently, Break, peerVars
      <4>2. QED
        BY <1>0, <4>1 DEF PeersOK
    <3>3. QED
      BY <2>2, <3>1, <3>2
  <2>11. QED
    BY <2>5, <2>6, <2>7, <2>8, <2>9, <2>10, NextIs
<1>3. QED
  BY <1>1, <1>2

\* Where a method returns to.
LEMMA MethodHeads ==
    ASSUME TypeInv, NEW t \in Threads, pc[t] \in PeerLabels
    PROVE  Head(stack[t]) \in {"unregister", "free", "pruneErase", "scanErase", "idle", "clear",
                               "next", "goodbye"}
<1>1. CASE Sends(t) \/ Leaves(t)
  BY <1>1, RestHeads DEF Sends, Leaves, Home
<1>2. ASSUME NEW r \in Rests(t), Deletes(t, r)
      PROVE  Head(stack[t]) \in {"unregister", "free", "pruneErase", "scanErase", "idle", "clear"}
  <2>1. r \in AllRests
    BY RestsIs
  <2>2. Head(<<"free">> \o r) = "free" /\ Head(<<"unregister", "free">> \o r) = "unregister"
    BY <2>1, Back
  <2>3. stack[t] \in {r, <<"free">> \o r, <<"unregister", "free">> \o r}
    BY <1>2 DEF Deletes
  <2>4. Head(r) \in {"pruneErase", "scanErase", "idle", "clear"}
    BY RestHeads DEF Rests
  <2>5. QED
    BY <2>2, <2>3, <2>4
<1>3. QED
  BY <1>1, <1>2, MethodCalls

\* A thread other than the one that takes the step stays where it is.
LEMMA OthersStay ==
    ASSUME TypeInv, [Next]_vars, NEW t \in Threads
    PROVE  \/ pc'[t] = pc[t] /\ stack'[t] = stack[t] /\ cur'[t] = cur[t]
           \/ t \in AppThreads /\ App(t)
           \/ t = Worker /\ (Broadcast \/ NextTarget)
           \/ t = Net /\ (Outside \/ Within)
           \/ PeerNext(t)
<1> USE ThreadNames
<1>1. ASSUME NEW u \in Threads, Acts(u), u # t
      PROVE  pc'[t] = pc[t] /\ stack'[t] = stack[t] /\ cur'[t] = cur[t]
  BY <1>1 DEF Acts, Only
<1>2. CASE \E a \in AppThreads : App(a)
  BY <1>1, <1>2, AppIs
<1>3. CASE Broadcast \/ NextTarget
  BY <1>1, <1>3, WorkerIs
<1>4. CASE Outside
  BY <1>1, <1>4, OutsideIs DEF Outside
<1>5. CASE Within
  BY <1>1, <1>5, InsideIs DEF Inside
<1>6. CASE \E u \in Threads : PeerNext(u)
  BY <1>1, <1>6, MethodIs
<1>7. CASE Quiet
  BY <1>7 DEF Quiet
<1>8. QED
  BY <1>2, <1>3, <1>4, <1>5, <1>6, <1>7, NextIs

LEMMA RetriesNext ==
    ASSUME HoldInv, [Next]_vars, NEW t \in Threads, pc'[t] \in {"reconnect", "readFailed"}
    PROVE  cur'[t] \in Unreliable
<1> USE ThreadNames
<1>0. TypeInv /\ Holding
  BY DEF HoldInv, ExistInv
<1>1. CASE pc'[t] = pc[t] /\ stack'[t] = stack[t] /\ cur'[t] = cur[t]
  BY <1>0, <1>1 DEF Holding
<1>2. ASSUME t \in AppThreads, App(t) PROVE FALSE
  <2>1. AppStep(t)
    BY <1>0, <1>2, AppIs
  <2>2. pc'[t] \in OwnLabels(t) \cup {"send", "delete", "clear"}
    BY <2>1 DEF AppStep, AppOutside, AppInside, AppSends, AppClears
  <2>3. QED
    BY <1>2, <2>2, AppLabels
<1>3. ASSUME t = Worker, Broadcast \/ NextTarget PROVE FALSE
  BY <1>0, <1>3, WorkerIs DEF WorkerStep
<1>4. ASSUME t = Net, Outside PROVE FALSE
  BY <1>0, <1>4, OutsideIs DEF Outside
<1>5. CASE t = Net /\ Within
  <2>1. Inside
    BY <1>0, <1>5, InsideIs
  <2>2. pc[Net] = "read" /\ cur'[Net] = cur[Net] /\ fault = "none" /\ pc'[Net] = "readFailed"
    BY <1>5, <2>1 DEF Inside, LoopStep, EraseStep, Keeps
  <2>3. Read
    BY <1>5, <2>2 DEF Within, Prune, PruneErase, Scan, ReadFailed, ScanErase, HandleData,
          HandleSubscribe, HandleGoodbye, Goodbye, At
  <2>4. cur[Net] # NULL
    BY <1>0, <2>2, BusyCur
  <2>5. ASSUME cur[Net] \notin Unreliable PROVE FALSE
    <3>1. Connected(cur[Net])
      BY <2>2, <2>4, <2>5, NetMeetsConnected
    <3>2. Goto(Net, "handle") \/ Move(Net, "scan", After(list, cur[Net]))
      BY <2>3, <3>1 DEF Read, Connected
    <3>3. After(list, cur[Net]) \in Peers \cup {NULL} /\ cur[Net] \in Peers
      BY <1>0, <2>2, <2>4, InsideAt, NetLabels
    <3>4. pc'[Net] \in {"handle", "scan"}
      BY <1>0, <3>2, <3>3, MoveTo DEF Goto, Labels
    <3>5. QED
      BY <2>2, <3>4
  <2>6. QED
    BY <1>5, <2>2, <2>5
<1>6. CASE PeerNext(t)
  <2>1. cur[t] \in Peers /\ mem[cur[t]] = "alive" /\ pc[t] \in PeerLabels /\ TypeOK
    BY <1>0, <1>6, MethodIs DEF TypeInv
  <2>2. ASSUME NEW label \in Labels \ {"reconnect", "readFailed"}, Move(t, label, cur[t]) PROVE FALSE
    BY <2>1, <2>2, MoveIs
  <2>3. ASSUME Return(t) PROVE FALSE
    <3>1. pc'[t] = Head(stack[t])
      BY <1>0, <2>1, <2>3, MethodCalls, ReturnIs DEF TypeInv
    <3>2. QED
      BY <1>0, <2>1, <3>1, MethodHeads
  <2>4. ASSUME Call(t, "send", cur[t], <<"unregister", "free">>) PROVE FALSE
    BY <2>1, <2>4 DEF Call, TypeOK
  <2>5. {"recheck", "write", "drop", "free"} \subseteq Labels \ {"reconnect", "readFailed"}
    BY DEF Labels, PeerLabels, SendLabels
  <2>6. Send(t) /\ active[cur[t]] /\ ~Connected(cur[t]) /\ Goto(t, "reconnect")
    BY <1>6, <2>2, <2>3, <2>4, <2>5 DEF PeerNext, Send, Reconnect, Recheck, Write, Delete,
          Unregister, Drop, Free, Goto
  <2>7. cur'[t] = cur[t]
    BY <2>1, <2>6 DEF Goto, Move, TypeOK
  <2>8. QED
    BY <1>0, <2>1, <2>6, <2>7 DEF Holding
<1>7. QED
  BY <1>0, <1>1, <1>2, <1>3, <1>4, <1>5, <1>6, OthersStay

LEMMA NetDeletesNext ==
    ASSUME HoldInv, [Next]_vars,
           pc'[Net] \in {"pruneErase", "scanErase"} \/ \E r \in Rests(Net) : Deletes(Net, r)'
    PROVE  cur'[Net] \in Unreliable
<1> USE ThreadNames
<1>0. TypeInv /\ Holding
  BY DEF HoldInv, ExistInv
<1>a. pc'[Net] \in {"pruneErase", "scanErase"} \cup PeerLabels
  BY DEF Deletes, PeerLabels, SendLabels
<1>b. pc'[Net] = "unregister" => stack'[Net] # <<"goodbye">>
  BY OneMethodNext DEF Leaves
<1>1. CASE pc'[Net] = pc[Net] /\ stack'[Net] = stack[Net] /\ cur'[Net] = cur[Net]
  BY <1>0, <1>1 DEF Holding, NetDeletes, Deletes
<1>2. ASSUME Outside PROVE FALSE
  BY <1>0, <1>2, <1>a, OutsideIs DEF Outside, PeerLabels, SendLabels
<1>3. CASE Within
  <2>1. Inside
    BY <1>0, <1>3, InsideIs
  <2>2. /\ pc'[Net] = "delete" /\ cur'[Net] = cur[Net] /\ pc[Net] \in {"prune", "readFailed"}
        /\ fault = "none" /\ cur[Net] \in Peers
    BY <1>3, <1>a, <1>b, <2>1 DEF Inside, LoopStep, EraseStep, Keeps, PeerLabels, SendLabels
  <2>3. CASE pc[Net] = "readFailed"
    BY <1>0, <2>2, <2>3 DEF Holding
  <2>4. CASE pc[Net] = "prune"
    <3>1. Prune
      BY <1>3, <2>4 DEF Within, Read, PruneErase, Scan, ReadFailed, ScanErase, HandleData,
            HandleSubscribe, HandleGoodbye, Goodbye, At
    <3>2. ~Connected(cur[Net])
      <4>1. SUFFICES ASSUME Connected(cur[Net]) PROVE FALSE
        OBVIOUS
      <4>2. Move(Net, "prune", After(list, cur[Net]))
        BY <3>1, <4>1 DEF Prune
      <4>3. After(list, cur[Net]) \in Peers \cup {NULL} /\ "prune" \in Labels
        BY <1>0, <2>2, <2>4, InsideAt, NetLabels DEF Labels
      <4>4. QED
        BY <1>0, <2>2, <4>2, <4>3, MoveTo
    <3>3. QED
      BY <2>2, <2>4, <3>2, NetMeetsConnected
  <2>5. QED
    BY <2>2, <2>3, <2>4
<1>4. CASE PeerNext(Net)
  <2>1. InMethodStep(Net)
    BY <1>0, <1>4, MethodIs
  <2>2. ~Sending(Net) /\ ~Sent(Net)
    BY DEF Sending, Sent, Sends
  <2>3. ~Left(Net)
    BY <1>a DEF Left, PeerLabels, SendLabels
  <2>4. ~Leaving(Net)
    <3>1. SUFFICES ASSUME Leaves(Net)' PROVE FALSE
      BY DEF Leaving
    <3>2. pc'[Net] \in {"unregister", "drop"}
      BY <3>1 DEF Leaves
    <3>3. QED
      BY <3>1, <3>2, OneMethodNext
  <2>5. (Deleting(Net) \/ Deleted(Net)) /\ cur'[Net] = cur[Net]
    BY <2>1, <2>2, <2>3, <2>4 DEF InMethodStep, Deleting, Deleted, Keeps
  <2>6. QED
    BY <1>0, <2>5 DEF Deleting, Deleted, Holding, NetDeletes
<1>5. QED
  BY <1>0, <1>1, <1>2, <1>3, <1>4, OthersStay

LEMMA HoldingNext ==
    ASSUME HoldInv, [Next]_vars
    PROVE  Holding'
<1>1. \A p \in Peers \ Unreliable : mem'[p] = "alive" /\ active'[p] = TRUE => Connected(p)'
  BY ConnectedNext
<1>2. active' \in [Peers -> BOOLEAN]
  BY PeersNext DEF HoldInv, ExistInv, PeersOK
<1>3. \A t \in Threads : pc'[t] \in {"reconnect", "readFailed"} => cur'[t] \in Unreliable
  BY RetriesNext
<1>4. NetDeletes' => cur'[Net] \in Unreliable
  BY NetDeletesNext DEF NetDeletes
<1>5. QED
  BY <1>1, <1>2, <1>3, <1>4 DEF Holding

\* What a step does to the list and the map.
MapsStep ==
    \/ Listed' = Listed /\ byID' = byID /\ (mxPeers' = mxPeers \/ mxPeers \notin AppThreads)
    \/ \E a \in AppThreads :
          /\ pc[a] = "insert" /\ Listed' = Listed \cup {cur[a]} /\ mxPeers' = mxPeers
          /\ byID' = [byID EXCEPT ![IDOf[cur[a]]] = IF @ = NULL THEN cur[a] ELSE @]
          /\ UNCHANGED <<mem, active>>
    \/ \E a \in AppThreads :
          /\ pc'[a] = "remove" /\ cur'[a] = cur[a] /\ cur[a] \in Peers
          /\ Listed' = Listed /\ mxPeers' = mxPeers
          /\ byID' = [byID EXCEPT ![IDOf[cur[a]]] = NULL]
    \/ \E a \in AppThreads :
          /\ pc[a] = "remove" /\ Listed' = Listed \ {cur[a]}
          /\ byID' = byID /\ mxPeers' = mxPeers
    \/ Listed' = {} /\ \A i \in IDs : byID'[i] = NULL
    \/ /\ pc[Net] \in {"pruneErase", "scanErase"}
       /\ Listed' = Listed \ {cur[Net]} /\ byID' = byID /\ mxPeers' = mxPeers
    \/ /\ pc[Net] = "goodbye" /\ cur[Net] \in Peers
       /\ Listed' = Listed \ {cur[Net]} /\ mxPeers' = mxPeers
       /\ byID' = [byID EXCEPT ![IDOf[cur[Net]]] = NULL]

LEMMA MapsNext ==
    ASSUME TypeInv, Births, [Next]_vars
    PROVE  MapsStep
<1> USE ThreadNames
<1>1. ASSUME NEW a \in AppThreads, App(a) PROVE MapsStep
  <2>1. CASE EraseID(a)
    <3>1. pc'[a] = "remove" /\ cur'[a] = cur[a] /\ cur[a] \in Peers
      BY <2>1 DEF EraseID, Goto, Move, At, TypeInv, TypeOK, Control, Here, Busy
    <3>2. QED
      BY <2>1, <3>1 DEF EraseID, MapsStep, Listed
  <2>2. CASE Insert(a)
    <3>1. pc[a] = "insert" /\ list' = Append(list, cur[a])
      BY <2>2 DEF Insert, At
    <3>2. cur[a] \in Peers \ Listed
      BY <3>1 DEF Births, Fresh, Known, TypeInv, TypeOK, Control, Here, Busy
    <3>3. Listed' = Listed \cup {cur[a]}
      BY <3>1, <3>2, ListAppend
    <3>4. QED
      BY <2>2, <3>1, <3>3 DEF Insert, MapsStep, peerVars
  <2>3. CASE Clear(a)
    <3>1. UNCHANGED netVars \/ (list' = << >> /\ byID' = [i \in IDs |-> NULL])
      BY <2>3 DEF Clear
    <3>2. list' = << >> => Listed' = {}
      BY ListEmpty
    <3>3. QED
      BY <3>1, <3>2 DEF MapsStep, netVars, Listed
  <2>4. CASE Disconnect(a) \/ Join(a)
    BY <2>4 DEF Disconnect, Join, MapsStep, Listed
  <2>5. CASE \/ Destroy(a) \/ \E p \in Peers : AddPeer(a, p) \/ SendMessage(a, p)
             \/ \E i \in IDs : SubPeer(a, i)
    BY <2>5 DEF AddPeer, SendMessage, SubPeer, Destroy, MapsStep, netVars, Listed
  <2>6. CASE Remove(a)
    <3>1. pc[a] = "remove" /\ Listed' = Listed \ {cur[a]}
      BY <2>6, ListWithout DEF Remove, At
    <3>2. QED
      BY <2>6, <3>1 DEF Remove, MapsStep
  <2>7. QED
    BY <1>1, <2>1, <2>2, <2>3, <2>4, <2>5, <2>6 DEF App
<1>2. CASE Broadcast \/ NextTarget
  BY <1>2, WorkerIs DEF MapsStep, netVars, Listed
<1>3. CASE Outside
  <2>1. mxPeers' = mxPeers \/ mxPeers \notin AppThreads
    BY <1>3, OutsideIs DEF Outside, Acts, LockStep
  <2>2. UNCHANGED <<list, byID>>
    BY <1>3 DEF Outside, Enter, While, Unlock, Select, UdpFind, UdpReceive, LockScan, netVars
  <2>3. QED
    BY <2>1, <2>2 DEF MapsStep, Listed
<1>4. CASE Within
  <2>1. Inside
    BY <1>4, InsideIs
  <2>2. cur[Net] \in Peers /\ mxPeers' = mxPeers /\ mxPeers \notin AppThreads
    BY <2>1 DEF Inside
  <2>3. CASE Goodbye
    <3>1. Listed' = Listed \ {cur[Net]}
      BY <2>3, ListWithout DEF Goodbye
    <3>2. QED
      BY <2>2, <2>3, <3>1 DEF Goodbye, At, MapsStep
  <2>4. CASE PruneErase \/ ScanErase
    <3>1. Listed' = Listed \ {cur[Net]}
      BY <2>4, ListWithout DEF PruneErase, ScanErase
    <3>2. QED
      BY <2>2, <2>4, <3>1 DEF PruneErase, ScanErase, At, MapsStep
  <2>5. CASE ~(Goodbye \/ PruneErase \/ ScanErase)
    <3>1. UNCHANGED <<list, byID>>
      BY <1>4, <2>5 DEF Within, Prune, Scan, Read, ReadFailed, HandleData, HandleSubscribe,
            HandleGoodbye, netVars
    <3>2. QED
      BY <2>2, <3>1 DEF MapsStep, Listed
  <2>6. QED
    BY <2>3, <2>4, <2>5
<1>5. CASE \E t \in Threads : PeerNext(t)
  BY <1>5, MethodIs DEF MapsStep, netVars, Listed
<1>6. CASE Quiet
  BY <1>6 DEF Quiet, MapsStep, netVars, Listed
<1>7. QED
  BY <1>1, <1>2, <1>3, <1>4, <1>5, <1>6, NextIs

LEMMA ByKeyNext ==
    ASSUME TypeInv, Births, ByKey, [Next]_vars
    PROVE  ByKey'
<1>0. byID \in [IDs -> Peers \cup {NULL}] /\ MapsStep
  BY MapsNext DEF TypeInv, TypeOK
<1>1. ASSUME NEW i \in IDs, byID'[i] # NULL PROVE IDOf[byID'[i]] = i
  <2>1. CASE byID'[i] = byID[i]
    BY <1>1, <2>1 DEF ByKey
  <2>2. CASE byID'[i] # byID[i]
    <3>1. PICK a \in AppThreads : byID' = [byID EXCEPT ![IDOf[cur[a]]] = IF @ = NULL THEN cur[a] ELSE @]
      BY <1>0, <1>1, <2>2 DEF MapsStep
    <3>2. QED
      BY <1>0, <1>1, <2>2, <3>1
  <2>3. QED
    BY <2>1, <2>2
<1>2. QED
  BY <1>1 DEF ByKey

\* The two lines of subPeer() that remove a Peer.
LEMMA RemoveNext ==
    ASSUME TypeInv, [Next]_vars, NEW a \in AppThreads
    PROVE  /\ pc'[a] = "remove" => cur'[a] = cur[a] /\ (pc[a] = "remove" \/ EraseID(a))
           /\ pc[a] = "remove" => (pc'[a] = "remove" /\ cur'[a] = cur[a]) \/ Remove(a)
<1> USE ThreadNames
<1>1. CASE pc'[a] = pc[a] /\ cur'[a] = cur[a]
  BY <1>1
<1>2. CASE App(a)
  <2>1. pc'[a] = "remove" => pc[a] = "eraseID" /\ cur'[a] = cur[a]
    BY <1>2, AppIs DEF AppStep, AppInside, AppSends, AppClears
  <2>2. QED
    BY <1>2, <2>1, RemoveIs
<1>3. CASE PeerNext(a)
  <2>1. pc[a] \in PeerLabels /\ InMethodStep(a)
    BY <1>3, MethodIs
  <2>2. pc[a] # "remove"
    BY <2>1 DEF PeerLabels, SendLabels
  <2>3. pc'[a] # "remove"
    <3>1. Deleted(a) => pc'[a] \in {"idle", "clear"}
      BY RestHeads DEF Deleted, Rests
    <3>2. QED
      BY <2>1, <3>1 DEF InMethodStep, Deleting, Deletes, Sending, Sent, Sends, Home, Leaving, Left,
            Leaves, SendLabels
  <2>4. QED
    BY <2>2, <2>3
<1>4. QED
  BY <1>1, <1>2, <1>3, OthersStay

LEMMA ErasedNext ==
    ASSUME HoldInv, [Next]_vars
    PROVE  Erased'
<1> USE ThreadNames
<1>0. /\ TypeInv /\ Births /\ ByKey /\ Erased /\ MapsStep
      /\ byID \in [IDs -> Peers \cup {NULL}] /\ IDOf \in [Peers -> IDs]
  BY MapsNext, IDOfAssumption DEF HoldInv, ExistInv, TypeInv, TypeOK
<1>1. SUFFICES ASSUME NEW a \in AppThreads, pc'[a] = "remove", NEW i \in IDs
               PROVE  byID'[i] # cur'[a]
  BY DEF Erased
<1>2. cur'[a] = cur[a] /\ (pc[a] = "remove" \/ EraseID(a))
  BY <1>0, <1>1, RemoveNext
<1>3. cur[a] \in Peers
  BY <1>0, <1>2 DEF EraseID, At, TypeInv, TypeOK, Control, Here, Busy
<1>4. CASE EraseID(a)
  BY <1>0, <1>2, <1>3, <1>4, NullIsNothing DEF EraseID, ByKey
<1>5. CASE pc[a] = "remove"
  <2>1. \A b \in AppThreads : pc[b] = "insert" => cur[b] # cur[a]
    BY <1>0, <1>5 DEF Births, Fresh
  <2>2. byID[i] # cur[a]
    BY <1>0, <1>5 DEF Erased
  <2>3. QED
    BY <1>0, <1>2, <1>3, <2>1, <2>2, NullIsNothing DEF MapsStep
<1>6. QED
  BY <1>2, <1>4, <1>5

\* The only threads that end a reliable peer which is on the list are those that
\* keep m_mxPeers to clear it, and the network thread for its goodbye.
LEMMA OnlyLeaves ==
    ASSUME HoldInv, NEW t \in Threads, PeerNext(t), mxPeers \notin AppThreads,
           cur[t] \in Listed \ Unreliable
    PROVE  ~Deleting(t) /\ ~Deleted(t)
<1> USE ThreadNames
<1>1. SUFFICES ASSUME NEW r \in Rests(t), Deletes(t, r) PROVE FALSE
  BY DEF Deleting, Deleted
<1>2. TypeInv /\ Deaths /\ Holding
  BY DEF HoldInv, ExistInv
<1>3. CASE t = Net
  BY <1>1, <1>2, <1>3 DEF Holding, NetDeletes
<1>4. CASE t # Net
  <2>1. t \in AppThreads /\ r = <<"idle">>
    BY <1>1, <1>2, <1>4, DeleterIs DEF Rests
  <2>2. QED
    BY <1>1, <1>2, <2>1 DEF Deaths
<1>5. QED
  BY <1>3, <1>4

LEMMA StaysListed ==
    ASSUME HoldInv, [Next]_vars, mxPeers \notin AppThreads,
           NEW p \in Peers \ Unreliable, p \in Listed, p \in Listed'
    PROVE  mem'[p] = "alive" /\ (active'[p] = TRUE \/ (pc'[Net] = "goodbye" /\ cur'[Net] = p))
<1> USE ThreadNames
<1>0. TypeInv /\ Births /\ Deaths /\ PeersOK
      /\ mem[p] = "alive" /\ (active[p] = TRUE \/ (pc[Net] = "goodbye" /\ cur[Net] = p))
  BY TypeParts DEF HoldInv, ExistInv, ListedHold, TypeInv, PeersOK
<1>1. CASE \E t \in Threads : PeerNext(t) /\ cur[t] = p
  <2>1. PICK t \in Threads : PeerNext(t) /\ cur[t] = p
    BY <1>1
  <2>2. InMethodStep(t) /\ ~Deleting(t) /\ ~Deleted(t)
    BY <1>0, <2>1, OnlyLeaves, MethodIs
  <2>3. mem' = mem
    <3>1. pc[t] # "free"
      BY <2>2 DEF InMethodStep, Sending, Sent, Leaving, Left, Sends, Leaves, SendLabels
    <3>2. QED
      BY <1>0, <2>1, <3>1, FreeIs
  <2>4. CASE active' = active
    <3>1. pc[Net] = "goodbye" /\ cur[Net] = p => pc'[Net] = "goodbye" /\ cur'[Net] = p
      <4>1. SUFFICES ASSUME pc[Net] = "goodbye" PROVE t # Net
        BY <1>0, <2>1, MethodIs DEF Acts, Only
      <4>2. QED
        BY <1>0, <2>1, <4>1, MethodIs DEF PeerLabels, SendLabels
    <3>2. QED
      BY <1>0, <2>3, <2>4, <3>1
  <2>5. CASE active' # active
    <3>1. Drop(t)
      BY <2>1, <2>2, <2>5 DEF PeerNext, Send, Reconnect, Recheck, Write, Delete, Unregister, Free, peerVars,
            In, At, InMethodStep, Sending, Sent, Leaving, Left, Sends, Leaves, SendLabels
    <3>2. Leaving(t) \/ Left(t)
      BY <2>2, <3>1 DEF Drop, In, At, InMethodStep, Sending, Sent, Sends, SendLabels
    <3>3. t = Net /\ stack[Net] = <<"goodbye">> /\ pc[Net] = "drop"
      BY <3>1, <3>2 DEF Drop, In, At, Leaving, Left, Leaves
    <3>4. pc'[Net] = "goodbye" /\ cur'[Net] = cur[Net]
      <4>1. Return(Net)
        BY <3>1, <3>3 DEF Drop
      <4>2. Head(stack[Net]) = "goodbye" /\ stack[Net] # << >>
        BY <3>3, RestHeads
      <4>3. QED
        BY <1>0, <4>1, <4>2, ReturnIs DEF TypeInv
    <3>5. QED
      BY <1>0, <2>1, <2>3, <3>3, <3>4
  <2>6. QED
    BY <2>4, <2>5
<1>2. CASE ~\E t \in Threads : PeerNext(t) /\ cur[t] = p
  <2>1. mem'[p] = mem[p] /\ active'[p] = active[p]
    <3>1. ASSUME NEW a \in AppThreads, App(a) PROVE mem'[p] = mem[p] /\ active'[p] = active[p]
      <4>1. UNCHANGED active /\ (pc'[a] # "insert" => UNCHANGED mem)
        BY <1>0, <3>1, AppLists DEF peerVars
      <4>2. \A q \in Peers : AddPeer(a, q) => mem'[p] = mem[p]
        BY <1>0 DEF AddPeer, PeersOK
      <4>3. mem' = mem \/ \E q \in Peers : AddPeer(a, q)
        BY <3>1 DEF App, AddPeer, SendMessage, SubPeer, EraseID, Remove, Insert, Disconnect, Clear, Destroy, Join, peerVars
      <4>4. QED
        BY <4>1, <4>2, <4>3
    <3>2. CASE Broadcast \/ NextTarget
      BY <1>0, <3>2, WorkerIs DEF peerVars
    <3>3. CASE Outside
      BY <3>3 DEF Outside, Enter, While, Unlock, Select, UdpFind, UdpReceive, LockScan, peerVars
    <3>4. CASE Within
      BY <1>0, <3>4, WithinKnown
    <3>5. ASSUME NEW t \in Threads, PeerNext(t) PROVE mem'[p] = mem[p] /\ active'[p] = active[p]
      BY <1>0, <1>2, <3>5, FreeIs
    <3>6. CASE Quiet
      BY <3>6 DEF Quiet
    <3>7. QED
      BY <3>1, <3>2, <3>3, <3>4, <3>5, <3>6, NextIs
  <2>2. pc[Net] = "goodbye" /\ cur[Net] = p => pc'[Net] = "goodbye" /\ cur'[Net] = p
    <3>1. SUFFICES ASSUME pc[Net] = "goodbye", cur[Net] = p PROVE pc'[Net] = "goodbye" /\ cur'[Net] = p
      OBVIOUS
    <3>2. ~Outside
      BY <1>0, <3>1, OutsideIs DEF Outside
    <3>3. ~Within
      <4>1. SUFFICES ASSUME Within PROVE FALSE
        OBVIOUS
      <4>2. list' = Without(list, p)
        BY <1>0, <3>1, <4>1, InsideIs DEF Inside, LoopStep
      <4>3. QED
        BY <1>0, <4>2, ListWithout
    <3>4. ~PeerNext(Net)
      BY <1>0, <3>1, MethodIs DEF PeerLabels, SendLabels
    <3>5. QED
      BY <1>0, <3>1, <3>2, <3>3, <3>4, OthersStay
  <2>3. QED
    BY <1>0, <2>1, <2>2
<1>3. QED
  BY <1>1, <1>2

LEMMA ListedHoldNext ==
    ASSUME HoldInv, [Next]_vars
    PROVE  ListedHold'
<1> USE ThreadNames
<1>0. /\ TypeInv /\ Births /\ ByKey /\ Erased /\ Holding /\ PeersOK /\ MapsStep
      /\ byID \in [IDs -> Peers \cup {NULL}]
  BY MapsNext, TypeParts DEF HoldInv, ExistInv, TypeInv, NetOK
<1>1. SUFFICES ASSUME mxPeers' \notin AppThreads, NEW p \in Peers \ Unreliable
               PROVE  /\ p \in Listed' => /\ mem'[p] = "alive"
                                          /\ active'[p] = TRUE \/ (pc'[Net] = "goodbye" /\ cur'[Net] = p)
                      /\ \A i \in IDs : byID'[i] = p => p \in Listed'
  BY DEF ListedHold
<1>2. CASE mxPeers \in AppThreads
  <2>1. Listed' = {} /\ \A i \in IDs : byID'[i] = NULL
    <3>1. mxPeers # Net
      BY <1>2
    <3>2. pc[Net] \notin NetLocked
      BY <1>0, <3>1, NetLockIs
    <3>3. \A a \in AppThreads : pc[a] = "insert" => mxPeers' # mxPeers
      BY <1>1, <1>2
    <3>4. QED
      BY <1>0, <1>1, <1>2, <3>2, <3>3, NetLabels DEF MapsStep
  <2>2. QED
    BY <2>1
<1>3. CASE mxPeers \notin AppThreads
  <2>1. ASSUME p \in Listed', p \notin Listed
        PROVE  mem'[p] = "alive" /\ active'[p] = TRUE
    <3>1. PICK a \in AppThreads : pc[a] = "insert" /\ cur[a] = p /\ UNCHANGED <<mem, active>>
      BY <1>0, <2>1 DEF MapsStep
    <3>2. QED
      BY <1>0, <3>1 DEF Births, Fresh
  <2>2. p \in Listed' => /\ mem'[p] = "alive"
                         /\ active'[p] = TRUE \/ (pc'[Net] = "goodbye" /\ cur'[Net] = p)
    BY <1>3, <2>1, StaysListed
  <2>3. ASSUME NEW i \in IDs, byID'[i] = p PROVE p \in Listed'
    <3>1. CASE byID[i] = p
      <4>1. p \in Listed /\ i = IDOf[p]
        BY <1>0, <1>3, <3>1 DEF HoldInv, ListedHold, ByKey
      <4>2. \A j \in IDs : byID[j] = p => j = i
        BY <1>0, <4>1 DEF ByKey
      <4>3. pc[Net] \in {"pruneErase", "scanErase"} => cur[Net] # p
        BY <1>0 DEF Holding, NetDeletes
      <4>4. \A a \in AppThreads : pc[a] = "remove" => cur[a] # p
        BY <1>0, <3>1 DEF Erased
      <4>5. QED
        BY <1>0, <2>3, <4>1, <4>2, <4>3, <4>4 DEF MapsStep
    <3>2. CASE byID[i] # p
      BY <1>0, <2>3, <3>2 DEF MapsStep
    <3>3. QED
      BY <3>1, <3>2
  <2>4. QED
    BY <2>2, <2>3
<1>4. QED
  BY <1>2, <1>3

-----------------------------------------------------------------------------
(* The brokers and the peers they know. *)

\* What a step does to the list of listeners.
LEMMA ListeningNext ==
    ASSUME TypeInv, [Next]_vars
    PROVE  \/ listening' = listening
           \/ \E t \in Threads : Unregister(t) /\ listening' = listening \ {cur[t]}
           \/ /\ HandleSubscribe /\ active[cur[Net]] /\ listening' = listening \cup {cur[Net]}
              /\ UNCHANGED <<mem, active>>
<1>1. CASE \E a \in AppThreads : App(a)
  BY <1>1, AppIs
<1>2. CASE Broadcast \/ NextTarget
  BY <1>2, WorkerIs
<1>3. CASE Outside
  BY <1>3 DEF Outside, Enter, While, Unlock, Select, UdpFind, UdpReceive, LockScan, brokerVars
<1>4. CASE Within
  BY <1>4 DEF Within, Prune, PruneErase, Scan, Read, ReadFailed, ScanErase, HandleData,
        HandleSubscribe, HandleGoodbye, Goodbye, brokerVars, peerVars
<1>5. CASE \E t \in Threads : PeerNext(t)
  BY <1>5 DEF PeerNext, Send, Reconnect, Recheck, Write, Delete, Unregister, Drop, Free, brokerVars
<1>6. CASE Quiet
  BY <1>6 DEF Quiet, brokerVars
<1>7. QED
  BY <1>1, <1>2, <1>3, <1>4, <1>5, <1>6, NextIs

\* A peer leaves the list of listeners while no broadcast goes on.
LEMMA OnlyIdle ==
    ASSUME TypeInv, NEW t \in Threads, Unregister(t), cur[t] \in listening
    PROVE  pc[Worker] = "idle" /\ pc'[Worker] = "idle"
<1> USE ThreadNames
<1>1. mxListener = NULL /\ pc[t] = "unregister" /\ TypeOK
  BY DEF Unregister, In, At, TypeInv
<1>2. pc[Worker] = "idle"
  BY <1>1 DEF TypeInv, Control
<1>3. t # Worker
  BY <1>1, <1>2
<1>4. pc'[Worker] = pc[Worker]
  BY <1>1, <1>3 DEF Unregister, Goto, Move, TypeOK
<1>5. QED
  BY <1>2, <1>4

\* Where the worker is.
LEMMA WorkerNext ==
    ASSUME TypeInv, [Next]_vars
    PROVE  \/ /\ UNCHANGED targets /\ (pc'[Worker] = "idle" <=> pc[Worker] = "idle")
              /\ pc'[Worker] \in SendLabels => pc[Worker] \in SendLabels /\ cur'[Worker] = cur[Worker]
           \/ WorkerStep /\ UNCHANGED listening
<1> USE ThreadNames
<1>1. CASE Broadcast \/ NextTarget
  BY <1>1, WorkerIs
<1>2. CASE ~(Broadcast \/ NextTarget)
  <2>1. UNCHANGED targets
    <3>1. CASE \E a \in AppThreads : App(a)
      BY <3>1, AppIs
    <3>2. CASE Outside
      BY <3>2 DEF Outside, Enter, While, Unlock, Select, UdpFind, UdpReceive, LockScan, brokerVars
    <3>3. CASE Within
      BY <3>3 DEF Within, Prune, PruneErase, Scan, Read, ReadFailed, ScanErase, HandleData,
            HandleSubscribe, HandleGoodbye, Goodbye, brokerVars
    <3>4. CASE \E t \in Threads : PeerNext(t)
      BY <3>4, MethodIs
    <3>5. CASE Quiet
      BY <3>5 DEF Quiet, brokerVars
    <3>6. QED
      BY <1>2, <3>1, <3>2, <3>3, <3>4, <3>5, NextIs
  <2>2. CASE PeerNext(Worker)
    <3>1. InMethodStep(Worker) /\ pc[Worker] \in PeerLabels
      BY <2>2, MethodIs
    <3>2. Sending(Worker) \/ Sent(Worker)
      BY <3>1, RestsIs DEF InMethodStep, Deleting, Deleted, Leaving, Left, Leaves
    <3>3. pc[Worker] \in SendLabels
      BY <3>2 DEF Sending, Sent, Sends
    <3>4. pc'[Worker] # "idle" /\ (pc'[Worker] \in SendLabels => cur'[Worker] = cur[Worker])
      <4>1. CASE Sending(Worker)
        BY <4>1 DEF Sending, Sends, Keeps, SendLabels
      <4>2. CASE Sent(Worker)
        BY <4>2 DEF Sent, Home, SendLabels
      <4>3. QED
        BY <3>2, <4>1, <4>2
    <3>5. QED
      BY <2>1, <3>3, <3>4 DEF SendLabels
  <2>3. CASE ~PeerNext(Worker)
    BY <1>2, <2>1, <2>3, OthersStay
  <2>4. QED
    BY <2>2, <2>3
<1>3. QED
  BY <1>1, <1>2

LEMMA TargetsNext ==
    ASSUME HoldInv, [Next]_vars
    PROVE  /\ targets' \subseteq listening' /\ (pc'[Worker] = "idle" => targets' = {})
           /\ pc'[Worker] \in SendLabels => cur'[Worker] \in listening'
<1> USE ThreadNames
<1>0. TypeInv /\ Births /\ targets \subseteq listening /\ (pc[Worker] = "idle" => targets = {})
      /\ (pc[Worker] \in SendLabels => cur[Worker] \in listening)
  BY DEF HoldInv, ExistInv, Listeners
<1>1. CASE WorkerStep /\ UNCHANGED listening
  <2>1. CASE pc'[Worker] = "idle"
    <3>1. NextTarget
      <4>1. ~PeerNext(Worker)
        BY <1>0, <1>1, <2>1, MethodIs DEF WorkerStep, PeerLabels, SendLabels
      <4>2. ~Broadcast
        BY <1>0, <1>1, <2>1, WorkerIs, MoveIs DEF Broadcast, Goto, At, WorkerStep
      <4>3. pc'[Worker] # pc[Worker]
        BY <1>1, <2>1 DEF WorkerStep
      <4>4. QED
        BY <1>0, <4>1, <4>2, <4>3, OthersStay
    <3>2. targets = {}
      <4>1. SUFFICES ASSUME NEW p \in targets, Call(Worker, "send", p, <<"next">>) PROVE FALSE
        BY <3>1 DEF NextTarget
      <4>2. QED
        BY <1>0, <2>1, <4>1 DEF Call, TypeInv, TypeOK
    <3>3. QED
      BY <1>0, <1>1, <2>1, <3>2 DEF WorkerStep, SendLabels
  <2>2. CASE pc'[Worker] # "idle"
    BY <1>0, <1>1, <2>2 DEF WorkerStep, SendLabels
  <2>3. QED
    BY <2>1, <2>2
<1>2. CASE /\ UNCHANGED targets /\ (pc'[Worker] = "idle" <=> pc[Worker] = "idle")
           /\ pc'[Worker] \in SendLabels => pc[Worker] \in SendLabels /\ cur'[Worker] = cur[Worker]
  <2>1. CASE listening \subseteq listening'
    BY <1>0, <1>2, <2>1
  <2>2. CASE ~(listening \subseteq listening')
    <3>1. pc[Worker] = "idle"
      <4>1. PICK t \in Threads : Unregister(t) /\ listening' = listening \ {cur[t]}
        BY <1>0, <2>2, ListeningNext
      <4>2. cur[t] \in listening
        BY <2>2, <4>1
      <4>3. QED
        BY <1>0, <4>1, <4>2, OnlyIdle
    <3>2. QED
      BY <1>0, <1>2, <3>1 DEF SendLabels
  <2>3. QED
    BY <2>1, <2>2
<1>3. QED
  BY <1>0, <1>1, <1>2, WorkerNext

\* A thread that has unregistered a peer, which then subscribes again only if
\* the network thread reads from it.
LEMMA DroppedNext ==
    ASSUME HoldInv, [Next]_vars, NEW t \in Threads, pc'[t] = "drop"
    PROVE  cur'[t] \notin listening'
<1> USE ThreadNames
<1>0. TypeInv /\ Deaths /\ (pc[t] = "drop" => cur[t] \notin listening)
  BY DEF HoldInv, ExistInv, Listeners
<1>1. CASE pc[t] = "drop" /\ cur'[t] = cur[t]
  <2>1. SUFFICES ASSUME HandleSubscribe, cur[Net] = cur[t] PROVE FALSE
    BY <1>0, <1>1, ListeningNext
  <2>2. pc[Net] = "handle" /\ fault = "none" /\ t # Net
    BY <1>1, <2>1 DEF HandleSubscribe, At
  <2>3. mxPeers = Net /\ cur[Net] \in Listed
    BY <1>0, <2>2, BusyCur, InsideAt, NetLabels
  <2>4. PICK r \in Rests(t) : Deletes(t, r)
    BY <1>0, <1>1, <2>2, MethodCalls DEF Sends, Leaves, SendLabels, PeerLabels
  <2>5. t \in AppThreads /\ r = <<"idle">>
    BY <1>0, <2>2, <2>3, <2>4, DeleterIs DEF Rests
  <2>6. QED
    BY <1>0, <2>1, <2>3, <2>4, <2>5 DEF Deaths
<1>2. CASE Unregister(t)
  <2>1. cur[t] \in Peers /\ "drop" \in Labels /\ TypeOK
    BY <1>0, <1>2, MethodIs DEF PeerNext, Labels, PeerLabels, TypeInv
  <2>2. cur'[t] = cur[t] /\ listening' = listening \ {cur[t]}
    BY <1>2, <2>1, MoveIs DEF Unregister, Goto
  <2>3. QED
    BY <2>2
<1>3. CASE ~Unregister(t) /\ ~(pc[t] = "drop" /\ cur'[t] = cur[t])
  <2>1. ASSUME t \in AppThreads, App(t) PROVE FALSE
    <3>1. AppStep(t)
      BY <1>0, <2>1, AppIs
    <3>2. pc'[t] \in OwnLabels(t) \cup {"send", "delete", "clear"}
      BY <3>1 DEF AppStep, AppOutside, AppInside, AppSends, AppClears
    <3>3. QED
      BY <2>1, <3>2, AppLabels
  <2>2. ASSUME t = Worker, Broadcast \/ NextTarget PROVE FALSE
    BY <1>0, <2>2, WorkerIs DEF WorkerStep
  <2>3. ASSUME t = Net, Outside PROVE FALSE
    BY <1>0, <2>3, OutsideIs DEF Outside
  <2>4. ASSUME t = Net, Within PROVE FALSE
    BY <1>0, <2>4, InsideIs DEF Inside, LoopStep, EraseStep
  <2>5. ASSUME PeerNext(t) PROVE FALSE
    <3>1. cur[t] \in Peers /\ pc[t] \in PeerLabels /\ TypeOK
      BY <1>0, <2>5, MethodIs DEF TypeInv
    <3>2. ASSUME NEW label \in Labels \ {"drop"}, Move(t, label, cur[t]) PROVE FALSE
      BY <3>1, <3>2, MoveIs
    <3>3. ASSUME Return(t) PROVE FALSE
      <4>1. pc'[t] = Head(stack[t])
        BY <1>0, <3>1, <3>3, MethodCalls, ReturnIs
      <4>2. QED
        BY <1>0, <3>1, <4>1, MethodHeads
    <3>4. ASSUME Call(t, "send", cur[t], <<"unregister", "free">>) PROVE FALSE
      BY <3>1, <3>4 DEF Call, TypeOK
    <3>5. {"recheck", "reconnect", "write", "free"} \subseteq Labels \ {"drop"}
      BY DEF Labels, PeerLabels, SendLabels
    <3>6. QED
      BY <1>3, <2>5, <3>2, <3>3, <3>4, <3>5 DEF PeerNext, Send, Reconnect, Recheck, Write, Delete,
            Drop, Free, Goto
  <2>6. QED
    BY <1>0, <1>3, <2>1, <2>2, <2>3, <2>4, <2>5, OthersStay
<1>4. QED
  BY <1>1, <1>2, <1>3

\* The destructor frees a reliable peer after it has disconnected.
LEMMA FreedNext ==
    ASSUME HoldInv, [Next]_vars, NEW t \in Threads, pc'[t] = "free", cur'[t] \notin Unreliable
    PROVE  ~active'[cur'[t]]
<1> USE ThreadNames
<1>0. TypeInv /\ Holding /\ PeersOK /\ cur[t] \in Peers \cup {NULL} /\ TypeOK
      /\ (pc[t] = "free" /\ cur[t] \notin Unreliable => ~active[cur[t]])
  BY TypeParts DEF HoldInv, ExistInv, Listeners, TypeInv
<1>1. CASE pc[t] = "free" /\ cur'[t] = cur[t]
  <2>1. cur[t] \in Peers /\ active[cur[t]] = FALSE
    BY <1>0, <1>1, AtMethod DEF PeerLabels, PeersOK
  <2>2. active'[cur[t]] = FALSE
    BY <1>0, <2>1, OnlyDrops
  <2>3. QED
    BY <1>1, <2>2
<1>2. CASE ~(pc[t] = "free" /\ cur'[t] = cur[t])
  <2>1. ASSUME t \in AppThreads, App(t) PROVE FALSE
    <3>1. AppStep(t)
      BY <1>0, <2>1, AppIs
    <3>2. pc'[t] \in OwnLabels(t) \cup {"send", "delete", "clear"}
      BY <3>1 DEF AppStep, AppOutside, AppInside, AppSends, AppClears
    <3>3. QED
      BY <2>1, <3>2, AppLabels
  <2>2. ASSUME t = Worker, Broadcast \/ NextTarget PROVE FALSE
    BY <1>0, <2>2, WorkerIs DEF WorkerStep
  <2>3. ASSUME t = Net, Outside PROVE FALSE
    BY <1>0, <2>3, OutsideIs DEF Outside
  <2>4. ASSUME t = Net, Within PROVE FALSE
    BY <1>0, <2>4, InsideIs DEF Inside, LoopStep, EraseStep
  <2>5. CASE PeerNext(t)
    <3>1. cur[t] \in Peers /\ pc[t] \in PeerLabels /\ mem[cur[t]] = "alive"
      BY <1>0, <2>5, MethodIs
    <3>2. ASSUME NEW label \in Labels \ {"free"}, Move(t, label, cur[t]) PROVE FALSE
      BY <1>0, <3>1, <3>2, MoveIs
    <3>3. ASSUME Call(t, "send", cur[t], <<"unregister", "free">>) PROVE FALSE
      BY <1>0, <3>3 DEF Call, TypeOK
    <3>4. ASSUME Return(t) PROVE pc[t] = "drop" /\ cur'[t] = cur[t]
      <4>1. pc'[t] = Head(stack[t]) /\ (pc'[t] = "free" => cur'[t] = cur[t])
        BY <1>0, <3>1, <3>4, MethodCalls, ReturnIs
      <4>2. ~Sends(t) /\ ~Leaves(t)
        BY <4>1, RestHeads DEF Sends, Leaves, Home
      <4>3. PICK r \in Rests(t) : Deletes(t, r)
        BY <1>0, <3>1, <4>2, MethodCalls
      <4>4. r \in AllRests /\ Head(r) # "free"
        BY RestsIs, RestHeads DEF Rests
      <4>5. stack[t] = <<"free">> \o r
        BY <4>1, <4>3, <4>4, Back DEF Deletes
      <4>6. pc[t] # "unregister"
        BY <1>2, <2>5, <3>2, <4>1, <3>4 DEF PeerNext, Send, Reconnect, Recheck, Write, Delete, Unregister,
              Drop, Free, In, At, Goto, Labels, PeerLabels
      <4>7. <<"free">> \o r # <<"unregister", "free">> \o r /\ <<"free">> \o r # r
        BY <4>4, Back
      <4>8. QED
        BY <4>1, <4>3, <4>5, <4>6, <4>7 DEF Deletes
    <3>5. {"recheck", "reconnect", "write", "drop"} \subseteq Labels \ {"free"}
      BY DEF Labels, PeerLabels, SendLabels
    <3>6. CASE Drop(t)
      <4>1. cur'[t] = cur[t] /\ active' = [active EXCEPT ![cur[t]] = FALSE]
        BY <3>4, <3>6 DEF Drop
      <4>2. QED
        BY <1>0, <3>1, <4>1 DEF PeersOK
    <3>7. CASE ~Drop(t)
      <4>1. ~Return(t)
        BY <2>5, <3>4, <3>7 DEF PeerNext, Send, Reconnect, Recheck, Write, Delete, Unregister, Free, In, At
      <4>a. Delete(t)
        <5>1. \A label \in {"recheck", "reconnect", "write", "drop"} : ~Move(t, label, cur[t])
          BY <3>2, <3>5
        <5>2. QED
          BY <2>5, <3>7, <4>1, <5>1 DEF PeerNext, Send, Reconnect, Recheck, Write, Unregister, Free, Goto
      <4>2. Delete(t) /\ status[cur[t]] = 0 /\ Goto(t, "free")
        <5>1. status[cur[t]] \in 0 .. 2 /\ (status[cur[t]] > 0 => FALSE)
          BY <1>0, <3>1, <3>3, <4>a DEF Delete, PeersOK
        <5>2. QED
          BY <4>a, <5>1 DEF Delete
      <4>3. cur'[t] = cur[t] /\ active' = active
        BY <1>0, <4>2 DEF Delete, Goto, Move, TypeOK, peerVars
      <4>4. ~Connected(cur[t])
        BY <4>2 DEF Connected
      <4>5. QED
        BY <1>0, <3>1, <4>3, <4>4 DEF Holding
    <3>8. QED
      BY <3>6, <3>7
  <2>6. QED
    BY <1>0, <1>2, <2>1, <2>2, <2>3, <2>4, <2>5, OthersStay
<1>3. QED
  BY <1>1, <1>2

LEMMA ListenersLive ==
    ASSUME HoldInv, [Next]_vars, NEW p \in Peers \ Unreliable, p \in listening'
    PROVE  mem'[p] = "alive" /\ active'[p]
<1> USE ThreadNames
<1>0. TypeInv /\ Births /\ Deaths /\ PeersOK /\ Listeners
  BY TypeParts DEF HoldInv, ExistInv, TypeInv
<1>1. CASE p \notin listening
  <2>1. HandleSubscribe /\ active[p] /\ cur[Net] = p /\ UNCHANGED <<mem, active>>
    BY <1>0, <1>1, ListeningNext
  <2>2. pc[Net] = "handle" /\ fault = "none"
    BY <2>1 DEF HandleSubscribe, At
  <2>3. mem[p] = "alive"
    BY <1>0, <2>1, <2>2, NetLabels DEF Deaths
  <2>4. QED
    BY <2>1, <2>3
<1>2. CASE p \in listening
  <2>1. mem[p] = "alive" /\ active[p] = TRUE
    BY <1>0, <1>2 DEF Listeners, PeersOK
  <2>2. ASSUME NEW t \in Threads, PeerNext(t) PROVE mem'[p] = mem[p] /\ active'[p] = active[p]
    <3>1. CASE cur[t] # p
      BY <1>0, <2>2, <3>1, FreeIs
    <3>2. CASE cur[t] = p
      <4>1. pc[t] # "drop" /\ pc[t] # "free"
        BY <1>0, <1>2, <2>1, <3>2 DEF Listeners
      <4>2. QED
        BY <2>2, <4>1 DEF PeerNext, Send, Reconnect, Recheck, Write, Delete, Unregister, Drop, Free,
              In, At, peerVars
    <3>3. QED
      BY <3>1, <3>2
  <2>3. ASSUME NEW a \in AppThreads, App(a) PROVE mem'[p] = mem[p] /\ active'[p] = active[p]
    <3>1. UNCHANGED active
      BY <1>0, <2>3, AppLists
    <3>2. \A q \in Peers : AddPeer(a, q) => mem'[p] = mem[p]
      BY <1>0, <2>1 DEF AddPeer, PeersOK
    <3>3. mem' = mem \/ \E q \in Peers : AddPeer(a, q)
      BY <2>3 DEF App, AddPeer, SendMessage, SubPeer, EraseID, Remove, Insert, Disconnect, Clear, Destroy, Join, peerVars
    <3>4. QED
      BY <3>1, <3>2, <3>3
  <2>4. CASE Broadcast \/ NextTarget
    BY <1>0, <2>1, <2>4, WorkerIs DEF peerVars
  <2>5. CASE Outside
    BY <2>1, <2>5 DEF Outside, Enter, While, Unlock, Select, UdpFind, UdpReceive, LockScan, peerVars
  <2>6. CASE Within
    BY <1>0, <2>1, <2>6, WithinKnown
  <2>7. CASE Quiet
    BY <2>1, <2>7 DEF Quiet
  <2>8. QED
    BY <2>1, <2>2, <2>3, <2>4, <2>5, <2>6, <2>7, NextIs
<1>3. QED
  BY <1>1, <1>2

LEMMA ListenersNext ==
    ASSUME HoldInv, [Next]_vars
    PROVE  Listeners'
BY TargetsNext, DroppedNext, ListenersLive, FreedNext DEF Listeners

LEMMA HoldInductive == Spec => []HoldInv
<1>1. Init => HoldInv
  <2>1. SUFFICES ASSUME Init PROVE HoldInv
    OBVIOUS
  <2>2. ExistInv
    <3>1. TypeInv /\ Births
      BY <2>1, TypeInvInit
    <3>2. list = << >> /\ pc = [t \in Threads |-> IF t = Net THEN "enter" ELSE "idle"]
      BY <2>1 DEF Init
    <3>3. DOMAIN list = {} /\ Listed = {} /\ \A t \in Threads : pc[t] \in {"enter", "idle"}
      BY <3>2 DEF Listed
    <3>4. QED
      BY <3>1, <3>3, ThreadNames DEF ExistInv, Deaths, ListedExist, Leaves, Deletes, NetLocked, SendLabels
  <2>3. /\ mem = [p \in Peers |-> "unborn"] /\ list = << >> /\ byID = [i \in IDs |-> NULL]
        /\ listening = {} /\ targets = {} /\ pc = [t \in Threads |-> IF t = Net THEN "enter" ELSE "idle"]
    BY <2>1 DEF Init
  <2>4. /\ \A t \in Threads : pc[t] \in {"enter", "idle"} /\ pc[t] \notin PeerLabels
        /\ Listed = {} /\ \A p \in Peers : mem[p] # "alive"
        /\ \A i \in IDs : byID[i] = NULL
    BY <2>3 DEF Listed, PeerLabels, SendLabels
  <2>5. Holding /\ ListedHold /\ ByKey /\ Erased
    BY <2>4, ThreadNames DEF Holding, NetDeletes, Deletes, PeerLabels, ListedHold, ByKey, Erased
  <2>6. Listeners
    BY <2>3, <2>4, ThreadNames DEF Listeners, PeerLabels
  <2>7. QED
    BY <2>2, <2>5, <2>6 DEF HoldInv
<1>2. HoldInv /\ [Next]_vars => HoldInv'
  <2>1. SUFFICES ASSUME HoldInv, [Next]_vars PROVE HoldInv'
    OBVIOUS
  <2>2. ExistInv'
    BY <2>1, TypeInvNext, ListedExistNext, DeathsNext DEF HoldInv, ExistInv
  <2>3. Holding' /\ ListedHold' /\ Listeners'
    BY <2>1, HoldingNext, ListedHoldNext, ListenersNext
  <2>4. ByKey' /\ Erased'
    BY <2>1, ByKeyNext, ErasedNext DEF HoldInv, ExistInv
  <2>5. QED
    BY <2>2, <2>3, <2>4 DEF HoldInv
<1>3. QED
  BY <1>1, <1>2, PTL DEF Spec

\* No thread deletes a Peer inside whose cbMessage the worker of a broker is
\* (Peer.cpp:208-221, 63-74), if its connection does not fail.
THEOREM NobodyDeletesWhileCalled == Spec => []NotDeletedWhileCalled
<1>1. HoldInv => NotDeletedWhileCalled
  BY DEF HoldInv, Listeners, NotDeletedWhileCalled
<1>2. QED
  BY <1>1, HoldInductive, PTL

LEMMA InMapNext ==
    ASSUME MapInv, [Next]_vars
    PROVE  InMap'
<1> USE ThreadNames
<1>0. TypeInv /\ Births /\ ByKey /\ MapsStep /\ byID \in [IDs -> Peers \cup {NULL}]
  BY MapsNext DEF MapInv, HoldInv, ExistInv, TypeInv, TypeOK
<1>1. SUFFICES ASSUME mxPeers' \notin AppThreads, NEW p \in Peers \ Unreliable, p \in Listed', OwnID(p),
                      \A a \in AppThreads : pc'[a] = "remove" => cur'[a] # p
               PROVE  byID'[IDOf[p]] = p
  BY DEF InMap, OwnID, HalfRemoved
<1>b. ~HalfRemoved(p)
  BY <1>0, <1>1, RemoveNext, RemoveErases DEF HalfRemoved
<1>a. IDOf[p] \in IDs /\ \A q \in Peers : IDOf[q] = IDOf[p] => q = p
  BY <1>1, IDOfAssumption DEF OwnID
<1>2. CASE mxPeers \in AppThreads
  <2>1. mxPeers # Net
    BY <1>2
  <2>2. pc[Net] \notin NetLocked
    BY <1>0, <2>1, NetLockIs
  <2>3. QED
    BY <1>0, <1>1, <1>2, <2>2, NetLabels DEF MapsStep
<1>3. CASE mxPeers \notin AppThreads
  <2>1. p \in Listed => byID[IDOf[p]] = p
    BY <1>1, <1>b, <1>3 DEF MapInv, InMap
  <2>2. CASE \E a \in AppThreads :
                 /\ pc[a] = "insert" /\ Listed' = Listed \cup {cur[a]} /\ mxPeers' = mxPeers
                 /\ byID' = [byID EXCEPT ![IDOf[cur[a]]] = IF @ = NULL THEN cur[a] ELSE @]
                 /\ UNCHANGED <<mem, active>>
    <3>1. PICK a \in AppThreads :
                 /\ pc[a] = "insert" /\ Listed' = Listed \cup {cur[a]}
                 /\ byID' = [byID EXCEPT ![IDOf[cur[a]]] = IF @ = NULL THEN cur[a] ELSE @]
      BY <2>2
    <3>2. CASE cur[a] = p
      <4>1. byID'[IDOf[p]] = IF byID[IDOf[p]] = NULL THEN p ELSE byID[IDOf[p]]
        BY <1>0, <1>a, <3>1, <3>2
      <4>2. byID[IDOf[p]] # NULL => byID[IDOf[p]] \in Peers /\ IDOf[byID[IDOf[p]]] = IDOf[p]
        BY <1>0, <1>a DEF ByKey
      <4>3. QED
        BY <1>a, <4>1, <4>2
    <3>3. CASE cur[a] # p
      <4>1. byID[IDOf[p]] = p /\ p # NULL
        BY <1>1, <2>1, <3>1, <3>3
      <4>2. byID'[IDOf[p]] = byID[IDOf[p]]
        BY <1>0, <1>a, <3>1, <4>1
      <4>3. QED
        BY <4>1, <4>2
    <3>4. QED
      BY <3>2, <3>3
  <2>3. CASE \E a \in AppThreads :
                 /\ pc'[a] = "remove" /\ cur'[a] = cur[a] /\ cur[a] \in Peers
                 /\ Listed' = Listed /\ mxPeers' = mxPeers
                 /\ byID' = [byID EXCEPT ![IDOf[cur[a]]] = NULL]
    BY <1>0, <1>1, <1>a, <2>1, <2>3
  <2>4. CASE /\ pc[Net] = "goodbye" /\ cur[Net] \in Peers
             /\ Listed' = Listed \ {cur[Net]} /\ mxPeers' = mxPeers
             /\ byID' = [byID EXCEPT ![IDOf[cur[Net]]] = NULL]
    <3>1. IDOf[cur[Net]] # IDOf[p]
      BY <1>1, <1>a, <2>4
    <3>2. QED
      BY <1>0, <1>1, <1>a, <2>1, <2>4, <3>1
  <2>5. QED
    BY <1>0, <1>1, <2>1, <2>2, <2>3, <2>4 DEF MapsStep
<1>4. QED
  BY <1>2, <1>3

\* The list, the map and the brokers agree on the peers whose connection does
\* not fail; while subPeer() is between the lines 111 and 112, its Peer is on the
\* list only (Peer.cpp:215-221, Peer2PeerNetwork.cpp:108-114, 390-391).
THEOREM ListMapAndBrokersAgree == Spec => []ReliableConsistent
<1>1. Init => InMap
  <2>1. SUFFICES ASSUME Init PROVE Listed = {}
    BY DEF InMap
  <2>2. list = << >>
    BY <2>1 DEF Init
  <2>3. QED
    BY <2>2 DEF Listed
<1>2. HoldInv /\ InMap /\ [Next]_vars => InMap'
  BY InMapNext DEF MapInv
<1>3. Spec => []InMap
  BY <1>1, <1>2, HoldInductive, PTL DEF Spec
<1>4. HoldInv /\ InMap => ReliableConsistent
  <2>1. SUFFICES ASSUME HoldInv, InMap, NEW p \in Peers \ Unreliable
                 PROVE  /\ p \in listening => mem[p] = "alive" /\ active[p]
                        /\ mxPeers \notin AppThreads =>
                              \A i \in IDs : byID[i] = p => p \in Listed /\ mem[p] = "alive"
                        /\ mxPeers = NULL /\ p \in Listed /\ OwnID(p) /\ ~HalfRemoved(p)
                              => byID[IDOf[p]] = p
    BY DEF ReliableConsistent
  <2>2. p \in listening => mem[p] = "alive" /\ active[p]
    BY <2>1 DEF HoldInv, Listeners
  <2>3. mxPeers \notin AppThreads => \A i \in IDs : byID[i] = p => p \in Listed /\ mem[p] = "alive"
    BY <2>1 DEF HoldInv, ListedHold
  <2>4. mxPeers = NULL => mxPeers \notin AppThreads
    BY ThreadNames
  <2>5. QED
    BY <2>1, <2>2, <2>3, <2>4 DEF InMap
<1>5. QED
  BY <1>3, <1>4, HoldInductive, PTL

-----------------------------------------------------------------------------
(* Goodbyes. *)

\* What the brokers are given.
LEMMA PumpedNext ==
    ASSUME TypeInv, [Next]_vars
    PROVE  \/ pumped' = pumped
           \/ /\ pc[Net] \in {"udpPeer", "handle"} /\ cur[Net] \in Peers /\ active[cur[Net]]
              /\ pumped' = [pumped EXCEPT ![cur[Net]] = "data"]
           \/ HandleGoodbye /\ pumped' = [pumped EXCEPT ![cur[Net]] = "goodbye"]
<1> USE ThreadNames
<1>1. CASE \E a \in AppThreads : App(a)
  BY <1>1, AppIs
<1>2. CASE Broadcast \/ NextTarget
  BY <1>2, WorkerIs
<1>3. CASE Outside
  <2>1. CASE UdpReceive
    <3>1. cur[Net] \in Peers
      BY <2>1, NetLabels DEF UdpReceive, In, At, TypeInv, TypeOK, Control, Here
    <3>2. QED
      BY <2>1, <3>1 DEF UdpReceive, Pump, In, At
  <2>2. QED
    BY <1>3, <2>1 DEF Outside, Enter, While, Unlock, Select, UdpFind, LockScan
<1>4. CASE Within
  <2>1. cur[Net] \in Peers
    BY <1>4, InsideIs DEF Inside
  <2>2. QED
    BY <1>4, <2>1 DEF Within, Prune, PruneErase, Scan, Read, ReadFailed, ScanErase, HandleData,
          HandleSubscribe, HandleGoodbye, Goodbye, Pump, At
<1>5. CASE \E t \in Threads : PeerNext(t)
  BY <1>5, MethodIs
<1>6. CASE Quiet
  BY <1>6 DEF Quiet
<1>7. QED
  BY <1>1, <1>2, <1>3, <1>4, <1>5, <1>6, NextIs

LEMMA StaysSilent ==
    ASSUME GoodbyeInv, [Next]_vars, NEW p \in Peers, pumped[p] = "goodbye"
    PROVE  pumped'[p] = "goodbye"
<1> USE ThreadNames
<1>1. TypeInv /\ pumped \in [Peers -> Kinds \cup {NULL}]
      /\ (active[p] = FALSE \/ (Leaves(Net) /\ cur[Net] = p))
  BY DEF GoodbyeInv, TypeInv, TypeOK
<1>2. ~(pc[Net] \in {"udpPeer", "handle"} /\ cur[Net] = p /\ active[p])
  BY <1>1 DEF Leaves
<1>3. QED
  BY <1>1, <1>2, PumpedNext

LEMMA GoodbyeNext ==
    ASSUME GoodbyeInv, Births, [Next]_vars
    PROVE  GoodbyeInv'
<1> USE ThreadNames
<1>0. TypeInv /\ TypeInv' /\ PeersOK
  BY TypeInvNext, TypeParts DEF GoodbyeInv, TypeInv
<1>1. SUFFICES ASSUME NEW p \in Peers, pumped'[p] = "goodbye"
               PROVE  active'[p] = FALSE \/ (Leaves(Net)' /\ cur'[Net] = p)
  BY <1>0 DEF GoodbyeInv
<1>2. CASE pumped[p] = "goodbye" /\ active[p] = FALSE
  BY <1>0, <1>2, OnlyDrops
<1>3. CASE pumped[p] = "goodbye" /\ Leaves(Net) /\ cur[Net] = p
  <2>1. pc[Net] \in {"unregister", "drop"}
    BY <1>3 DEF Leaves
  <2>2. ~Outside /\ ~Within
    <3>1. ~Outside
      BY <1>0, <2>1, OutsideIs DEF Outside
    <3>2. ~Within
      BY <1>0, <2>1, InsideIs DEF Inside, LoopStep, EraseStep
    <3>3. QED
      BY <3>1, <3>2
  <2>3. CASE pc'[Net] = pc[Net] /\ stack'[Net] = stack[Net] /\ cur'[Net] = cur[Net]
    BY <1>3, <2>3 DEF Leaves
  <2>4. CASE PeerNext(Net)
    <3>1. Leaving(Net) \/ Left(Net)
      BY <1>0, <1>3, <2>4, MethodIs, OneMethod DEF InMethodStep, Deleting, Deleted, Sending, Sent
    <3>2. CASE Leaving(Net)
      BY <1>3, <3>2 DEF Leaving, Keeps
    <3>3. CASE Left(Net)
      <4>1. pc[Net] = "drop"
        BY <3>3 DEF Left
      <4>2. Drop(Net)
        BY <2>4, <4>1 DEF PeerNext, Send, Reconnect, Recheck, Write, Delete, Unregister, Free, In, At
      <4>3. QED
        BY <1>0, <1>3, <4>2 DEF Drop, PeersOK
    <3>4. QED
      BY <3>1, <3>2, <3>3
  <2>5. QED
    BY <1>0, <2>2, <2>3, <2>4, OthersStay
<1>4. CASE pumped[p] # "goodbye"
  <2>1. HandleGoodbye /\ cur[Net] = p /\ pumped' # pumped
    BY <1>0, <1>1, <1>4, PumpedNext DEF PeersOK
  <2>2. Call(Net, "unregister", p, <<"goodbye">>) /\ pc[Net] = "handle" /\ fault = "none"
        /\ UNCHANGED <<mxListener, mxPeers>>
    BY <2>1 DEF HandleGoodbye, At, brokerVars, netVars
  <2>3. pc'[Net] = "unregister" /\ cur'[Net] = p /\ stack'[Net] = <<"goodbye">>
    BY <1>0, <2>1, <2>2, NetCalls, NetLabels
  <2>4. QED
    BY <2>3 DEF Leaves
<1>5. QED
  BY <1>0, <1>1, <1>2, <1>3, <1>4 DEF GoodbyeInv

\* After the DisconnectMessage of a peer nothing it sent is delivered
\* (Peer.cpp:371, Peer2PeerNetwork.cpp:331, 388-394).
THEOREM SilenceAfterGoodbye == Spec => SilentAfterGoodbye
<1>1. Init => GoodbyeInv
  <2>1. SUFFICES ASSUME Init PROVE \A p \in Peers : pumped[p] # "goodbye"
    BY TypeInvInit DEF GoodbyeInv
  <2>2. pumped = [p \in Peers |-> NULL]
    BY <2>1 DEF Init
  <2>3. QED
    BY <2>2, NullIsNothing DEF Kinds
<1>2. GoodbyeInv /\ Births /\ [Next]_vars => GoodbyeInv'
  BY GoodbyeNext
<1>3. GoodbyeInv /\ [Next]_vars =>
          [\A p \in Peers : pumped[p] = "goodbye" => pumped'[p] = "goodbye"]_vars
  BY StaysSilent
<1>4. Spec => [](TypeInv /\ Births)
  BY Inductive
<1>5. QED
  BY <1>1, <1>2, <1>3, <1>4, PTL DEF Spec, SilentAfterGoodbye

-----------------------------------------------------------------------------
(* Programs that keep to the rules. *)

NoDisconnect == \A a \in AppThreads : "disconnect" \notin Calls[a]

\* Once the destructor has joined it the network thread does nothing any more.
Quit == ~running /\ pc[Net] \in {"enter", "while", "ended"}

\* What the remote programs have sent is what they may send.
Said ==
    /\ \A p \in Peers : Range(stream[p]) \subseteq MaySay[p]
    /\ pc[Net] = "handle" => Range(batch) \subseteq MaySay[cur[Net]]
    /\ listening \cap Unreliable = {}

\* A thread deletes a Peer that exists, with m_mxPeers locked: none is in subPeer().
Deleters ==
    /\ \A a \in AppThreads : pc[a] \notin {"eraseID", "remove"} /\ ~Deletes(a, <<"idle">>)
    /\ \A t \in Threads : \A r \in Rests(t) : Deletes(t, r) => mem[cur[t]] = "alive"

\* Pointers are used as long as the network works, and disconnect() is not called.
Pointers ==
    /\ \A a \in AppThreads : Sends(a) => running /\ NoDisconnect /\ cur[a] \notin Unreliable
    /\ \A a \in AppThreads : pc[a] = "join" => ~running
    /\ pc[Net] = "udpPeer" => NoDisconnect /\ cur[Net] \notin Unreliable
    /\ NoDisconnect => /\ \A a \in AppThreads : HoldsPeers(a) => Quit
                       /\ Quit \/ \A p \in Peers \ Unreliable : mem[p] # "freed"

RulesInv == HoldInv /\ Said /\ Deleters /\ Pointers

\* What starts a destructor.
LEMMA DeletesNext ==
    ASSUME TypeInv, [Next]_vars, NEW t \in Threads, NEW r \in Rests(t), Deletes(t, r)'
    PROVE  \/ Deletes(t, r) /\ cur'[t] = cur[t] /\ ~Free(t)
           \/ t \in AppThreads /\ pc[t] = "remove"
           \/ /\ t \in AppThreads /\ App(t) /\ r # <<"idle">> /\ mem' = mem
              /\ cur'[t] \in Listed /\ mem[cur'[t]] # "freed"
           \/ t = Net /\ Within /\ cur'[Net] = cur[Net] /\ pc[Net] \in {"prune", "readFailed"}
<1> USE ThreadNames
<1>a. pc'[t] \in PeerLabels
  BY DEF Deletes, PeerLabels, SendLabels
<1>b. ~(Sends(t)') /\ ~(Leaves(t)')
  BY OneMethodNext
<1>c. PeerLabels \cap {"idle", "next", "clear", "done", "goodbye", "pruneErase", "scanErase"} = {}
  BY DEF PeerLabels, SendLabels
<1>1. CASE pc'[t] = pc[t] /\ stack'[t] = stack[t] /\ cur'[t] = cur[t]
  <2>1. Deletes(t, r)
    BY <1>1 DEF Deletes
  <2>2. ASSUME Free(t) PROVE FALSE
    <3>1. pc[t] \in PeerLabels /\ stack[t] # << >>
      BY <1>1, <1>a, MethodCalls
    <3>2. stack[t] \in Seq(Labels) /\ TypeOK
      BY DEF TypeInv, TypeOK
    <3>3. stack'[t] = Tail(stack[t])
      BY <2>2, <3>1, <3>2, ReturnIs DEF Free
    <3>4. Len(Tail(stack[t])) # Len(stack[t])
      BY <3>1, <3>2
    <3>5. QED
      BY <1>1, <3>3, <3>4
  <2>3. QED
    BY <1>1, <2>1, <2>2
<1>2. CASE t \in AppThreads /\ App(t)
  <2>1. AppStep(t)
    BY <1>2, AppIs
  <2>2. ~AppOutside(t) /\ ~AppClears(t)
    BY <1>2, <1>a, LabelSets DEF AppOutside, AppClears
  <2>3. ~AppSends(t)
    BY <1>2, <1>b DEF AppSends, Sends, Home, SendLabels
  <2>4. CASE pc[t] = "remove"
    BY <1>2, <2>4
  <2>5. CASE pc[t] # "remove"
    <3>1. /\ cur'[t] \in Listed /\ mem[cur'[t]] # "freed" /\ pc'[t] = "delete"
          /\ stack'[t] \in {<<"clear", "idle">>, <<"clear", "done">>}
      BY <2>1, <2>2, <2>3, <2>5 DEF AppStep, AppInside
    <3>2. stack'[t] = r
      BY <3>1 DEF Deletes, SendLabels
    <3>3. mem' = mem
      BY <1>2, <3>1, AppLists DEF peerVars
    <3>4. r # <<"idle">>
      <4>1. Head(<<"idle">>) # Head(<<"clear", "idle">>) /\ Head(<<"idle">>) # Head(<<"clear", "done">>)
        BY RestHeads
      <4>2. QED
        BY <3>1, <3>2, <4>1
    <3>5. QED
      BY <1>2, <3>1, <3>3, <3>4
  <2>6. QED
    BY <2>4, <2>5
<1>3. ASSUME t = Worker PROVE FALSE
  BY <1>3, RestsIs
<1>4. CASE t = Net /\ Outside
  <2>1. pc'[Net] \notin PeerLabels
    BY <1>4, OutsideIs DEF Outside, PeerLabels, SendLabels
  <2>2. QED
    BY <1>4, <1>a, <2>1
<1>5. CASE t = Net /\ Within
  <2>1. Inside /\ pc'[Net] \in PeerLabels
    BY <1>5, <1>a, InsideIs
  <2>2. ~(pc'[Net] = "unregister" /\ stack'[Net] = <<"goodbye">>)
    BY <1>5, <1>b DEF Leaves
  <2>3. cur'[Net] = cur[Net] /\ pc[Net] \in {"prune", "readFailed"}
    BY <2>1, <2>2 DEF Inside, LoopStep, EraseStep, Keeps, PeerLabels, SendLabels
  <2>4. QED
    BY <1>5, <2>3
<1>6. CASE PeerNext(t)
  <2>1. InMethodStep(t) /\ pc[t] \in PeerLabels
    BY <1>6, MethodIs
  <2>2. ~Sent(t) /\ ~Left(t)
    BY <1>a, <1>c DEF Sent, Left, Home
  <2>3. ~Deleted(t)
    BY <1>a, <1>c, RestHeads DEF Deleted, Rests
  <2>4. Deletes(t, r) /\ cur'[t] = cur[t]
    BY <1>b, <2>1, <2>2, <2>3, OneMethodNext DEF InMethodStep, Sending, Leaving, Deleting, Keeps
  <2>5. ASSUME Free(t) PROVE FALSE
    <3>1. pc[t] = "free" /\ stack[t] = r
      BY <2>4, <2>5 DEF Free, In, At, Deletes, SendLabels
    <3>2. pc'[t] = Head(r)
      BY <2>1, <2>5, <3>1, MethodCalls, ReturnIs DEF Free, TypeInv
    <3>3. QED
      BY <1>a, <1>c, <3>2, RestHeads DEF Rests
  <2>6. QED
    BY <2>4, <2>5
<1>7. QED
  BY <1>1, <1>2, <1>3, <1>4, <1>5, <1>6, OthersStay

\* Whose Peer is freed.
LEMMA OnlyFree ==
    ASSUME TypeInv, Births, [Next]_vars, NEW p \in Peers, mem[p] = "alive" \/ mem'[p] = "freed",
           mem'[p] # mem[p]
    PROVE  \E t \in Threads : Free(t) /\ PeerNext(t) /\ cur[t] = p /\ mem[p] = "alive"
<1> USE ThreadNames
<1>0. mem \in [Peers -> {"unborn", "alive", "freed"}]
  BY DEF TypeInv, TypeOK
<1>1. ASSUME NEW a \in AppThreads, App(a) PROVE FALSE
  <2>1. mem' = mem \/ \E q \in Peers : AddPeer(a, q)
    BY <1>1 DEF App, AddPeer, SendMessage, SubPeer, EraseID, Remove, Insert, Disconnect, Clear, Destroy, Join, peerVars
  <2>2. QED
    BY <1>0, <2>1 DEF AddPeer
<1>2. CASE Broadcast \/ NextTarget
  BY <1>2, WorkerIs DEF peerVars
<1>3. CASE Outside
  BY <1>3 DEF Outside, Enter, While, Unlock, Select, UdpFind, UdpReceive, LockScan, peerVars
<1>4. CASE Within
  BY <1>4, WithinKnown
<1>5. ASSUME NEW t \in Threads, PeerNext(t) PROVE Free(t) /\ cur[t] = p /\ mem[p] = "alive"
  <2>1. Free(t)
    BY <1>5 DEF PeerNext, Send, Reconnect, Recheck, Write, Delete, Unregister, Drop, peerVars
  <2>2. cur[t] \in Peers /\ mem[cur[t]] = "alive"
    BY <1>5, MethodIs
  <2>3. cur[t] = p
    BY <1>0, <2>1, <2>2 DEF Free
  <2>4. QED
    BY <2>1, <2>2, <2>3
<1>6. CASE Quiet
  BY <1>6 DEF Quiet
<1>7. QED
  BY <1>1, <1>2, <1>3, <1>4, <1>5, <1>6, NextIs

LEMMA DeletersNext ==
    ASSUME KeepsToRules, RulesInv, [Next]_vars
    PROVE  Deleters'
<1> USE ThreadNames
<1>0. TypeInv /\ Births /\ Deaths /\ Deleters /\ PeersOK
  BY TypeParts DEF RulesInv, HoldInv, ExistInv, TypeInv
<1>1. \A a \in AppThreads : pc[a] # "remove"
  BY <1>0 DEF Deleters
<1>2. ASSUME NEW a \in AppThreads, Deletes(a, <<"idle">>)' PROVE FALSE
  <2>1. <<"idle">> \in Rests(a)
    BY DEF Rests
  <2>2. Deletes(a, <<"idle">>)
    BY <1>0, <1>1, <1>2, <2>1, DeletesNext
  <2>3. QED
    BY <1>0, <2>2 DEF Deleters
<1>3. ASSUME NEW t \in Threads, NEW r \in Rests(t), Deletes(t, r)' PROVE mem'[cur'[t]] = "alive"
  <2>1. CASE Deletes(t, r) /\ cur'[t] = cur[t] /\ ~Free(t)
    <3>1. mem[cur[t]] = "alive" /\ cur[t] \in Peers
      <4>1. pc[t] \in PeerLabels
        BY <2>1 DEF Deletes, PeerLabels
      <4>2. QED
        BY <1>0, <2>1, <4>1, AtMethod DEF Deleters
    <3>2. ASSUME mem'[cur[t]] # mem[cur[t]] PROVE FALSE
      <4>1. PICK u \in Threads : Free(u) /\ PeerNext(u) /\ cur[u] = cur[t]
        BY <1>0, <3>1, <3>2, OnlyFree
      <4>2. u # t /\ pc[u] = "free"
        BY <2>1, <4>1 DEF Free, In, At
      <4>3. PICK q \in Rests(u) : Deletes(u, q)
        BY <1>0, <4>1, <4>2, MethodCalls DEF Sends, Leaves, SendLabels, PeerLabels
      <4>4. mxPeers = u /\ mxPeers = t
        <5>1. q # <<"idle">> \/ u = Net
          BY <1>0, <4>3, RestsIs DEF Deleters
        <5>2. r # <<"idle">> \/ t = Net
          BY <1>0, <2>1, RestsIs DEF Deleters
        <5>3. mxPeers = u
          BY <1>0, <4>3, <5>1, DeleterIs
        <5>4. mxPeers = t
          BY <1>0, <2>1, <5>2, DeleterIs
        <5>5. QED
          BY <5>3, <5>4
      <4>5. QED
        BY <4>2, <4>4
    <3>3. QED
      BY <2>1, <3>1, <3>2
  <2>2. CASE /\ t \in AppThreads /\ App(t) /\ r # <<"idle">> /\ mem' = mem
             /\ cur'[t] \in Listed /\ mem[cur'[t]] # "freed"
    <3>1. cur'[t] \in Peers /\ mem[cur'[t]] # "unborn"
      BY <1>0, <2>2, FirstIs DEF Births, Known, Born
    <3>2. QED
      BY <1>0, <2>2, <3>1 DEF PeersOK
  <2>3. CASE t = Net /\ Within /\ cur'[Net] = cur[Net] /\ pc[Net] \in {"prune", "readFailed"}
    <3>1. mem' = mem
      BY <1>0, <2>3, WithinKnown
    <3>2. fault = "none" /\ cur[Net] \in Peers
      BY <1>0, <2>3, InsideIs DEF Inside
    <3>3. mem[cur[Net]] = "alive"
      BY <1>0, <2>3, <3>2 DEF Deaths, NetLocked
    <3>4. QED
      BY <2>3, <3>1, <3>3
  <2>4. QED
    BY <1>0, <1>1, <1>3, <2>1, <2>2, <2>3, DeletesNext
<1>4. ASSUME NEW a \in AppThreads, pc'[a] \in {"eraseID", "remove"} PROVE FALSE
  <2>1. pc'[a] # "remove"
    BY <1>0, RemoveNext DEF Deleters, EraseID, At
  <2>2. CASE App(a)
    <3>1. pc[a] = "idle"
      BY <1>0, <1>4, <2>1, <2>2, AppIs DEF AppStep, AppInside, AppSends, AppClears
    <3>2. ~\E i \in IDs : SubPeer(a, i)
      BY DEF KeepsToRules, SubPeer, MayCall
    <3>3. pc \in [Threads -> Labels]
      BY <1>0 DEF TypeInv, TypeOK
    <3>4. QED
      BY <1>4, <2>1, <2>2, <3>1, <3>2, <3>3
         DEF App, AddPeer, SendMessage, Insert, EraseID, Remove, Disconnect, Clear, Destroy, Join,
             Goto, Move, Call, At
  <2>3. CASE PeerNext(a)
    <3>1. InMethodStep(a)
      BY <1>0, <2>3, MethodIs
    <3>2. Deleted(a) => pc'[a] \in {"idle", "clear"}
      BY RestHeads DEF Deleted, Rests
    <3>3. QED
      BY <1>4, <3>1, <3>2 DEF InMethodStep, Deleting, Deletes, Sending, Sent, Sends, Home, Leaving,
            Left, Leaves, SendLabels
  <2>4. pc'[a] # pc[a]
    BY <1>0, <1>4 DEF Deleters
  <2>5. QED
    BY <1>0, <2>2, <2>3, <2>4, OthersStay
<1>5. QED
  BY <1>2, <1>3, <1>4 DEF Deleters

\* The network thread does not leave the end of its run, and running stays FALSE.
LEMMA QuitNext ==
    ASSUME TypeInv, [Next]_vars
    PROVE  /\ running' \in {running, FALSE}
           /\ Quit => ~running' /\ pc'[Net] \in {"enter", "while", "ended"}
           /\ running' # running => \E a \in AppThreads : Destroy(a)
<1> USE ThreadNames
<1>1. running' # running => \E a \in AppThreads : Destroy(a)
  <2>1. ASSUME NEW a \in AppThreads, App(a), ~Destroy(a) PROVE running' = running
    BY <2>1 DEF App, AddPeer, SendMessage, SubPeer, EraseID, Remove, Insert, Disconnect, Clear, Join, netVars
  <2>2. CASE Broadcast \/ NextTarget
    BY <2>2, WorkerIs DEF netVars
  <2>3. CASE Outside
    BY <2>3 DEF Outside, Enter, While, Unlock, Select, UdpFind, UdpReceive, LockScan, netVars
  <2>4. CASE Within
    BY <2>4 DEF Within, Prune, PruneErase, Scan, Read, ReadFailed, ScanErase, HandleData,
          HandleSubscribe, HandleGoodbye, Goodbye, netVars
  <2>5. CASE \E t \in Threads : PeerNext(t)
    BY <2>5, MethodIs DEF netVars
  <2>6. CASE Quiet
    BY <2>6 DEF Quiet, netVars
  <2>7. QED
    BY <2>1, <2>2, <2>3, <2>4, <2>5, <2>6, NextIs
<1>2. running' \in {running, FALSE}
  BY <1>1 DEF Destroy
<1>3. ASSUME Quit PROVE ~running' /\ pc'[Net] \in {"enter", "while", "ended"}
  <2>1. ~running' /\ running = FALSE
    <3>1. running = FALSE
      BY <1>3 DEF Quit, TypeInv, TypeOK
    <3>2. running' = FALSE
      BY <1>2, <3>1
    <3>3. QED
      BY <3>1, <3>2
  <2>2. pc[Net] \notin NetLocked \cup PeerLabels
    BY <1>3 DEF Quit, NetLocked, PeerLabels, SendLabels
  <2>3. CASE Outside
    <3>1. Enter \/ While
      BY <1>3, <2>3 DEF Outside, Unlock, Select, UdpFind, UdpReceive, LockScan, In, At, Quit
    <3>2. CASE Enter
      BY <2>1, <3>2, MoveTo DEF Enter, Goto, Labels, TypeInv, TypeOK
    <3>3. CASE While
      BY <2>1, <3>3, MoveTo DEF While, Goto, Labels, TypeInv, TypeOK
    <3>4. QED
      BY <2>1, <3>1, <3>2, <3>3
  <2>4. ~Within
    BY <2>2, NetLabels DEF Within, Prune, PruneErase, Scan, Read, ReadFailed, ScanErase, HandleData,
          HandleSubscribe, HandleGoodbye, Goodbye, At
  <2>5. ~PeerNext(Net)
    BY <2>2, MethodIs
  <2>6. QED
    BY <1>3, <2>1, <2>3, <2>4, <2>5, OthersStay DEF Quit
<1>4. QED
  BY <1>1, <1>2, <1>3

LEMMA SendersNext ==
    ASSUME KeepsToRules, RulesInv, [Next]_vars, NEW a \in AppThreads, Sends(a)'
    PROVE  running' /\ NoDisconnect /\ cur'[a] \notin Unreliable
<1> USE ThreadNames
<1>0. TypeInv /\ Pointers
  BY DEF RulesInv, HoldInv, ExistInv
<1>a. pc'[a] \in SendLabels /\ stack'[a] = <<"idle">>
  BY DEF Sends, Home
<1>1. CASE Sends(a) /\ cur'[a] = cur[a]
  <2>1. running /\ NoDisconnect /\ cur[a] \notin Unreliable
    BY <1>0, <1>1 DEF Pointers
  <2>2. pc[a] # "idle"
    BY <1>1 DEF Sends, SendLabels
  <2>3. running' = running
    BY <1>0, <2>2, QuitNext DEF Destroy
  <2>4. QED
    BY <1>1, <2>1, <2>3
<1>2. CASE App(a)
  <2>1. AppStep(a)
    BY <1>0, <1>2, AppIs
  <2>2. ~AppOutside(a) /\ ~AppClears(a)
    BY <1>a, LabelSets DEF AppOutside, AppClears
  <2>3. \A r : ~AppInside(a, r)
    BY <1>a DEF AppInside, SendLabels
  <2>4. pc[a] = "idle" /\ pc'[a] = "send" /\ stack'[a] = <<"idle">>
    BY <2>1, <2>2, <2>3 DEF AppStep, AppSends
  <2>5. ~\E i \in IDs : SubPeer(a, i)
    BY DEF KeepsToRules, SubPeer, MayCall
  <2>6. TypeOK
    BY <1>0 DEF TypeInv
  <2>7. \E p \in Peers : SendMessage(a, p)
    <3>1. {"insert", "idle", "clear", "join"} \subseteq Labels /\ a \in Threads
      BY DEF Labels
    <3>2. ASSUME NEW label \in {"insert", "idle", "clear", "join"}, pc' = [pc EXCEPT ![a] = label]
          PROVE  FALSE
      BY <2>4, <2>6, <3>1, <3>2 DEF TypeOK
    <3>3. ~Clear(a) /\ ~Insert(a) /\ ~EraseID(a) /\ ~Remove(a) /\ ~Join(a)
      BY <2>4 DEF Clear, Insert, EraseID, Remove, Join, At
    <3>4. QED
      BY <1>2, <2>5, <3>2, <3>3 DEF App, AddPeer, Disconnect, Destroy, Move, Call, Goto
  <2>8. PICK p \in Peers : SendMessage(a, p)
    BY <2>7
  <2>9. cur'[a] = p /\ p \in Contacts /\ running /\ "sendMessage" \in Calls[a]
    BY <2>6, <2>8 DEF SendMessage, MayCall, Call, TypeOK
  <2>10. running' = running
    BY <2>8 DEF SendMessage, netVars
  <2>11. QED
    BY <2>9, <2>10 DEF KeepsToRules, NoDisconnect
<1>3. CASE PeerNext(a)
  <2>1. Sends(a) /\ cur'[a] = cur[a]
    <3>1. InMethodStep(a)
      BY <1>0, <1>3, MethodIs
    <3>2. ~Deleting(a) /\ ~Leaving(a)
      BY OneMethodNext DEF Deleting, Leaving
    <3>3. ~Deleted(a) /\ ~Sent(a) /\ ~Left(a)
      BY <1>a, RestHeads DEF Deleted, Rests, Sent, Home, Left, SendLabels
    <3>4. QED
      BY <3>1, <3>2, <3>3 DEF InMethodStep, Sending, Keeps
  <2>2. QED
    BY <1>1, <2>1
<1>4. CASE pc'[a] = pc[a] /\ stack'[a] = stack[a] /\ cur'[a] = cur[a]
  BY <1>1, <1>4 DEF Sends
<1>5. QED
  BY <1>0, <1>2, <1>3, <1>4, OthersStay

LEMMA PointersNext ==
    ASSUME KeepsToRules, RulesInv, [Next]_vars
    PROVE  Pointers'
<1> USE ThreadNames
<1>0. TypeInv /\ TypeInv' /\ Births /\ Pointers /\ Deleters /\ Holding
  BY TypeInvNext DEF RulesInv, HoldInv, ExistInv
<1>1. \A a \in AppThreads : Sends(a)' => running' /\ NoDisconnect /\ cur'[a] \notin Unreliable
  BY SendersNext
<1>2. ASSUME NEW a \in AppThreads, pc'[a] = "join" PROVE ~running'
  <2>1. CASE pc[a] = "join"
    BY <1>0, <2>1, QuitNext DEF Pointers
  <2>2. CASE pc[a] # "join"
    <3>1. ~PeerNext(a)
      <4>1. SUFFICES ASSUME PeerNext(a) PROVE FALSE
        OBVIOUS
      <4>2. InMethodStep(a)
        BY <1>0, <4>1, MethodIs
      <4>3. pc'[a] \in PeerLabels \cup {"idle", "clear", "pruneErase", "scanErase", "goodbye"}
        BY <4>2, RestHeads DEF InMethodStep, Deleting, Deletes, Deleted, Rests, Sending, Sent, Sends, Home,
              Leaving, Left, Leaves, PeerLabels
      <4>4. QED
        BY <1>2, <4>3 DEF PeerLabels, SendLabels
    <3>2. App(a)
      BY <1>0, <1>2, <2>2, <3>1, OthersStay
    <3>3. Destroy(a)
      <4>1. TypeOK /\ a \in Threads
        BY <1>0 DEF TypeInv
      <4>2. ASSUME NEW label \in {"insert", "idle", "eraseID", "remove", "send", "clear", "delete"},
                   pc' = [pc EXCEPT ![a] = label]
            PROVE  FALSE
        BY <1>2, <4>1, <4>2 DEF TypeOK
      <4>3. ASSUME Clear(a), Return(a) PROVE FALSE
        <5>1. Clearing(a)
          BY <1>0, <4>1, <4>3, AppLabels, LabelSets DEF Clear, At, TypeInv, Control, Here, InMethod, Sends, Leaves,
                Deletes, PeerLabels, SendLabels
        <5>2. pc'[a] = Head(stack[a]) /\ Head(stack[a]) \in {"idle", "done"}
          BY <4>1, <4>3, <5>1, RestHeads DEF Return, Clearing, TypeOK
        <5>3. QED
          BY <1>2, <5>2
      <4>4. QED
        BY <3>2, <4>2, <4>3 DEF App, AddPeer, SendMessage, SubPeer, EraseID, Remove, Insert, Disconnect, Clear, Join,
              Move, Call, Goto
    <3>4. QED
      BY <3>3 DEF Destroy
  <2>3. QED
    BY <2>1, <2>2
<1>3. ASSUME pc'[Net] = "udpPeer" PROVE NoDisconnect /\ cur'[Net] \notin Unreliable
  <2>1. CASE pc[Net] = "udpPeer" /\ cur'[Net] = cur[Net]
    BY <1>0, <2>1 DEF Pointers
  <2>2. CASE Outside
    <3>1. pc[Net] = "udp"
      BY <1>0, <1>3, <2>2, OutsideIs DEF Outside
    <3>2. UdpFind
      BY <2>2, <3>1 DEF Outside, Enter, While, Unlock, Select, UdpReceive, LockScan, In, At
    <3>3. ~Goto(Net, "lockScan")
      BY <1>0, <1>3, MoveTo DEF Goto, Labels, TypeInv, TypeOK
    <3>4. PICK i \in IDs : "data" \in MaySay[byID[i]] /\ byID[i] # NULL /\ Move(Net, "udpPeer", byID[i])
      BY <3>2, <3>3 DEF UdpFind
    <3>5. byID[i] \in Peers /\ cur'[Net] = byID[i]
      BY <1>0, <3>4 DEF TypeInv, TypeOK, Move
    <3>6. QED
      BY <3>4, <3>5 DEF KeepsToRules, NoDisconnect
  <2>3. ~Within
    BY <1>0, <1>3, InsideIs DEF Inside, LoopStep, EraseStep
  <2>4. ~PeerNext(Net)
    <3>1. SUFFICES ASSUME PeerNext(Net) PROVE FALSE
      OBVIOUS
    <3>2. InMethodStep(Net)
      BY <1>0, <3>1, MethodIs
    <3>3. pc'[Net] \in PeerLabels \cup {"idle", "clear", "pruneErase", "scanErase", "goodbye"}
      BY <3>2, RestHeads DEF InMethodStep, Deleting, Deletes, Deleted, Rests, Sending, Sent, Sends, Home,
            Leaving, Left, Leaves, PeerLabels
    <3>4. QED
      BY <1>3, <3>3 DEF PeerLabels, SendLabels
  <2>5. QED
    BY <1>0, <1>3, <2>1, <2>2, <2>3, <2>4, OthersStay
<1>4. ASSUME NoDisconnect
      PROVE  /\ \A a \in AppThreads : HoldsPeers(a)' => ~running' /\ pc'[Net] \in {"enter", "while", "ended"}
             /\ \/ ~running' /\ pc'[Net] \in {"enter", "while", "ended"}
                \/ \A p \in Peers \ Unreliable : mem'[p] # "freed"
  <2>1. Quit => ~running' /\ pc'[Net] \in {"enter", "while", "ended"}
    BY <1>0, QuitNext
  <2>2. ASSUME NEW a \in AppThreads, HoldsPeers(a)', ~HoldsPeers(a) PROVE Quit
    <3>1. mxPeers' = a /\ mxPeers # a
      BY <1>0, <2>2 DEF TypeInv, Control
    <3>2. CASE \E b \in AppThreads : Join(b)
      <4>1. PICK b \in AppThreads : Join(b)
        BY <3>2
      <4>2. pc[Net] \in {"enter", "ended"} /\ pc[b] = "join"
        BY <4>1 DEF Join, At
      <4>3. QED
        BY <1>0, <4>2 DEF Pointers, Quit
    <3>3. CASE ~\E b \in AppThreads : Join(b)
      <4>1. \A b \in AppThreads : ~Disconnect(b)
        BY <1>4 DEF NoDisconnect, Disconnect, MayCall
      <4>2. ASSUME NEW b \in AppThreads, App(b) PROVE FALSE
        <5>1. mxPeers' \in {mxPeers, NULL}
          BY <3>3, <4>1, <4>2 DEF App, AddPeer, SendMessage, SubPeer, EraseID, Remove, Insert, Clear, Destroy, netVars
        <5>2. QED
          BY <3>1, <5>1
      <4>3. ASSUME Outside PROVE FALSE
        <5>1. mxPeers' \in {mxPeers, NULL, Net}
          BY <1>0, <4>3, OutsideIs DEF Outside, Acts, LockStep
        <5>2. QED
          BY <3>1, <5>1
      <4>4. ASSUME Within PROVE FALSE
        BY <1>0, <3>1, <4>4, InsideIs DEF Inside
      <4>5. ASSUME NEW t \in Threads, PeerNext(t) PROVE FALSE
        BY <1>0, <3>1, <4>5, MethodIs DEF netVars
      <4>6. ASSUME Broadcast \/ NextTarget PROVE FALSE
        BY <1>0, <3>1, <4>6, WorkerIs DEF netVars
      <4>7. QED
        BY <3>1, <4>2, <4>3, <4>4, <4>5, <4>6, NextIs DEF Quiet, netVars
    <3>4. QED
      BY <3>2, <3>3
  <2>3. \A a \in AppThreads : HoldsPeers(a) => Quit
    BY <1>0, <1>4 DEF Pointers
  <2>4. ASSUME ~Quit, NEW p \in Peers \ Unreliable, mem'[p] = "freed" PROVE FALSE
    <3>1. mem[p] # "freed"
      BY <1>0, <1>4, <2>4 DEF Pointers
    <3>2. PICK t \in Threads : Free(t) /\ PeerNext(t) /\ cur[t] = p
      BY <1>0, <2>4, <3>1, OnlyFree
    <3>3. pc[t] = "free"
      BY <3>2 DEF Free, In, At
    <3>4. PICK r \in Rests(t) : Deletes(t, r)
      BY <1>0, <3>2, <3>3, MethodCalls DEF Sends, Leaves, SendLabels, PeerLabels
    <3>5. CASE t = Net
      BY <1>0, <2>4, <3>2, <3>4, <3>5 DEF Holding, NetDeletes
    <3>6. CASE t # Net
      <4>1. t \in AppThreads /\ r # <<"idle">>
        BY <1>0, <3>4, <3>6, RestsIs DEF Deleters
      <4>2. HoldsPeers(t)
        BY <1>0, <3>4, <3>6, <4>1, DeleterIs DEF TypeInv, Control
      <4>3. QED
        BY <2>3, <2>4, <4>1, <4>2
    <3>7. QED
      BY <3>5, <3>6
  <2>5. QED
    BY <2>1, <2>2, <2>3, <2>4
<1>5. QED
  BY <1>1, <1>2, <1>3, <1>4 DEF Pointers, Quit

LEMMA SaidNext ==
    ASSUME KeepsToRules, RulesInv, [Next]_vars
    PROVE  Said'
<1> USE ThreadNames
<1>0. TypeInv /\ Births /\ Said /\ PeersOK /\ batch \in Seq(Kinds) /\ listening \in SUBSET Peers
  BY TypeParts DEF RulesInv, HoldInv, ExistInv, TypeInv, NetOK
<1>1. ASSUME NEW p \in Peers PROVE Range(stream'[p]) \subseteq MaySay[p]
  <2>0. Range(stream[p]) \subseteq MaySay[p] /\ stream[p] \in Seq(Kinds)
    BY <1>0 DEF Said, PeersOK
  <2>1. CASE stream'[p] = stream[p]
    BY <2>0, <2>1
  <2>2. CASE stream'[p] = << >>
    BY <2>2 DEF Range
  <2>3. CASE \E kind \in MaySay[p] : kind \in Kinds /\ stream'[p] = Append(stream[p], kind)
    <3>1. PICK kind \in MaySay[p] : kind \in Kinds /\ stream'[p] = Append(stream[p], kind)
      BY <2>3
    <3>2. \A i \in DOMAIN Append(stream[p], kind) :
              Append(stream[p], kind)[i] \in {kind} \cup {stream[p][j] : j \in DOMAIN stream[p]}
      BY <2>0, <3>1
    <3>3. QED
      BY <2>0, <3>1, <3>2 DEF Range
  <2>4. CASE \E k \in 1 .. Len(stream[p]) : stream'[p] = SubSeq(stream[p], k + 1, Len(stream[p]))
    <3>1. PICK k \in 1 .. Len(stream[p]) : stream'[p] = SubSeq(stream[p], k + 1, Len(stream[p]))
      BY <2>4
    <3>2. \A i \in DOMAIN SubSeq(stream[p], k + 1, Len(stream[p])) :
              SubSeq(stream[p], k + 1, Len(stream[p]))[i] \in {stream[p][j] : j \in DOMAIN stream[p]}
      BY <2>0, <3>1
    <3>3. QED
      BY <2>0, <3>1, <3>2 DEF Range
  <2>5. CASE \E a \in AppThreads : App(a)
    <3>1. PICK a \in AppThreads : App(a)
      BY <2>5
    <3>2. UNCHANGED stream
      BY <3>1 DEF App, AddPeer, SendMessage, SubPeer, EraseID, Remove, Insert, Disconnect, Clear, Destroy, Join, remoteVars
    <3>3. QED
      BY <2>1, <3>2
  <2>6. CASE Broadcast \/ NextTarget
    BY <1>0, <2>1, <2>6, WorkerIs DEF remoteVars
  <2>7. CASE Outside
    BY <2>1, <2>7 DEF Outside, Enter, While, Unlock, Select, UdpFind, UdpReceive, LockScan, remoteVars
  <2>8. CASE Within
    <3>1. CASE Read
      <4>1. cur[Net] \in Peers
        BY <1>0, <2>8, InsideIs DEF Inside
      <4>2. \/ stream' = stream
            \/ \E k \in 1 .. Len(stream[cur[Net]]) :
                  stream' = [stream EXCEPT ![cur[Net]] = SubSeq(@, k + 1, Len(@))]
        BY <3>1 DEF Read
      <4>3. stream \in [Peers -> Seq(Kinds)]
        BY <1>0 DEF PeersOK
      <4>4. CASE \E k \in 1 .. Len(stream[cur[Net]]) :
                  stream' = [stream EXCEPT ![cur[Net]] = SubSeq(@, k + 1, Len(@))]
        <5>1. PICK k \in 1 .. Len(stream[cur[Net]]) :
                  stream' = [stream EXCEPT ![cur[Net]] = SubSeq(stream[cur[Net]], k + 1, Len(stream[cur[Net]]))]
          BY <4>4
        <5>2. CASE cur[Net] = p
          <6>1. stream'[p] = SubSeq(stream[p], k + 1, Len(stream[p]))
            BY <4>3, <5>1, <5>2, Zenon
          <6>2. k \in 1 .. Len(stream[p])
            BY <5>1, <5>2, Zenon
          <6>3. QED
            BY <2>4, <6>1, <6>2
        <5>3. CASE cur[Net] # p
          <6>1. stream'[p] = stream[p]
            BY <4>3, <5>1, <5>3, Zenon
          <6>2. QED
            BY <2>1, <6>1
        <5>4. QED
          BY <5>2, <5>3
      <4>5. QED
        BY <2>1, <4>2, <4>4
    <3>2. CASE ~Read
      BY <2>1, <2>8, <3>2 DEF Within, Prune, PruneErase, Scan, ReadFailed, ScanErase, HandleData,
            HandleSubscribe, HandleGoodbye, Goodbye, remoteVars
    <3>3. QED
      BY <3>1, <3>2
  <2>9. ASSUME NEW t \in Threads, PeerNext(t) PROVE Range(stream'[p]) \subseteq MaySay[p]
    <3>1. stream' = stream \/ stream' = [stream EXCEPT ![cur[t]] = << >>]
      BY <2>9 DEF PeerNext, Send, Reconnect, Recheck, Write, Delete, Unregister, Drop, Free,
            CloseSockets, remoteVars
    <3>2. QED
      BY <1>0, <2>1, <2>2, <3>1 DEF PeersOK
  <2>10. CASE Quiet
    <3>1. ASSUME NEW q \in Peers, Remote(q)
          PROVE  \/ stream' = stream
                 \/ stream' = [stream EXCEPT ![q] = << >>]
                 \/ \E kind \in Kinds : kind \in MaySay[q] /\ stream' = [stream EXCEPT ![q] = Append(@, kind)]
      BY <3>1 DEF Remote, Say, CloseSilently, Break
    <3>2. CASE UNCHANGED <<tcp, remoteVars>>
      BY <2>1, <3>2 DEF remoteVars
    <3>3. ASSUME NEW q \in Peers, Remote(q) PROVE Range(stream'[p]) \subseteq MaySay[p]
      <4>1. CASE q = p
        BY <1>0, <2>1, <2>2, <2>3, <3>1, <3>3, <4>1 DEF PeersOK
      <4>2. CASE q # p
        BY <1>0, <2>1, <3>1, <3>3, <4>2 DEF PeersOK
      <4>3. QED
        BY <4>1, <4>2
    <3>4. QED
      BY <2>10, <3>2, <3>3 DEF Quiet
  <2>11. QED
    BY <2>5, <2>6, <2>7, <2>8, <2>9, <2>10, NextIs
<1>2. ASSUME pc'[Net] = "handle" PROVE Range(batch') \subseteq MaySay[cur'[Net]]
  <2>1. CASE pc'[Net] = pc[Net] /\ cur'[Net] = cur[Net] /\ batch' = batch
    BY <1>0, <1>2, <2>1 DEF Said
  <2>2. CASE Within
    <3>1. /\ cur[Net] \in Peers /\ cur'[Net] = cur[Net] /\ pc[Net] \in {"read", "handle"}
          /\ TypeInv
      BY <1>0, <1>2, <2>2, InsideIs DEF Inside, LoopStep, EraseStep, Keeps
    <3>2. CASE pc[Net] = "read"
      <4>1. Read
        BY <2>2, <3>2 DEF Within, Prune, PruneErase, Scan, ReadFailed, ScanErase, HandleData,
              HandleSubscribe, HandleGoodbye, Goodbye, At
      <4>2. PICK k \in 1 .. Len(stream[cur[Net]]) : batch' = SubSeq(stream[cur[Net]], 1, k)
        <5>1. SUFFICES ASSUME Goto(Net, "readFailed") \/ Move(Net, "scan", After(list, cur[Net])) PROVE FALSE
          BY <4>1 DEF Read
        <5>2. TypeOK
          BY <1>0 DEF TypeInv
        <5>3. QED
          BY <1>2, <5>1, <5>2 DEF Goto, Move, TypeOK
      <4>3. stream[cur[Net]] \in Seq(Kinds) /\ Range(stream[cur[Net]]) \subseteq MaySay[cur[Net]]
        BY <1>0, <3>1 DEF Said, PeersOK
      <4>4. \A i \in DOMAIN SubSeq(stream[cur[Net]], 1, k) :
                SubSeq(stream[cur[Net]], 1, k)[i] \in {stream[cur[Net]][j] : j \in DOMAIN stream[cur[Net]]}
        BY <4>3
      <4>5. QED
        BY <3>1, <4>2, <4>3, <4>4 DEF Range
    <3>3. CASE pc[Net] = "handle"
      <4>1. HandleData \/ HandleSubscribe \/ HandleGoodbye
        BY <2>2, <3>3 DEF Within, Prune, PruneErase, Scan, Read, ReadFailed, ScanErase, Goodbye, At
      <4>2. ~HandleGoodbye
        BY <1>0, <1>2 DEF HandleGoodbye, Call, Goto, Move, TypeInv, TypeOK
      <4>3. batch' = Tail(batch)
        BY <4>1, <4>2 DEF HandleData, HandleSubscribe, NextOfBatch
      <4>4. batch # << >> /\ Range(batch) \subseteq MaySay[cur[Net]]
        BY <1>0, <3>3 DEF Said, TypeInv, Iterates
      <4>5. \A i \in DOMAIN Tail(batch) : Tail(batch)[i] \in {batch[j] : j \in DOMAIN batch}
        BY <1>0, <4>4
      <4>6. QED
        BY <3>1, <4>3, <4>4, <4>5 DEF Range
    <3>4. QED
      BY <3>1, <3>2, <3>3
  <2>3. CASE Outside
    BY <1>0, <1>2, <2>3, OutsideIs DEF Outside
  <2>4. CASE PeerNext(Net)
    <3>1. InMethodStep(Net)
      BY <1>0, <2>4, MethodIs
    <3>2. pc'[Net] \in PeerLabels \cup {"idle", "clear", "pruneErase", "scanErase", "goodbye"}
      BY <3>1, RestHeads DEF InMethodStep, Deleting, Deletes, Deleted, Rests, Sending, Sent, Sends, Home,
            Leaving, Left, Leaves, PeerLabels
    <3>3. QED
      BY <1>2, <3>2 DEF PeerLabels, SendLabels
  <2>5. CASE ~Within
    <3>1. batch' = batch
      <4>1. ASSUME NEW a \in AppThreads, App(a) PROVE batch' = batch
        BY <1>0, <4>1, AppIs
      <4>2. CASE Broadcast \/ NextTarget
        BY <1>0, <4>2, WorkerIs DEF netVars
      <4>3. CASE Outside
        BY <4>3 DEF Outside, Enter, While, Unlock, Select, UdpFind, UdpReceive, LockScan, netVars
      <4>4. CASE \E t \in Threads : PeerNext(t)
        BY <1>0, <4>4, MethodIs DEF netVars
      <4>5. CASE Quiet
        BY <4>5 DEF Quiet, netVars
      <4>6. QED
        BY <2>5, <4>1, <4>2, <4>3, <4>4, <4>5, NextIs
    <3>2. QED
      BY <1>0, <2>1, <2>3, <2>4, <2>5, <3>1, OthersStay
  <2>6. QED
    BY <2>2, <2>5
<1>3. listening' \cap Unreliable = {}
  <2>1. CASE listening' \subseteq listening
    BY <1>0, <2>1 DEF Said
  <2>2. CASE HandleSubscribe /\ listening' = listening \cup {cur[Net]}
    <3>1. pc[Net] = "handle" /\ Head(batch) = "subscribe" /\ fault = "none"
      BY <2>2 DEF HandleSubscribe, At
    <3>2. batch # << >> /\ Range(batch) \subseteq MaySay[cur[Net]] /\ cur[Net] \in Peers
      BY <1>0, <3>1, BusyCur, InsideAt, NetLabels DEF Said, TypeInv, Iterates
    <3>3. Head(batch) = batch[1] /\ 1 \in DOMAIN batch
      BY <1>0, <3>2
    <3>4. "subscribe" \in MaySay[cur[Net]]
      BY <3>1, <3>2, <3>3 DEF Range
    <3>5. cur[Net] \notin Unreliable
      BY <3>4 DEF KeepsToRules
    <3>6. QED
      BY <1>0, <2>2, <3>5 DEF Said
  <2>3. QED
    BY <1>0, <2>1, <2>2, ListeningNext
<1>4. QED
  BY <1>1, <1>2, <1>3 DEF Said

LEMMA RulesNext ==
    ASSUME KeepsToRules, RulesInv, [Next]_vars
    PROVE  RulesInv'
<1>1. HoldInv'
  <2>1. ExistInv'
    BY TypeInvNext, ListedExistNext, DeathsNext DEF RulesInv, HoldInv, ExistInv
  <2>2. QED
    BY <2>1, HoldingNext, ListedHoldNext, ListenersNext, ByKeyNext, ErasedNext
       DEF RulesInv, HoldInv, ExistInv
<1>2. Deleters'
  BY DeletersNext
<1>3. QED
  BY <1>1, <1>2, SaidNext, PointersNext DEF RulesInv

\* Nobody is about to use a deleted Peer.
LEMMA NobodyUsesFreed ==
    ASSUME KeepsToRules, RulesInv, NEW t \in Threads
    PROVE  ~UseFreed(t)
<1> USE ThreadNames
<1>0. TypeInv /\ Births /\ Deaths /\ Listeners /\ Said /\ Deleters /\ Pointers /\ PeersOK
  BY TypeParts DEF RulesInv, HoldInv, ExistInv, TypeInv
<1>1. SUFFICES ASSUME fault = "none", pc[t] \in PeerLabels \cup {"udpPeer"}, mem[cur[t]] = "freed" PROVE FALSE
  BY DEF UseFreed
<1>2. CASE pc[t] = "udpPeer"
  <2>1. t = Net
    <3>1. pc[t] \notin PeerLabels \cup {"clear"}
      BY <1>2 DEF PeerLabels, SendLabels
    <3>2. pc[t] \in OwnLabels(t)
      BY <1>0, <3>1, MethodLabels DEF TypeInv, Control, Here, Clearing
    <3>3. QED
      BY <1>2, <3>2 DEF OwnLabels
  <2>2. NoDisconnect /\ cur[Net] \notin Unreliable /\ ~Quit
    BY <1>0, <1>2, <2>1 DEF Pointers, Quit
  <2>3. cur[Net] \in Peers
    BY <1>0, <1>2, <2>1, NetLabels DEF TypeInv, TypeOK, Control, Here
  <2>4. QED
    BY <1>0, <1>1, <2>1, <2>2, <2>3 DEF Pointers
<1>3. CASE pc[t] \in PeerLabels
  <2>1. cur[t] \in Peers
    BY <1>0, <1>3, AtMethod
  <2>2. CASE Sends(t) /\ t = Worker
    <3>1. cur[t] \in listening
      BY <1>0, <2>2 DEF Sends, Listeners
    <3>2. QED
      BY <1>0, <1>1, <2>1, <3>1 DEF Said, Listeners
  <2>3. CASE Sends(t) /\ t \in AppThreads
    <3>1. running /\ NoDisconnect /\ cur[t] \notin Unreliable
      BY <1>0, <2>3 DEF Pointers
    <3>2. QED
      BY <1>0, <1>1, <2>1, <3>1 DEF Pointers, Quit
  <2>4. ~Leaves(t)
    BY <1>0, <1>1 DEF Deaths, Leaves
  <2>5. \A r \in Rests(t) : ~Deletes(t, r)
    BY <1>0, <1>1 DEF Deleters
  <2>6. QED
    BY <1>0, <1>3, <2>2, <2>3, <2>4, <2>5, MethodCalls DEF Sends
<1>4. QED
  BY <1>1, <1>2, <1>3

LEMMA FaultNext ==
    ASSUME KeepsToRules, RulesInv, [Next]_vars
    PROVE  fault' \in {fault, "freedNetwork"}
<1>0. TypeInv
  BY DEF RulesInv, HoldInv, ExistInv
<1>1. ASSUME NEW a \in AppThreads, App(a) PROVE fault' = fault
  <2>1. ~Remove(a)
    BY DEF RulesInv, Deleters, Remove, At
  <2>2. QED
    BY <1>1, <2>1 DEF App, AddPeer, SendMessage, SubPeer, EraseID, Insert, Disconnect, Clear, Destroy, Join
<1>2. CASE Broadcast \/ NextTarget
  BY <1>0, <1>2, WorkerIs
<1>3. CASE Run
  <2>1. CASE Outside
    BY <1>0, <2>1, OutsideIs DEF Outside
  <2>2. CASE Within
    BY <1>0, <2>2, InsideIs DEF Inside
  <2>3. CASE EnterFreed
    BY <2>3 DEF EnterFreed
  <2>4. QED
    BY <1>3, <2>1, <2>2, <2>3 DEF Run, Outside, Within
<1>4. ASSUME NEW t \in Threads, PeerStep(t) PROVE fault' = fault
  BY <1>0, <1>4, MethodIs, NobodyUsesFreed DEF PeerStep, PeerNext
<1>5. ASSUME NEW p \in Peers, Remote(p) PROVE fault' = fault
  BY <1>5 DEF Remote, Say, CloseSilently, Break, control
<1>6. CASE UNCHANGED vars
  BY <1>6 DEF vars, control
<1>7. QED
  BY <1>1, <1>2, <1>3, <1>4, <1>5, <1>6 DEF Next, Over

\* In a program that keeps to the rules no thread uses a deleted Peer, whatever
\* the threads, the brokers and the remote programs do at the same time
\* (Peer2PeerNetwork.cpp:48-60, 331, 339-400, Peer.cpp:63-74).
THEOREM NoUseAfterDelete == Spec => []NoPeerUsedAfterDelete
<1>1. CASE KeepsToRules
  <2> DEFINE Right == fault \notin {"freedPeer", "lostIterator"}
  <2>1. Init => Said /\ Deleters /\ Pointers /\ Right
    <3>1. SUFFICES ASSUME Init PROVE Said /\ Deleters /\ Pointers /\ Right
      OBVIOUS
    <3>2. /\ stream = [p \in Peers |-> << >>] /\ listening = {} /\ fault = "none"
          /\ pc = [t \in Threads |-> IF t = Net THEN "enter" ELSE "idle"]
          /\ stack = [t \in Threads |-> << >>] /\ mem = [p \in Peers |-> "unborn"]
      BY <3>1 DEF Init
    <3>3. \A t \in Threads : pc[t] \in {"enter", "idle"}
      BY <3>2
    <3>4. \A p \in Peers : Range(stream[p]) = {}
      BY <3>2 DEF Range
    <3>5. Said
      BY <3>2, <3>3, <3>4, ThreadNames DEF Said
    <3>6. \A t \in Threads : ~Sends(t) /\ ~Clearing(t) /\ \A r : ~Deletes(t, r)
      BY <3>3 DEF Sends, Clearing, Deletes, SendLabels
    <3>7. Deleters
      BY <3>3, <3>6, ThreadNames DEF Deleters
    <3>8. \A a \in AppThreads : ~HoldsPeers(a)
      BY <3>6, ThreadNames DEF HoldsPeers, InClear
    <3>9. Pointers
      BY <3>2, <3>3, <3>6, <3>8, ThreadNames DEF Pointers
    <3>10. QED
      BY <3>2, <3>5, <3>7, <3>9
  <2>2. HoldInv /\ Said /\ Deleters /\ Pointers /\ Right /\ [Next]_vars
           => (Said /\ Deleters /\ Pointers /\ Right)'
    <3>1. SUFFICES ASSUME RulesInv, Right, [Next]_vars PROVE (Said /\ Deleters /\ Pointers /\ Right)'
      BY DEF RulesInv
    <3>2. fault' \in {fault, "freedNetwork"}
      BY <1>1, <3>1, FaultNext
    <3>3. RulesInv'
      BY <1>1, <3>1, RulesNext
    <3>4. QED
      BY <3>1, <3>2, <3>3 DEF RulesInv
  <2> HIDE DEF Right
  <2>3. Spec => []Right
    BY <2>1, <2>2, HoldInductive, PTL DEF Spec
  <2>4. Right => NoPeerUsedAfterDelete
    BY DEF Right, NoPeerUsedAfterDelete
  <2>5. QED
    BY <2>3, <2>4, PTL
<1>2. CASE ~KeepsToRules
  <2>1. NoPeerUsedAfterDelete
    BY <1>2 DEF NoPeerUsedAfterDelete
  <2>2. QED
    BY <2>1, PTL
<1>3. QED
  BY <1>1, <1>2
=============================================================================
