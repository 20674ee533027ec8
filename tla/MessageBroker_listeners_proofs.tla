------------------- MODULE MessageBroker_listeners_proofs -------------------
(* What the listeners of a MessageBroker get, for any numbers of threads,    *)
(* listeners and messages; and what holds of programs that do not use the    *)
(* modes of the broker.                                                      *)
EXTENDS MessageBroker_proofs, Integers, FiniteSetTheorems

USE DEF Threads, At, Goto, MayCall, Jump, Free, Enqueue, Front
USE DEF flags, mutexes, locals, history
USE DEF AppLabels, WorkerLabels, DeliverLabels

-----------------------------------------------------------------------------
(* Invariants.  Nobody has accepted a message before it is handed round.     *)

Given(g, m) == \E l \in Listeners : m \in Range(g[l])

Before == (DeliverLabels \ {"broadcast"}) \cup {"ifSynchronous", "push"}
Untouched ==
    /\ \A t \in Threads : pc[t] \in Before => ~Given(got, msg[t])
    /\ \A i \in 1 .. Len(queue) : i > 1 \/ mxQueue = NULL => ~Given(got, queue[i])

RoundInv == IInv /\ Untouched /\ OncePerRegistration

\* Programs that never request exclusive messaging.
NeverExclusive == \A t \in AppThreads : "requestExclusive" \notin Calls[t]

NoneExclusive ==
    /\ exclusive = NULL
    /\ \A t \in Threads : pc[t] \notin {"grant", "lockExclusive", "callExclusive"}

\* A worker pops a message when every listener that was there when it was
\* queued has it, and gives it to nobody when no such listener is left.
ReadyToPop ==
    \A w \in Workers, l \in Range(listeners) :
        /\ pc[w] = "pop" /\ since[l] <= popped => pushed[popped + 1] \in Range(got[l])
        /\ pc[w] = "elseExclusive" => since[l] > popped

SkipInv == RoundInv /\ NoneExclusive /\ ReadyToPop /\ NoListenerSkipped

\* Programs with one pumping thread and continuous processing from the start.
OnePump ==
    /\ StartContinuous = TRUE
    /\ \A t \in AppThreads :
          /\ Calls[t] \cap {"requestExclusive", "setContinuous", "setSynchronous"} = {}
          /\ \A u \in AppThreads :
                "pumpMessage" \in Calls[t] /\ "pumpMessage" \in Calls[u] => t = u

PumpingAt(t, label) ==
    /\ label \in {"idle", "ifSynchronous", "push", "ifRunThread", "start"}
    /\ label # "idle" => "pumpMessage" \in Calls[t]

Continuous ==
    /\ runContinuously = TRUE /\ synchronous = FALSE /\ exclusive = NULL /\ fault = "none"
    /\ \A t \in AppThreads : PumpingAt(t, pc[t]) /\ (pc[t] = "start" => runThread = FALSE)
    /\ \A w \in Workers :
          /\ pc[w] \notin {"ifEmpty", "quit", "lockExclusive", "callExclusive"}
          /\ pc[w] # "unborn" => runThread = TRUE
          /\ pc[w] = "front" => queue # << >>
    /\ \A v, w \in Workers : pc[v] # "unborn" /\ pc[w] # "unborn" => v = w

OneWorkerInv == IInv /\ Continuous

-----------------------------------------------------------------------------
(* How often something is in a sequence. *)

PlacesOf(s, y) == {i \in DOMAIN s : s[i] = y}

LEMMA PlacesFinite ==
    ASSUME NEW S, NEW s \in Seq(S), NEW y
    PROVE  IsFiniteSet(PlacesOf(s, y)) /\ Copies(s, y) = Cardinality(PlacesOf(s, y))
           /\ Copies(s, y) \in Nat
<1>1. Len(s) \in Int /\ 1 \in Int /\ DOMAIN s = 1 .. Len(s)
  OBVIOUS
<1>2. IsFiniteSet(1 .. Len(s))
  BY <1>1, FS_Interval
<1>3. PlacesOf(s, y) \in SUBSET (1 .. Len(s))
  BY <1>1 DEF PlacesOf
<1>4. IsFiniteSet(PlacesOf(s, y))
  BY <1>2, <1>3, FS_Subset
<1>5. Copies(s, y) = Cardinality(PlacesOf(s, y))
  BY DEF Copies, PlacesOf
<1>6. QED
  BY <1>4, <1>5, FS_CardinalityType

LEMMA CopiesPositive ==
    ASSUME NEW S, NEW s \in Seq(S), NEW y
    PROVE  Copies(s, y) = 0 <=> y \notin Range(s)
<1>1. Copies(s, y) = 0 <=> PlacesOf(s, y) = {}
  BY PlacesFinite, FS_EmptySet
<1>2. QED
  BY <1>1 DEF PlacesOf, Range

LEMMA CopiesAppend ==
    ASSUME NEW S, NEW s \in Seq(S), NEW x \in S, NEW y
    PROVE  Copies(Append(s, x), y) = Copies(s, y) + (IF x = y THEN 1 ELSE 0)
<1>1. /\ Len(s) \in Nat /\ DOMAIN s = 1 .. Len(s) /\ DOMAIN Append(s, x) = 1 .. Len(s) + 1
      /\ Append(s, x) \in Seq(S)
  OBVIOUS
<1>2. Append(s, x)[Len(s) + 1] = x /\ \A i \in 1 .. Len(s) : Append(s, x)[i] = s[i]
  OBVIOUS
<1>3. PlacesOf(Append(s, x), y) = PlacesOf(s, y) \cup (IF x = y THEN {Len(s) + 1} ELSE {})
  BY <1>1, <1>2 DEF PlacesOf
<1>4. Len(s) + 1 \notin PlacesOf(s, y)
  BY <1>1 DEF PlacesOf
<1>5. IsFiniteSet(PlacesOf(s, y)) /\ Copies(s, y) \in Nat
  BY PlacesFinite
<1>6. Cardinality(PlacesOf(s, y) \cup {Len(s) + 1}) = Cardinality(PlacesOf(s, y)) + 1
  BY <1>4, <1>5, FS_AddElement
<1>7. /\ Copies(s, y) = Cardinality(PlacesOf(s, y))
      /\ Copies(Append(s, x), y) = Cardinality(PlacesOf(Append(s, x), y))
  BY <1>1, PlacesFinite
<1>8. CASE x = y
  BY <1>3, <1>5, <1>6, <1>7, <1>8
<1>9. CASE x # y
  BY <1>3, <1>5, <1>7, <1>9
<1>10. QED
  BY <1>8, <1>9

LEMMA CopiesTail ==
    ASSUME NEW S, NEW s \in Seq(S), s # << >>, NEW y
    PROVE  Copies(s, y) = Copies(Tail(s), y) + (IF Head(s) = y THEN 1 ELSE 0)
<1>1. /\ Len(s) \in Nat \ {0} /\ DOMAIN s = 1 .. Len(s) /\ DOMAIN Tail(s) = 1 .. Len(s) - 1
      /\ Tail(s) \in Seq(S) /\ Head(s) = s[1]
      /\ \A i \in 1 .. Len(s) - 1 : Tail(s)[i] = s[i + 1]
  OBVIOUS
<1> DEFINE T == PlacesOf(Tail(s), y)
           U == PlacesOf(s, y) \ {1}
           f == [i \in T |-> i + 1]
<1>2. T \subseteq 1 .. Len(s) - 1 /\ U \subseteq 2 .. Len(s)
  BY <1>1 DEF PlacesOf
<1>3. f \in [T -> U]
  BY <1>1, <1>2 DEF PlacesOf
<1>4. \A i, j \in T : f[i] = f[j] => i = j
  BY <1>2
<1>5. \A k \in U : \E i \in T : f[i] = k
  <2>1. SUFFICES ASSUME NEW k \in U PROVE \E i \in T : f[i] = k
    OBVIOUS
  <2>2. k - 1 \in T
    BY <1>1, <1>2 DEF PlacesOf
  <2>3. f[k - 1] = k
    BY <1>2, <2>2
  <2>4. QED
    BY <2>2, <2>3
<1>6. f \in Bijection(T, U)
  BY <1>3, <1>4, <1>5
     DEF Bijection, Injection, Surjection, IsInjective
<1>7. ExistsBijection(T, U)
  BY <1>6 DEF ExistsBijection
<1>8. IsFiniteSet(T) /\ Copies(Tail(s), y) = Cardinality(T) /\ Copies(Tail(s), y) \in Nat
  BY <1>1, PlacesFinite
<1>9. IsFiniteSet(U) /\ Cardinality(U) = Cardinality(T)
  BY <1>7, <1>8, FS_Bijection
<1>10. Copies(s, y) = Cardinality(PlacesOf(s, y))
  BY PlacesFinite
<1>11. CASE Head(s) = y
  <2>1. PlacesOf(s, y) = U \cup {1} /\ 1 \notin U
    BY <1>1, <1>11 DEF PlacesOf
  <2>2. Cardinality(U \cup {1}) = Cardinality(U) + 1
    <3> HIDE DEF U
    <3>1. QED
      BY <1>9, <2>1, FS_AddElement
  <2>3. QED
    BY <1>8, <1>9, <1>10, <1>11, <2>1, <2>2
<1>12. CASE Head(s) # y
  <2>1. PlacesOf(s, y) = U
    BY <1>1, <1>12 DEF PlacesOf
  <2>2. Copies(s, y) = Copies(Tail(s), y)
    BY <1>8, <1>9, <1>10, <2>1, Zenon
  <2>3. QED
    BY <1>8, <1>12, <2>2
<1> HIDE DEF T, U
<1>13. QED
  BY <1>11, <1>12

\* A listener that is asked later stays on the list as often as it was.
LEMMA CopiesAskLater ==
    ASSUME NEW S, NEW s \in Seq(S), s # << >>, NEW y
    PROVE  Copies(AskLater(s), y) = Copies(s, y)
<1>1. Tail(s) \in Seq(S) /\ Head(s) \in S
  OBVIOUS
<1>2. \A r \in Seq(S) : \A x \in S :
          Copies(Append(r, x), y) = Copies(r, y) + (IF x = y THEN 1 ELSE 0)
  BY CopiesAppend
<1>3. Copies(AskLater(s), y) = Copies(Tail(s), y) + (IF Head(s) = y THEN 1 ELSE 0)
  BY <1>1, <1>2, Zenon DEF AskLater
<1>4. QED
  BY <1>3, CopiesTail

-----------------------------------------------------------------------------
(* Which steps give a message to a listener, and which move messages. *)

Gives(t, l) ==
    /\ pc[t] \in {"broadcast", "callExclusive"}
    /\ got' = [got EXCEPT ![l] = Append(@, msg[t])]
    /\ UNCHANGED <<queue, listeners, mxQueue, pushed, popped, since>>
    /\ \A u \in Threads \ {t} : pc'[u] = pc[u] /\ msg'[u] = msg[u] /\ wait'[u] = wait[u]
    /\ pc'[t] \notin Before
    /\ pc[t] = "callExclusive" => pc'[t] # "broadcast"

LEMMA GivesStep ==
    ASSUME TypeOK, Next
    PROVE  UNCHANGED got \/ \E t \in Threads, l \in Listeners : Gives(t, l)
<1> USE DEF TypeOK, PcType
<1>1. ASSUME NEW t \in AppThreads, App(t) PROVE UNCHANGED got
  BY <1>1 DEF App, PumpMessage, IfSynchronous, Push, IfRunThread, Start,
     RegisterListener, UnregisterListener, RequestExclusive, DiscardExclusive,
     Grant, Discard, EnableContinuous, DisableContinuous, EnableSynchronous,
     WriteSynchronous, Jump, history
<1>2. ASSUME NEW w \in Workers, Run(w) PROVE UNCHANGED got
  BY <1>2 DEF Run, Enter, While, Await, TakeFront, Pop, Delete, IfEmpty, Quit, Jump, history
<1>3. ASSUME NEW t \in Threads, NEW l \in Listeners, Accept(t, l) PROVE Gives(t, l)
  BY <1>3 DEF Accept, At, Gives, Before, mutexes
<1>4. ASSUME NEW t \in Threads, AcceptExclusive(t)
      PROVE  UNCHANGED got \/ \E l \in Listeners : Gives(t, l)
  <2>1. CASE exclusive = NULL
    BY <1>4, <2>1, NullIsNothing DEF AcceptExclusive
  <2>2. CASE exclusive \in Listeners
    <3>1. /\ pc[t] = "callExclusive" /\ pc'[t] \in {"pop", "idle"}
          /\ \A u \in Threads \ {t} : pc'[u] = pc[u] /\ msg'[u] = msg[u] /\ wait'[u] = wait[u]
      BY <1>4 DEF AcceptExclusive, At, Return, Goto
    <3>2. Gives(t, exclusive)
      BY <1>4, <3>1 DEF AcceptExclusive, Gives, Before, DeliverLabels
    <3>3. QED
      BY <2>2, <3>2
  <2>3. QED
    BY <2>1, <2>2
<1>5. ASSUME NEW t \in Threads,
             Deliver(t) \/ IfListeners(t) \/ ElseExclusive(t) \/ LockListener(t)
             \/ UnlockListener(t) \/ Refuse(t) \/ LockExclusive(t)
      PROVE  UNCHANGED got
  BY <1>5 DEF Deliver, IfListeners, ElseExclusive, LockListener, UnlockListener, Refuse,
     LockExclusive, Jump, history
<1>6. CASE Idle
  BY <1>6 DEF Idle, vars, history
<1>7. QED
  BY <1>1, <1>2, <1>3, <1>4, <1>5, <1>6 DEF Next, DeliverMessage

\* Every message is handed round by one thread, and not queued meanwhile.
LEMMA OneGiver ==
    ASSUME IInv, NEW t \in Threads, NEW u \in Threads, t # u,
           pc[t] \in DeliverLabels, pc[u] \in Before \cup {"broadcast"}
    PROVE  msg[u] # msg[t]
<1> USE NullIsNothing, ThreadsDisjoint DEF IInv
<1>1. /\ pc[u] \in DeliverLabels \cup {"ifSynchronous", "push"}
      /\ msg[t] # NULL /\ msg[u] # NULL
      /\ u \in Workers => pc[u] \in DeliverLabels
  BY DEF Before, DeliverLabels, HasMessage, TypeOK, PcType, WorkerLabels
<1>2. CASE t \in Workers /\ u \in Workers
  BY <1>1, <1>2 DEF PopsWhatItDelivers
<1>3. CASE t \in AppThreads /\ u \in AppThreads
  BY <1>1, <1>3 DEF InOnePlace
<1>4. CASE t \in Workers /\ u \in AppThreads
  <2>1. msg[t] \in Range(pushed)
    BY <1>4, Delivering
  <2>2. msg[u] \notin Range(pushed)
    BY <1>1, <1>4 DEF InOnePlace
  <2>3. QED
    BY <2>1, <2>2
<1>5. CASE t \in AppThreads /\ u \in Workers
  <2>1. msg[u] \in Range(pushed)
    BY <1>1, <1>5, Delivering
  <2>2. msg[t] \notin Range(pushed)
    BY <1>1, <1>5 DEF InOnePlace
  <2>3. QED
    BY <2>1, <2>2
<1>6. QED
  BY <1>2, <1>3, <1>4, <1>5 DEF Threads

\* The other messages of the queue, and all of them while nobody holds it, are
\* not the one that is handed round.
LEMMA GivenIsFirst ==
    ASSUME IInv, NEW t \in Threads, pc[t] \in DeliverLabels,
           NEW i \in 1 .. Len(queue), i > 1 \/ mxQueue = NULL
    PROVE  queue[i] # msg[t]
<1> USE NullIsNothing, ThreadsDisjoint DEF IInv
<1>1. /\ Len(pushed) = popped + Len(queue) /\ popped \in Nat /\ Len(queue) \in Nat
      /\ queue[i] = pushed[popped + i] /\ DOMAIN pushed = 1 .. Len(pushed)
  BY DEF QueueIsBacklog, TypeOK
<1>2. popped + i \in 1 .. Len(pushed)
  BY <1>1
<1>3. CASE t \in AppThreads
  <2>1. queue[i] \in Range(pushed)
    BY <1>1, <1>2 DEF Range
  <2>2. QED
    BY <1>3, <2>1, Delivering
<1>4. CASE t \in Workers
  <2>1. i > 1
    BY <1>4 DEF PopsWhatItDelivers
  <2>2. msg[t] = pushed[popped + 1] /\ popped + 1 \in 1 .. Len(pushed)
    BY <1>1, <1>4, Delivering
  <2>3. popped + i # popped + 1
    BY <1>1, <2>1
  <2>4. QED
    BY <1>1, <1>2, <2>2, <2>3 DEF PushedOnce
<1>5. QED
  BY <1>3, <1>4 DEF Threads

\* Only the other steps put a message where it waits to be handed round, change
\* the queue, or take or leave it.
Still ==
    /\ UNCHANGED <<queue, mxQueue>>
    /\ \A u \in Threads : pc'[u] \in Before => pc[u] \in Before /\ msg'[u] = msg[u]

LEMMA MovesStep ==
    ASSUME TypeOK, Next
    PROVE  \/ Still
           \/ \E t \in AppThreads, m \in Messages : PumpMessage(t, m)
           \/ \E t \in AppThreads : Push(t)
           \/ \E w \in Workers : TakeFront(w) \/ Pop(w)
<1> USE NullIsNothing, ThreadsDisjoint DEF TypeOK, PcType, Before, DeliverLabels, At, Goto, Jump,
        locals, mutexes, Still
<1>1. ASSUME NEW t \in AppThreads, IfSynchronous(t) \/ IfRunThread(t) PROVE Still
  BY <1>1 DEF IfSynchronous, IfRunThread
<1>2. ASSUME NEW t \in AppThreads, Start(t) PROVE Still
  BY <1>2 DEF Start
<1>3. ASSUME NEW t \in AppThreads, NEW l \in Listeners,
             \/ RegisterListener(t, l) \/ UnregisterListener(t, l)
             \/ RequestExclusive(t, l) \/ DiscardExclusive(t, l)
      PROVE  Still
  BY <1>3 DEF RegisterListener, UnregisterListener, RequestExclusive, DiscardExclusive
<1>4. ASSUME NEW t \in AppThreads, Grant(t) \/ Discard(t) \/ EnableContinuous(t)
             \/ DisableContinuous(t) \/ EnableSynchronous(t) \/ WriteSynchronous(t)
      PROVE  Still
  BY <1>4 DEF Grant, Discard, EnableContinuous, DisableContinuous, EnableSynchronous,
     WriteSynchronous
<1>5. ASSUME NEW w \in Workers,
             Enter(w) \/ While(w) \/ Await(w) \/ Delete(w) \/ IfEmpty(w) \/ Quit(w)
      PROVE  Still
  BY <1>5 DEF Enter, While, Await, Delete, IfEmpty, Quit
<1>6. ASSUME NEW t \in Threads,
             Deliver(t) \/ IfListeners(t) \/ LockListener(t) \/ Refuse(t) \/ LockExclusive(t)
      PROVE  Still
  BY <1>6 DEF Deliver, IfListeners, LockListener, Refuse, LockExclusive
<1>7. ASSUME NEW t \in Threads, ElseExclusive(t) PROVE Still
  BY <1>7 DEF ElseExclusive, Return
<1>8. ASSUME NEW t \in Threads, UnlockListener(t) \/ AcceptExclusive(t) PROVE Still
  BY <1>8 DEF UnlockListener, AcceptExclusive, Return
<1>9. ASSUME NEW t \in Threads, NEW l \in Listeners, Accept(t, l) PROVE Still
  BY <1>9 DEF Accept
<1>10. CASE Idle
  BY <1>10 DEF Idle, vars
<1> HIDE DEF Still, TypeOK, PcType, Before
<1>11. ASSUME NEW t \in AppThreads, App(t)
       PROVE  Still \/ Push(t) \/ \E m \in Messages : PumpMessage(t, m)
  BY <1>1, <1>2, <1>3, <1>4, <1>11 DEF App
<1>12. ASSUME NEW w \in Workers, Run(w) PROVE Still \/ TakeFront(w) \/ Pop(w)
  BY <1>5, <1>12 DEF Run
<1>13. ASSUME NEW t \in Threads, DeliverMessage(t) PROVE Still
  BY <1>6, <1>7, <1>8, <1>9, <1>13 DEF DeliverMessage
<1>14. QED
  BY <1>10, <1>11, <1>12, <1>13 DEF Next

LEMMA GivenStep ==
    ASSUME TypeOK, HasMessage, Next, NEW m
    PROVE  \/ Given(got', m) <=> Given(got, m)
           \/ \E t \in Threads, l \in Listeners :
                 Gives(t, l) /\ (Given(got', m) => Given(got, m) \/ m = msg[t])
<1>1. CASE UNCHANGED got
  BY <1>1 DEF Given
<1>2. ASSUME NEW t \in Threads, NEW l \in Listeners, Gives(t, l)
      PROVE  Given(got', m) => Given(got, m) \/ m = msg[t]
  <2>1. msg[t] \in Messages /\ got' = [got EXCEPT ![l] = Append(@, msg[t])]
    BY <1>2 DEF Gives, HasMessage, DeliverLabels, TypeOK
  <2>2. \A k \in Listeners : Range(got'[k]) \subseteq Range(got[k]) \cup {msg[t]}
    BY <2>1, RangeOfGot
  <2>3. QED
    BY <2>2 DEF Given
<1>3. QED
  BY <1>1, <1>2, GivesStep

LEMMA UntouchedStep ==
    ASSUME IInv, Untouched, Next
    PROVE  Untouched'
<1> USE NullIsNothing, ThreadsDisjoint
<1>1. TypeOK /\ HasMessage
  BY DEF IInv
\* A step that moves no message may give one to a listener.
<1>2. CASE Still
  <2>1. ASSUME NEW u \in Threads, pc'[u] \in Before PROVE ~Given(got', msg'[u])
    <3>1. pc[u] \in Before /\ msg'[u] = msg[u] /\ ~Given(got, msg[u])
      BY <1>2, <2>1 DEF Still, Untouched
    <3>2. ASSUME NEW t \in Threads, NEW l \in Listeners, Gives(t, l) PROVE msg[u] # msg[t]
      BY <2>1, <3>1, <3>2, OneGiver DEF Gives, DeliverLabels
    <3>3. ~Given(got', msg[u])
      BY <1>1, <3>1, <3>2, GivenStep
    <3>4. QED
      BY <3>1, <3>3
  <2>2. ASSUME NEW i \in 1 .. Len(queue), i > 1 \/ mxQueue = NULL PROVE ~Given(got', queue[i])
    <3>1. ~Given(got, queue[i])
      BY <2>2 DEF Untouched
    <3>2. ASSUME NEW t \in Threads, NEW l \in Listeners, Gives(t, l) PROVE queue[i] # msg[t]
      BY <2>2, <3>2, GivenIsFirst DEF Gives, DeliverLabels
    <3>3. QED
      BY <1>1, <3>1, <3>2, GivenStep
  <2>3. QED
    BY <1>2, <2>1, <2>2 DEF Still, Untouched, Given
<1>3. ASSUME NEW t \in AppThreads, NEW m \in Messages, PumpMessage(t, m) PROVE Untouched'
  <2>1. UNCHANGED <<queue, mxQueue, got>>
    BY <1>3 DEF PumpMessage, mutexes
  <2>2. ~Given(got, m)
    BY <1>3 DEF PumpMessage, IInv, InOnePlace, Given
  <2>3. \A u \in Threads : \/ pc'[u] = pc[u] /\ msg'[u] = msg[u]
                           \/ msg'[u] = m
    BY <1>1, <1>3 DEF PumpMessage, TypeOK, PcType, Goto
  <2>4. QED
    BY <2>1, <2>2, <2>3 DEF Untouched, Given
<1>4. ASSUME NEW t \in AppThreads, Push(t) PROVE Untouched'
  <2>1. /\ UNCHANGED <<mxQueue, got>> /\ mxQueue = NULL /\ queue' = Append(queue, msg[t])
        /\ pc[t] = "push"
    BY <1>4 DEF Push, mutexes, Free, Enqueue, At
  <2>2. ~Given(got, msg[t]) /\ msg[t] \in Messages /\ queue \in Seq(Messages)
    BY <1>1, <2>1 DEF Untouched, Before, HasMessage, TypeOK, Threads
  <2>3. /\ Len(queue') = Len(queue) + 1 /\ Len(queue) \in Nat
        /\ queue'[Len(queue) + 1] = msg[t]
        /\ \A i \in 1 .. Len(queue) : queue'[i] = queue[i]
    BY <2>1, <2>2
  <2>4. \A i \in 1 .. Len(queue') : ~Given(got, queue'[i])
    BY <2>1, <2>2, <2>3 DEF Untouched
  <2>5. \A u \in Threads : pc'[u] \in Before => pc[u] \in Before /\ msg'[u] = msg[u]
    BY <1>1, <1>4 DEF Push, TypeOK, PcType, Goto, Before, DeliverLabels
  <2>6. QED
    BY <2>1, <2>4, <2>5 DEF Untouched, Given
<1>5. ASSUME NEW w \in Workers, TakeFront(w) PROVE Untouched'
  <2>1. UNCHANGED <<queue, got>> /\ mxQueue = NULL /\ mxQueue' = w
    BY <1>5 DEF TakeFront, Free, history
  <2>2. CASE queue = << >>
    <3>1. UNCHANGED <<pc, msg>>
      BY <1>5, <2>2 DEF TakeFront
    <3>2. QED
      BY <2>1, <3>1 DEF Untouched, Given
  <2>3. CASE queue # << >>
    <3>1. Head(queue) = queue[1] /\ Len(queue) \in Nat \ {0} /\ 1 \in 1 .. Len(queue)
      BY <1>1, <2>3 DEF TypeOK
    <3>2. ~Given(got, queue[1])
      BY <2>1, <3>1 DEF Untouched
    <3>3. /\ \A u \in Threads \ {w} : pc'[u] = pc[u] /\ msg'[u] = msg[u]
          /\ msg'[w] = queue[1]
      BY <1>1, <1>5, <2>3, <3>1 DEF TakeFront, Goto, Front, TypeOK, PcType, Threads
    <3>4. \A i \in 1 .. Len(queue) : ~Given(got, queue[i])
      BY <2>1 DEF Untouched
    <3>5. QED
      BY <2>1, <3>2, <3>3, <3>4 DEF Untouched, Given
  <2>4. QED
    BY <2>2, <2>3
<1>6. ASSUME NEW w \in Workers, Pop(w) PROVE Untouched'
  <2>1. /\ UNCHANGED <<got, msg>> /\ queue' = Tail(queue)
        /\ \A u \in Threads : pc'[u] \in Before => pc[u] \in Before
    BY <1>1, <1>6 DEF Pop, locals, Goto, TypeOK, PcType, Before, DeliverLabels
  <2>2. queue # << >>
    BY <1>6 DEF Pop, At, IInv, PopsWhatItDelivers
  <2>3. /\ Len(queue') = Len(queue) - 1 /\ Len(queue) \in Nat
        /\ \A i \in 1 .. Len(queue') : queue'[i] = queue[i + 1]
    BY <1>1, <2>1, <2>2 DEF TypeOK
  <2>4. \A i \in 1 .. Len(queue') : ~Given(got, queue'[i])
    <3>1. SUFFICES ASSUME NEW i \in 1 .. Len(queue') PROVE ~Given(got, queue'[i])
      OBVIOUS
    <3>2. i + 1 \in 1 .. Len(queue) /\ i + 1 > 1
      BY <2>3
    <3>3. QED
      BY <2>3, <3>2 DEF Untouched
  <2>5. QED
    BY <2>1, <2>4 DEF Untouched, Given
<1>7. QED
  BY <1>1, <1>2, <1>3, <1>4, <1>5, <1>6, MovesStep

-----------------------------------------------------------------------------
(* A broadcast. *)

SameRound ==
    /\ UNCHANGED <<listeners, got>>
    /\ \A u \in Threads : pc'[u] = "broadcast" =>
          pc[u] = "broadcast" /\ msg'[u] = msg[u] /\ wait'[u] = wait[u]

LEMMA RoundStep ==
    ASSUME TypeOK, Next
    PROVE  \/ SameRound
           \/ \E t \in AppThreads, l \in Listeners :
                 RegisterListener(t, l) \/ UnregisterListener(t, l)
           \/ \E t \in Threads : LockListener(t) \/ Refuse(t) \/ AcceptExclusive(t)
           \/ \E t \in Threads, l \in Listeners : Accept(t, l)
<1> USE NullIsNothing, ThreadsDisjoint DEF TypeOK, PcType, SameRound
<1>1. ASSUME NEW t \in AppThreads,
             IfSynchronous(t) \/ IfRunThread(t) \/ Start(t) \/ \E m \in Messages : PumpMessage(t, m)
      PROVE  SameRound
  BY <1>1 DEF IfSynchronous, IfRunThread, Start, PumpMessage
<1>2. ASSUME NEW t \in AppThreads, Push(t) PROVE SameRound
  BY <1>2 DEF Push
<1>3. ASSUME NEW t \in AppThreads, NEW l \in Listeners,
             RequestExclusive(t, l) \/ DiscardExclusive(t, l)
      PROVE  SameRound
  BY <1>3 DEF RequestExclusive, DiscardExclusive
<1>4. ASSUME NEW t \in AppThreads, Grant(t) \/ Discard(t) \/ EnableContinuous(t)
             \/ DisableContinuous(t) \/ EnableSynchronous(t) \/ WriteSynchronous(t)
      PROVE  SameRound
  BY <1>4 DEF Grant, Discard, EnableContinuous, DisableContinuous, EnableSynchronous,
     WriteSynchronous
<1>5. ASSUME NEW w \in Workers,
             Enter(w) \/ While(w) \/ Await(w) \/ IfEmpty(w) \/ Quit(w)
      PROVE  SameRound
  BY <1>5 DEF Enter, While, Await, IfEmpty, Quit
<1>6. ASSUME NEW w \in Workers, TakeFront(w) \/ Pop(w) \/ Delete(w) PROVE SameRound
  BY <1>6 DEF TakeFront, Pop, Delete
<1>7. ASSUME NEW t \in Threads,
             Deliver(t) \/ IfListeners(t) \/ ElseExclusive(t) \/ UnlockListener(t)
             \/ LockExclusive(t)
      PROVE  SameRound
  BY <1>7 DEF Deliver, IfListeners, ElseExclusive, UnlockListener, LockExclusive, Return
<1>8. CASE Idle
  BY <1>8 DEF Idle, vars
<1> HIDE DEF SameRound, TypeOK, PcType
<1>9. ASSUME NEW t \in AppThreads, App(t)
      PROVE  SameRound \/ \E l \in Listeners : RegisterListener(t, l) \/ UnregisterListener(t, l)
  BY <1>1, <1>2, <1>3, <1>4, <1>9 DEF App
<1>10. ASSUME NEW w \in Workers, Run(w) PROVE SameRound
  BY <1>5, <1>6, <1>10 DEF Run
<1>11. ASSUME NEW t \in Threads, DeliverMessage(t)
       PROVE  \/ SameRound \/ LockListener(t) \/ Refuse(t) \/ AcceptExclusive(t)
              \/ \E l \in Listeners : Accept(t, l)
  BY <1>7, <1>11 DEF DeliverMessage
<1>12. QED
  BY <1>8, <1>9, <1>10, <1>11 DEF Next

Round(t) ==
    \A l \in Listeners :
        Copies(listeners, l) = Copies(wait[t], l) + Copies(got[l], msg[t])

LEMMA OncePerRegistrationStep ==
    ASSUME IInv, Untouched, OncePerRegistration, Next
    PROVE  OncePerRegistration'
<1> USE NullIsNothing, ThreadsDisjoint
<1>1. TypeOK /\ (fault = "none" => \A t \in Threads : mxListener = t <=> pc[t] = "broadcast")
  BY DEF IInv, LockDiscipline
<1>2. /\ listeners \in Seq(Listeners)
      /\ \A t \in Threads : wait[t] \in Seq(Listeners)
      /\ \A l \in Listeners : got[l] \in Seq(Messages)
      /\ \A t \in Threads : pc[t] = "broadcast" => msg[t] \in Messages
  BY <1>1 DEF TypeOK, IInv, HasMessage
<1>3. SUFFICES ASSUME NEW t \in Threads, pc'[t] = "broadcast" PROVE Round(t)'
  BY DEF OncePerRegistration, Round
<1>4. pc[t] = "broadcast" => Round(t)
  BY DEF OncePerRegistration, Round
<1>5. CASE SameRound
  BY <1>3, <1>4, <1>5 DEF SameRound, Round
<1>6. ASSUME NEW u \in AppThreads, NEW l \in Listeners,
             RegisterListener(u, l) \/ UnregisterListener(u, l)
      PROVE  FALSE
  <2>1. pc' = pc /\ mxListener = NULL /\ fault = "none"
    BY <1>6 DEF RegisterListener, UnregisterListener
  <2>2. QED
    BY <1>1, <1>3, <2>1
<1>7. ASSUME NEW u \in Threads, LockListener(u) PROVE Round(t)'
  <2>1. /\ u = t /\ pc[t] = "lockListener" /\ wait'[t] = listeners
        /\ UNCHANGED <<listeners, got, msg>>
    BY <1>1, <1>3, <1>7 DEF LockListener, TypeOK, PcType
  <2>2. \A l \in Listeners : msg[t] \notin Range(got[l])
    BY <2>1 DEF Untouched, Before, Given
  <2>3. \A l \in Listeners : Copies(got[l], msg[t]) = 0 /\ Copies(listeners, l) \in Nat
    BY <1>2, <2>2, CopiesPositive, PlacesFinite
  <2>4. QED
    BY <2>1, <2>3 DEF Round
<1>8. ASSUME NEW u \in Threads, NEW k \in Listeners, Accept(u, k) PROVE Round(t)'
  <2>1. /\ pc' = pc /\ UNCHANGED <<listeners, msg>> /\ fault = "none"
        /\ pc[u] = "broadcast" /\ wait[u] # << >> /\ k = Head(wait[u])
        /\ wait' = [wait EXCEPT ![u] = Tail(@)]
        /\ got' = [got EXCEPT ![k] = Append(@, msg[u])]
    BY <1>8 DEF Accept
  <2>2. u = t
    BY <1>1, <1>3, <2>1
  <2>3. /\ wait'[t] = Tail(wait[t]) /\ got'[k] = Append(got[k], msg[t])
        /\ \A l \in Listeners \ {k} : got'[l] = got[l]
    BY <1>1, <2>1, <2>2 DEF TypeOK
  <2>4. msg[t] \in Messages
    BY <1>2, <2>1, <2>2
  <2>5. ASSUME NEW l \in Listeners
        PROVE  Copies(listeners', l) = Copies(wait'[t], l) + Copies(got'[l], msg'[t])
    <3>1. /\ Copies(wait[t], l) = Copies(Tail(wait[t]), l) + (IF k = l THEN 1 ELSE 0)
          /\ Tail(wait[t]) \in Seq(Listeners)
      BY <1>2, <2>1, <2>2, CopiesTail
    <3>2. Copies(Tail(wait[t]), l) \in Nat /\ Copies(got[l], msg[t]) \in Nat
      BY <1>2, <3>1, PlacesFinite
    <3>3. Copies(listeners, l) = Copies(wait[t], l) + Copies(got[l], msg[t])
      BY <1>4, <2>1, <2>2 DEF Round
    <3>4. CASE l = k
      <4>1. \A s \in Seq(Messages) : \A x \in Messages :
                Copies(Append(s, x), x) = Copies(s, x) + 1
        BY CopiesAppend
      <4>2. QED
        BY <1>2, <2>1, <2>3, <2>4, <3>1, <3>2, <3>3, <3>4, <4>1
    <3>5. CASE l # k
      BY <2>1, <2>3, <3>1, <3>2, <3>3, <3>5
    <3>6. QED
      BY <3>4, <3>5
  <2>6. QED
    BY <2>5 DEF Round
<1>9. ASSUME NEW u \in Threads, Refuse(u) PROVE Round(t)'
  <2>1. /\ pc' = pc /\ UNCHANGED <<listeners, msg, got>> /\ fault = "none"
        /\ pc[u] = "broadcast" /\ wait[u] # << >>
        /\ wait' = [wait EXCEPT ![u] = AskLater(@)]
    BY <1>9 DEF Refuse
  <2>2. u = t
    BY <1>1, <1>3, <2>1
  <2>3. wait'[t] = AskLater(wait[t])
    BY <1>1, <2>1, <2>2 DEF TypeOK
  <2>4. \A l \in Listeners : Copies(AskLater(wait[t]), l) = Copies(wait[t], l)
    BY <1>2, <2>1, <2>2, CopiesAskLater
  <2>5. QED
    BY <1>4, <2>1, <2>2, <2>3, <2>4 DEF Round
<1>10. ASSUME NEW u \in Threads, AcceptExclusive(u) PROVE Round(t)'
  <2>1. /\ UNCHANGED <<listeners, wait>> /\ pc[u] = "callExclusive"
        /\ got' = [got EXCEPT ![exclusive] = Append(@, msg[u])]
    BY <1>10 DEF AcceptExclusive
  <2>2. t # u /\ pc[t] = "broadcast" /\ msg'[t] = msg[t]
    BY <1>1, <1>3, <1>10 DEF AcceptExclusive, Return, TypeOK, PcType
  <2>3. msg[t] # msg[u]
    BY <2>1, <2>2, OneGiver
  <2>4. msg[u] \in Messages
    BY <1>1, <2>1 DEF TypeOK, IInv, HasMessage
  <2>5. ASSUME NEW l \in Listeners PROVE Copies(got'[l], msg[t]) = Copies(got[l], msg[t])
    <3>1. got'[l] = got[l] \/ got'[l] = Append(got[l], msg[u])
      BY <1>1, <2>1 DEF TypeOK
    <3>2. Copies(Append(got[l], msg[u]), msg[t]) = Copies(got[l], msg[t])
      <4>1. got[l] \in Seq(Messages) /\ msg[u] \in Messages /\ msg[t] \in Messages
        BY <1>2, <2>2, <2>4
      <4> DEFINE Added(s, x, y) ==
                     Copies(Append(s, x), y) = Copies(s, y) + (IF x = y THEN 1 ELSE 0)
      <4>2. \A s \in Seq(Messages) : \A x, y \in Messages : Added(s, x, y)
        BY CopiesAppend
      <4> HIDE DEF Added
      <4>3. Added(got[l], msg[u], msg[t])
        BY <4>1, <4>2
      <4>4. Copies(Append(got[l], msg[u]), msg[t])
                = Copies(got[l], msg[t]) + (IF msg[u] = msg[t] THEN 1 ELSE 0)
        BY <4>3 DEF Added
      <4>5. Copies(got[l], msg[t]) \in Nat
        BY <4>1, PlacesFinite
      <4>6. QED
        BY <2>3, <4>4, <4>5
    <3>3. QED
      BY <3>1, <3>2
  <2>6. QED
    BY <1>4, <2>1, <2>2, <2>5 DEF Round
<1>11. QED
  BY <1>1, <1>5, <1>6, <1>7, <1>8, <1>9, <1>10, RoundStep

LEMMA InitRound == Init => RoundInv
<1> SUFFICES ASSUME Init PROVE RoundInv
  OBVIOUS
<1>1. Untouched
  <2>1. \A t \in Threads : pc[t] \notin Before
    BY DEF Init, Before
  <2>2. Len(queue) = 0
    BY DEF Init
  <2>3. QED
    BY <2>1, <2>2 DEF Untouched
<1>2. OncePerRegistration
  BY DEF Init, OncePerRegistration
<1>3. QED
  BY <1>1, <1>2, InitIInv DEF RoundInv

LEMMA NextRound == RoundInv /\ [Next]_vars => RoundInv'
<1> SUFFICES ASSUME RoundInv, [Next]_vars PROVE RoundInv'
  OBVIOUS
<1>1. IInv'
  BY NextIInv DEF RoundInv
<1>2. CASE Next
  BY <1>1, <1>2, UntouchedStep, OncePerRegistrationStep DEF RoundInv
<1>3. CASE UNCHANGED vars
  <2>1. UNCHANGED <<queue, listeners, mxQueue, pc, msg, wait, got>>
    BY <1>3 DEF vars
  <2>2. Untouched'
    BY <2>1 DEF RoundInv, Untouched, Given
  <2>3. OncePerRegistration'
    BY <2>1 DEF RoundInv, OncePerRegistration, Copies
  <2>4. QED
    BY <1>1, <2>2, <2>3 DEF RoundInv
<1>4. QED
  BY <1>2, <1>3

\* While a broadcast runs, every registration of every listener has accepted
\* the message once or is waiting for it, and none does both: whatever the
\* listeners refuse, however many threads broadcast one after the other, and
\* whoever waits to change the list.
THEOREM EachRegistrationOnce == Spec => []OncePerRegistration
<1>1. RoundInv => OncePerRegistration
  BY DEF RoundInv
<1>2. QED
  BY <1>1, InitRound, NextRound, PTL DEF Spec

-----------------------------------------------------------------------------
(* No listener is skipped, when nobody requests exclusive messaging. *)

LEMMA NoneExclusiveStep ==
    ASSUME TypeOK, NeverExclusive, NoneExclusive, Next
    PROVE  NoneExclusive'
<1> USE NullIsNothing, ThreadsDisjoint DEF TypeOK, PcType, NoneExclusive
<1>1. ASSUME NEW t \in AppThreads,
             IfSynchronous(t) \/ IfRunThread(t) \/ Start(t) \/ \E m \in Messages : PumpMessage(t, m)
      PROVE  NoneExclusive'
  BY <1>1 DEF IfSynchronous, IfRunThread, Start, PumpMessage
<1>2. ASSUME NEW t \in AppThreads, Push(t) PROVE NoneExclusive'
  BY <1>2 DEF Push
<1>3. ASSUME NEW t \in AppThreads, NEW l \in Listeners,
             \/ RegisterListener(t, l) \/ UnregisterListener(t, l)
             \/ RequestExclusive(t, l) \/ DiscardExclusive(t, l)
      PROVE  NoneExclusive'
  BY <1>3 DEF RegisterListener, UnregisterListener, RequestExclusive, DiscardExclusive,
     NeverExclusive
<1>4. ASSUME NEW t \in AppThreads, Grant(t) \/ Discard(t) \/ EnableContinuous(t)
             \/ DisableContinuous(t) \/ EnableSynchronous(t) \/ WriteSynchronous(t)
      PROVE  NoneExclusive'
  BY <1>4 DEF Grant, Discard, EnableContinuous, DisableContinuous, EnableSynchronous,
     WriteSynchronous
<1>5. ASSUME NEW w \in Workers,
             Enter(w) \/ While(w) \/ Await(w) \/ IfEmpty(w) \/ Quit(w)
      PROVE  NoneExclusive'
  BY <1>5 DEF Enter, While, Await, IfEmpty, Quit
<1>6. ASSUME NEW w \in Workers, TakeFront(w) \/ Pop(w) \/ Delete(w) PROVE NoneExclusive'
  BY <1>6 DEF TakeFront, Pop, Delete
<1>7. ASSUME NEW t \in Threads,
             Deliver(t) \/ IfListeners(t) \/ ElseExclusive(t) \/ UnlockListener(t)
             \/ LockExclusive(t) \/ LockListener(t) \/ Refuse(t) \/ AcceptExclusive(t)
             \/ \E l \in Listeners : Accept(t, l)
      PROVE  NoneExclusive'
  BY <1>7 DEF Deliver, IfListeners, ElseExclusive, UnlockListener, LockExclusive, LockListener,
     Refuse, AcceptExclusive, Accept, Return
<1>8. CASE Idle
  BY <1>8 DEF Idle, vars
<1> HIDE DEF NoneExclusive, TypeOK, PcType
<1>9. ASSUME NEW t \in AppThreads, App(t) PROVE NoneExclusive'
  BY <1>1, <1>2, <1>3, <1>4, <1>9 DEF App
<1>10. ASSUME NEW w \in Workers, Run(w) PROVE NoneExclusive'
  BY <1>5, <1>6, <1>10 DEF Run
<1>11. ASSUME NEW t \in Threads, DeliverMessage(t) PROVE NoneExclusive'
  BY <1>7, <1>11 DEF DeliverMessage
<1>12. QED
  BY <1>8, <1>9, <1>10, <1>11 DEF Next

\* What was accepted stays accepted, and what was pushed keeps its place.
LEMMA HistoryGrows ==
    ASSUME IInv, Next
    PROVE  /\ \A l \in Listeners : Range(got[l]) \subseteq Range(got'[l])
           /\ \A i \in 1 .. Len(pushed) : pushed'[i] = pushed[i]
<1> USE NullIsNothing, ThreadsDisjoint
<1>1. TypeOK /\ HasMessage
  BY DEF IInv
<1>2. ASSUME NEW l \in Listeners PROVE Range(got[l]) \subseteq Range(got'[l])
  <2>1. CASE UNCHANGED got
    BY <2>1
  <2>2. ASSUME NEW t \in Threads, NEW k \in Listeners, Gives(t, k)
        PROVE  Range(got[l]) \subseteq Range(got'[l])
    <3>1. /\ got'[l] = got[l] \/ got'[l] = Append(got[l], msg[t])
          /\ got[l] \in Seq(Messages) /\ msg[t] \in Messages
      BY <1>1, <2>2 DEF Gives, TypeOK, HasMessage
    <3>2. \A s \in Seq(Messages) : \A x \in Messages : Range(s) \subseteq Range(Append(s, x))
      BY RangeOfAppend
    <3>3. QED
      BY <3>1, <3>2
  <2>3. QED
    BY <1>1, <2>1, <2>2, GivesStep
<1>3. ASSUME NEW i \in 1 .. Len(pushed) PROVE pushed'[i] = pushed[i]
  <2>1. CASE UNCHANGED pushed
    BY <2>1
  <2>2. ASSUME NEW t \in AppThreads, Push(t) PROVE pushed'[i] = pushed[i]
    <3>1. pushed' = Append(pushed, msg[t]) /\ pushed \in Seq(Messages) /\ msg[t] \in Messages
      BY <1>1, <2>2 DEF Push, TypeOK, HasMessage
    <3>2. QED
      BY <3>1
  <2>3. QED
    BY <2>1, <2>2, QueueFrame DEF Pop
<1>4. QED
  BY <1>2, <1>3

\* A worker between front() and pop() has the queue for itself.
LEMMA Busy ==
    ASSUME IInv, NEW w \in Workers, pc[w] \in DeliverLabels \cup {"pop"}
    PROVE  /\ popped + 1 \in 1 .. Len(pushed) /\ pushed[popped + 1] = msg[w]
           /\ \A v \in Workers \ {w} : pc[v] \notin DeliverLabels \cup {"pop"}
<1> USE NullIsNothing, ThreadsDisjoint DEF IInv
<1>1. mxQueue = w /\ queue # << >> /\ Head(queue) = msg[w] /\ queue \in Seq(Messages)
  BY DEF PopsWhatItDelivers, TypeOK
<1>2. Len(queue) \in Nat \ {0} /\ Head(queue) = queue[1]
  BY <1>1
<1>3. popped + 1 \in 1 .. Len(pushed) /\ pushed[popped + 1] = msg[w]
  BY <1>1, <1>2 DEF QueueIsBacklog, TypeOK
<1>4. \A v \in Workers \ {w} : pc[v] \notin DeliverLabels \cup {"pop"}
  BY <1>1 DEF PopsWhatItDelivers
<1>5. QED
  BY <1>3, <1>4

\* The other steps leave the list, what was popped, and the workers that are
\* about to pop, or to give a message to nobody, where they are.
Quiet ==
    /\ UNCHANGED <<listeners, since, popped>>
    /\ \A w \in Workers : pc'[w] \in {"pop", "elseExclusive"} => pc[w] = pc'[w]

LEMMA QuietStep ==
    ASSUME TypeOK, NoneExclusive, Next
    PROVE  \/ Quiet
           \/ \E t \in AppThreads, l \in Listeners :
                 RegisterListener(t, l) \/ UnregisterListener(t, l)
           \/ \E w \in Workers :
                 Pop(w) \/ IfListeners(w) \/ ElseExclusive(w) \/ UnlockListener(w)
<1> USE NullIsNothing, ThreadsDisjoint DEF TypeOK, PcType, Quiet, NoneExclusive
<1>1. ASSUME NEW t \in AppThreads,
             IfSynchronous(t) \/ IfRunThread(t) \/ Start(t) \/ \E m \in Messages : PumpMessage(t, m)
      PROVE  Quiet
  BY <1>1 DEF IfSynchronous, IfRunThread, Start, PumpMessage
<1>2. ASSUME NEW t \in AppThreads, Push(t) PROVE Quiet
  BY <1>2 DEF Push
<1>3. ASSUME NEW t \in AppThreads, NEW l \in Listeners,
             RequestExclusive(t, l) \/ DiscardExclusive(t, l)
      PROVE  Quiet
  BY <1>3 DEF RequestExclusive, DiscardExclusive
<1>4. ASSUME NEW t \in AppThreads, Grant(t) \/ Discard(t) \/ EnableContinuous(t)
             \/ DisableContinuous(t) \/ EnableSynchronous(t) \/ WriteSynchronous(t)
      PROVE  Quiet
  BY <1>4 DEF Grant, Discard, EnableContinuous, DisableContinuous, EnableSynchronous,
     WriteSynchronous
<1>5. ASSUME NEW w \in Workers,
             Enter(w) \/ While(w) \/ Await(w) \/ IfEmpty(w) \/ Quit(w)
             \/ TakeFront(w) \/ Delete(w)
      PROVE  Quiet
  BY <1>5 DEF Enter, While, Await, IfEmpty, Quit, TakeFront, Delete
<1>6. ASSUME NEW t \in Threads,
             \/ Deliver(t) \/ LockExclusive(t) \/ LockListener(t) \/ Refuse(t)
             \/ AcceptExclusive(t) \/ \E l \in Listeners : Accept(t, l)
      PROVE  Quiet
  BY <1>6 DEF Deliver, LockExclusive, LockListener, Refuse, AcceptExclusive, Accept
<1>7. ASSUME NEW t \in AppThreads, IfListeners(t) \/ ElseExclusive(t) \/ UnlockListener(t)
      PROVE  Quiet
  BY <1>7 DEF IfListeners, ElseExclusive, UnlockListener, Return
<1>8. CASE Idle
  BY <1>8 DEF Idle, vars
<1> HIDE DEF NoneExclusive, TypeOK, PcType, Quiet
<1>9. ASSUME NEW t \in AppThreads, App(t)
      PROVE  Quiet \/ \E l \in Listeners : RegisterListener(t, l) \/ UnregisterListener(t, l)
  BY <1>1, <1>2, <1>3, <1>4, <1>9 DEF App
<1>10. ASSUME NEW w \in Workers, Run(w) PROVE Quiet \/ Pop(w)
  BY <1>5, <1>10 DEF Run
<1>11. ASSUME NEW t \in Threads, DeliverMessage(t)
       PROVE  Quiet \/ (t \in Workers /\ (IfListeners(t) \/ ElseExclusive(t) \/ UnlockListener(t)))
  BY <1>6, <1>7, <1>11 DEF DeliverMessage
<1>12. QED
  BY <1>8, <1>9, <1>10, <1>11 DEF Next

LEMMA SkipStep ==
    ASSUME SkipInv, NeverExclusive, Next
    PROVE  ReadyToPop' /\ NoListenerSkipped'
<1> USE NullIsNothing, ThreadsDisjoint
<1>1. /\ IInv /\ TypeOK /\ NoneExclusive /\ OncePerRegistration
      /\ ReadyToPop /\ NoListenerSkipped
  BY DEF SkipInv, RoundInv, IInv
<1>2. /\ popped \in Nat /\ Len(pushed) \in Nat /\ popped <= Len(pushed)
      /\ \A l \in Listeners : since[l] \in Nat
      /\ Range(listeners) \subseteq Listeners
  BY <1>1 DEF IInv, TypeOK, QueueIsBacklog, Range
<1>3. /\ \A l \in Listeners : Range(got[l]) \subseteq Range(got'[l])
      /\ \A i \in 1 .. Len(pushed) : pushed'[i] = pushed[i]
  BY <1>1, HistoryGrows
\* What a listener has accepted of what is popped it keeps.
<1>4. ASSUME NEW l \in Range(listeners), NEW i \in since[l] + 1 .. popped
      PROVE  pushed'[i] \in Range(got'[l])
  <2>1. pushed[i] \in Range(got[l]) /\ i \in 1 .. Len(pushed) /\ l \in Listeners
    BY <1>1, <1>2 DEF NoListenerSkipped
  <2>2. QED
    BY <1>3, <2>1
<1>5. ASSUME NEW w \in Workers, NEW l \in Range(listeners), pc[w] = "pop", since[l] <= popped
      PROVE  pushed'[popped + 1] \in Range(got'[l])
  <2>1. pushed[popped + 1] \in Range(got[l]) /\ popped + 1 \in 1 .. Len(pushed) /\ l \in Listeners
    BY <1>1, <1>2, <1>5, Busy DEF ReadyToPop
  <2>2. QED
    BY <1>3, <2>1
<1>6. CASE Quiet
  BY <1>1, <1>4, <1>5, <1>6 DEF Quiet, ReadyToPop, NoListenerSkipped
<1>7. ASSUME NEW t \in AppThreads, NEW k \in Listeners, RegisterListener(t, k)
      PROVE  ReadyToPop' /\ NoListenerSkipped'
  <2>1. /\ UNCHANGED <<pc, popped, pushed, got>> /\ listeners' = Append(listeners, k)
        /\ listeners \in Seq(Listeners)
    BY <1>1, <1>7 DEF RegisterListener, TypeOK
  <2>2. Range(listeners') = Range(listeners) \cup {k}
    BY <2>1, RangeOfAppend
  <2>3. \A l \in Range(listeners) : since'[l] = since[l]
    BY <1>1, <1>7 DEF RegisterListener, TypeOK
  <2>4. k \notin Range(listeners) => since'[k] = Len(pushed)
    BY <1>1, <1>7 DEF RegisterListener, TypeOK
  <2>5. \A w \in Workers : pc[w] \in {"pop", "elseExclusive"} => Len(pushed) > popped
    BY <1>1, <1>2, Busy
  <2>6. ReadyToPop'
    BY <1>1, <1>2, <2>1, <2>2, <2>3, <2>4, <2>5 DEF ReadyToPop
  <2>7. ASSUME NEW l \in Range(listeners'), NEW i \in since'[l] + 1 .. popped
        PROVE  pushed[i] \in Range(got[l])
    BY <1>1, <1>2, <2>2, <2>3, <2>4, <2>7 DEF NoListenerSkipped
  <2>8. QED
    BY <2>1, <2>6, <2>7 DEF NoListenerSkipped
<1>8. ASSUME NEW t \in AppThreads, NEW k \in Listeners, UnregisterListener(t, k)
      PROVE  ReadyToPop' /\ NoListenerSkipped'
  <2>1. UNCHANGED <<pc, popped, pushed, got, since>>
    BY <1>8 DEF UnregisterListener
  <2>2. Range(listeners') \subseteq Range(listeners)
    BY <1>8 DEF UnregisterListener, IsWithout, Range
  <2>3. QED
    BY <1>1, <2>1, <2>2 DEF ReadyToPop, NoListenerSkipped
<1>9. ASSUME NEW w \in Workers, Pop(w) PROVE ReadyToPop' /\ NoListenerSkipped'
  <2>1. /\ UNCHANGED <<listeners, since>> /\ popped' = popped + 1 /\ pc[w] = "pop"
        /\ pc'[w] = "delete" /\ \A v \in Workers \ {w} : pc'[v] = pc[v]
    BY <1>1, <1>9 DEF Pop, TypeOK, PcType
  <2>2. \A v \in Workers : pc'[v] \notin {"pop", "elseExclusive"}
    BY <1>1, <2>1, Busy
  <2>3. ASSUME NEW l \in Range(listeners), NEW i \in since[l] + 1 .. popped + 1
        PROVE  pushed'[i] \in Range(got'[l])
    <3>1. CASE i = popped + 1
      BY <1>2, <1>5, <2>1, <2>3, <3>1
    <3>2. CASE i # popped + 1
      BY <1>2, <1>4, <2>3, <3>2
    <3>3. QED
      BY <3>1, <3>2
  <2>4. QED
    BY <2>1, <2>2, <2>3 DEF ReadyToPop, NoListenerSkipped
<1>10. ASSUME NEW w \in Workers, IfListeners(w) \/ ElseExclusive(w) \/ UnlockListener(w)
       PROVE  ReadyToPop' /\ NoListenerSkipped'
  <2>1. /\ UNCHANGED <<listeners, since, popped, got, pushed>>
        /\ \A v \in Workers \ {w} : pc'[v] = pc[v]
        /\ pc[w] \in DeliverLabels
    BY <1>1, <1>10 DEF IfListeners, ElseExclusive, UnlockListener, Return, TypeOK, PcType
  <2>2. NoListenerSkipped'
    BY <1>1, <2>1 DEF NoListenerSkipped
  <2>3. ASSUME NEW l \in Range(listeners), pc'[w] = "pop", since[l] <= popped
        PROVE  pushed[popped + 1] \in Range(got[l])
    <3>1. CASE ElseExclusive(w)
      <4>1. since[l] > popped
        BY <1>1, <3>1 DEF ElseExclusive, ReadyToPop
      <4>2. QED
        BY <1>2, <2>3, <4>1
    <3>2. CASE UnlockListener(w)
      <4>1. pc[w] = "broadcast" /\ wait[w] = << >>
        BY <3>2 DEF UnlockListener
      <4>2. /\ listeners \in Seq(Listeners) /\ wait[w] \in Seq(Listeners)
            /\ got[l] \in Seq(Messages) /\ l \in Listeners
        BY <1>1, <1>2 DEF TypeOK
      <4>3. Copies(listeners, l) = Copies(wait[w], l) + Copies(got[l], msg[w])
        BY <1>1, <4>1, <4>2 DEF OncePerRegistration
      <4>4. Copies(wait[w], l) = 0 /\ Copies(listeners, l) # 0 /\ Copies(got[l], msg[w]) \in Nat
        <5>1. l \notin Range(wait[w])
          BY <4>1 DEF Range
        <5>2. QED
          BY <4>2, <5>1, CopiesPositive, PlacesFinite
      <4>5. msg[w] \in Range(got[l])
        BY <4>2, <4>3, <4>4, CopiesPositive
      <4>6. pushed[popped + 1] = msg[w]
        BY <1>1, <2>1, Busy
      <4>7. QED
        BY <4>5, <4>6
    <3>3. CASE IfListeners(w)
      BY <1>1, <2>3, <3>3 DEF IfListeners, TypeOK, PcType
    <3>4. QED
      BY <1>10, <3>1, <3>2, <3>3
  <2>4. ASSUME NEW l \in Range(listeners), pc'[w] = "elseExclusive" PROVE FALSE
    BY <1>1, <1>10, <2>4 DEF IfListeners, ElseExclusive, UnlockListener, Return, TypeOK, PcType,
       NoneExclusive, Range
  <2>5. QED
    BY <1>1, <2>1, <2>2, <2>3, <2>4 DEF ReadyToPop
<1>11. QED
  BY <1>1, <1>6, <1>7, <1>8, <1>9, <1>10, QuietStep

LEMMA InitSkip == Init => SkipInv
<1> SUFFICES ASSUME Init PROVE SkipInv
  OBVIOUS
<1>1. NoneExclusive
  BY DEF Init, NoneExclusive
<1>2. ReadyToPop
  BY ThreadsDisjoint DEF Init, ReadyToPop
<1>3. NoListenerSkipped
  <2>1. SUFFICES ASSUME NEW l \in Range(listeners) PROVE since[l] + 1 .. popped = {}
    BY DEF NoListenerSkipped
  <2>2. l \in Listeners /\ since[l] = 0 /\ popped = 0
    BY StartAssumption DEF Init, Range
  <2>3. QED
    BY <2>2
<1>4. QED
  BY <1>1, <1>2, <1>3, InitRound DEF SkipInv

LEMMA NextSkip ==
    ASSUME NeverExclusive
    PROVE  SkipInv /\ [Next]_vars => SkipInv'
<1> SUFFICES ASSUME SkipInv, [Next]_vars PROVE SkipInv'
  OBVIOUS
<1>1. RoundInv'
  BY NextRound DEF SkipInv
<1>2. CASE Next
  <2>1. NoneExclusive'
    BY <1>2, NoneExclusiveStep DEF SkipInv, RoundInv, IInv
  <2>2. QED
    BY <1>1, <1>2, <2>1, SkipStep DEF SkipInv
<1>3. CASE UNCHANGED vars
  BY <1>1, <1>3 DEF vars, SkipInv, NoneExclusive, ReadyToPop, NoListenerSkipped
<1>4. QED
  BY <1>2, <1>3

\* In a program that never requests exclusive messaging, a listener that was
\* on the list when a message was queued, and still is, has accepted it when
\* it is popped: refusals, registrations and several workers change nothing.
THEOREM NobodyIsSkipped == NeverExclusive => (Spec => []NoListenerSkipped)
<1> SUFFICES ASSUME NeverExclusive PROVE Spec => []NoListenerSkipped
  OBVIOUS
<1>1. SkipInv /\ [Next]_vars => SkipInv'
  BY NextSkip
<1>2. SkipInv => NoListenerSkipped
  BY DEF SkipInv
<1>3. QED
  BY <1>1, <1>2, InitSkip, PTL DEF Spec

-----------------------------------------------------------------------------
(* One worker, with continuous processing and one pumping thread. *)

\* The conditions under which a step of thread t keeps Continuous.
LEMMA ContinuousMove ==
    ASSUME TypeOK, Continuous, NEW t \in Threads, NEW label,
           pc' = [pc EXCEPT ![t] = label],
           UNCHANGED <<runContinuously, synchronous, exclusive, fault>>,
           runThread' = runThread,
           queue' # << >> \/ queue' = queue \/ t \in Workers,
           t \in AppThreads => PumpingAt(t, label) /\ (label = "start" => runThread = FALSE),
           t \in Workers =>
              /\ pc[t] # "unborn"
              /\ label \notin {"ifEmpty", "quit", "lockExclusive", "callExclusive"}
              /\ label = "front" => queue' # << >>
    PROVE  Continuous'
<1>1. DOMAIN pc = Threads
  BY DEF TypeOK, PcType
<1>2. pc'[t] = label /\ \A u \in Threads \ {t} : pc'[u] = pc[u]
  BY <1>1
<1>3. \A u \in AppThreads : PumpingAt(u, pc'[u]) /\ (pc'[u] = "start" => runThread' = FALSE)
  BY <1>2 DEF Continuous
<1>4. ASSUME NEW w \in Workers
      PROVE  /\ pc'[w] \notin {"ifEmpty", "quit", "lockExclusive", "callExclusive"}
             /\ pc'[w] # "unborn" => runThread' = TRUE
             /\ pc'[w] # "unborn" => pc[w] # "unborn"
  BY <1>2, <1>4 DEF Continuous
<1>5. ASSUME NEW w \in Workers, pc'[w] = "front" PROVE queue' # << >>
  <2>1. CASE t = w
    BY <1>2, <1>5, <2>1
  <2>2. CASE t # w
    <3>1. pc[w] = "front" /\ queue # << >>
      BY <1>2, <1>5, <2>2 DEF Continuous
    <3>2. t \notin Workers
      BY <2>2, <3>1 DEF Continuous
    <3>3. QED
      BY <3>1, <3>2
  <2>3. QED
    BY <2>1, <2>2
<1>6. \A v, w \in Workers : pc'[v] # "unborn" /\ pc'[w] # "unborn" => v = w
  BY <1>4 DEF Continuous
<1>7. /\ runContinuously' = TRUE /\ synchronous' = FALSE
      /\ exclusive' = NULL /\ fault' = "none"
  BY DEF Continuous
<1>8. QED
  BY <1>3, <1>4, <1>5, <1>6, <1>7 DEF Continuous

LEMMA ContinuousStay ==
    ASSUME Continuous,
           UNCHANGED <<pc, queue, runContinuously, synchronous, exclusive, fault>>,
           runThread' = runThread
    PROVE  Continuous'
BY DEF Continuous

LEMMA ContinuousStart ==
    ASSUME OnePump, TypeOK, Continuous, NEW t \in AppThreads, Start(t)
    PROVE  Continuous'
<1>1. /\ pc[t] = "start" /\ runThread = FALSE /\ runThread' = TRUE /\ DOMAIN pc = Threads
      /\ UNCHANGED <<queue, runContinuously, synchronous, exclusive, fault>>
  BY DEF Start, Continuous, TypeOK, PcType
<1>2. \A w \in Workers : pc[w] = "unborn"
  BY <1>1 DEF Continuous
<1>3. \A u \in AppThreads \ {t} : pc[u] # "start"
  <2>1. "pumpMessage" \in Calls[t]
    BY <1>1 DEF Continuous, PumpingAt
  <2>2. QED
    BY <2>1 DEF Continuous, PumpingAt, OnePump
<1>4. PumpingAt(t, "idle")
  BY DEF PumpingAt
<1>5. ASSUME NEW w \in Workers, pc' = [pc EXCEPT ![t] = "idle", ![w] = "enter"]
      PROVE  Continuous'
  <2>1. /\ pc'[t] = "idle" /\ pc'[w] = "enter"
        /\ \A u \in Threads \ {t, w} : pc'[u] = pc[u]
    BY <1>1, <1>5, ThreadsDisjoint
  <2>2. \A u \in AppThreads : PumpingAt(u, pc'[u]) /\ pc'[u] # "start"
    BY <1>3, <1>4, <2>1, ThreadsDisjoint DEF Continuous
  <2>3. \A v \in Workers \ {w} : pc'[v] = "unborn"
    BY <1>2, <2>1, ThreadsDisjoint
  <2>4. QED
    BY <1>1, <2>1, <2>2, <2>3 DEF Continuous
<1>6. CASE pc' = [pc EXCEPT ![t] = "idle"]
  <2>1. pc'[t] = "idle" /\ \A u \in Threads \ {t} : pc'[u] = pc[u]
    BY <1>1, <1>6
  <2>2. \A u \in AppThreads : PumpingAt(u, pc'[u]) /\ pc'[u] # "start"
    BY <1>3, <1>4, <2>1 DEF Continuous
  <2>3. \A v \in Workers : pc'[v] = "unborn"
    BY <1>2, <2>1, ThreadsDisjoint
  <2>4. QED
    BY <1>1, <2>1, <2>2, <2>3 DEF Continuous
<1>7. QED
  BY <1>5, <1>6 DEF Start

LEMMA ContinuousApp ==
    ASSUME OnePump, TypeOK, Continuous,
           NEW t \in AppThreads, App(t)
    PROVE  Continuous'
<1>1. ASSUME NEW m \in Messages, PumpMessage(t, m) PROVE Continuous'
  <2>1. CASE listeners = << >>
    BY <1>1, <2>1, ContinuousStay DEF PumpMessage
  <2>2. CASE listeners # << >>
    <3>1. PumpingAt(t, "ifSynchronous")
      BY <1>1 DEF PumpMessage, PumpingAt
    <3>2. QED
      BY <1>1, <2>2, <3>1, ThreadsDisjoint, ContinuousMove DEF PumpMessage
  <2>3. QED
    BY <2>1, <2>2
<1>2. CASE IfSynchronous(t)
  <2>1. PumpingAt(t, "push") /\ synchronous = FALSE
    BY <1>2 DEF IfSynchronous, PumpingAt, Continuous
  <2>2. pc' = [pc EXCEPT ![t] = "push"]
    BY <1>2, <2>1 DEF IfSynchronous
  <2>3. QED
    BY <1>2, <2>1, <2>2, ThreadsDisjoint, ContinuousMove DEF IfSynchronous
<1>3. CASE Push(t)
  <2>1. queue' # << >>
    <3>1. queue \in Seq(Messages) /\ msg[t] \in Messages \cup {NULL}
      BY DEF TypeOK
    <3>2. Len(queue') = Len(queue) + 1 /\ Len(queue) \in Nat
      BY <1>3, <3>1 DEF Push
    <3>3. QED
      BY <3>2
  <2>2. PumpingAt(t, "ifRunThread")
    BY <1>3 DEF Push, PumpingAt, Continuous
  <2>3. QED
    BY <1>3, <2>1, <2>2, ThreadsDisjoint, ContinuousMove DEF Push
<1>4. CASE IfRunThread(t)
  <2>1. PumpingAt(t, "start") /\ PumpingAt(t, "idle")
    BY <1>4 DEF IfRunThread, PumpingAt, Continuous
  <2>2. CASE runThread = TRUE
    <3>1. pc' = [pc EXCEPT ![t] = "idle"]
      BY <1>4, <2>2 DEF IfRunThread
    <3>2. QED
      BY <1>4, <2>1, <3>1, ThreadsDisjoint, ContinuousMove DEF IfRunThread
  <2>3. CASE runThread = FALSE
    <3>1. pc' = [pc EXCEPT ![t] = "start"]
      BY <1>4, <2>3 DEF IfRunThread
    <3>2. QED
      BY <1>4, <2>1, <2>3, <3>1, ThreadsDisjoint, ContinuousMove DEF IfRunThread
  <2>4. QED
    BY <2>2, <2>3 DEF TypeOK
<1>5. CASE Start(t)
  BY <1>5, ContinuousStart
<1>6. ASSUME NEW l \in Listeners, RegisterListener(t, l) \/ UnregisterListener(t, l)
      PROVE  Continuous'
  BY <1>6, ContinuousStay DEF RegisterListener, UnregisterListener
<1>7. ASSUME NEW l \in Listeners, RequestExclusive(t, l) \/ DiscardExclusive(t, l)
      PROVE  FALSE
  <2>1. exclusive = NULL /\ l # NULL
    BY NullIsNothing DEF Continuous
  <2>2. "requestExclusive" \notin Calls[t]
    BY DEF OnePump
  <2>3. QED
    BY <1>7, <2>1, <2>2 DEF RequestExclusive, DiscardExclusive
<1>8. CASE Grant(t) \/ Discard(t)
  <2>1. pc[t] # "grant" /\ pc[t] # "discard"
    BY DEF Continuous, PumpingAt
  <2>2. QED
    BY <1>8, <2>1 DEF Grant, Discard
<1>9. CASE EnableContinuous(t) \/ DisableContinuous(t) \/ EnableSynchronous(t)
           \/ WriteSynchronous(t)
  <2>1. pc[t] # "setSynchronous" /\ pc[t] # "clearSynchronous"
    BY DEF Continuous, PumpingAt
  <2>2. "setContinuous" \notin Calls[t] /\ "setSynchronous" \notin Calls[t]
    BY DEF OnePump
  <2>3. QED
    BY <1>9, <2>1, <2>2
       DEF EnableContinuous, DisableContinuous, EnableSynchronous, WriteSynchronous
<1>10. QED
  BY <1>1, <1>2, <1>3, <1>4, <1>5, <1>6, <1>7, <1>8, <1>9 DEF App

LEMMA ContinuousRun ==
    ASSUME TypeOK, PopsWhatItDelivers, Continuous,
           NEW w \in Workers, Run(w)
    PROVE  Continuous'
<1> DEFINE Move(label) ==
      /\ pc[w] # "unborn"
      /\ pc' = [pc EXCEPT ![w] = label]
      /\ UNCHANGED <<runContinuously, synchronous, exclusive, fault>>
      /\ runThread' = runThread
<1>1. \A label : /\ Move(label)
                 /\ label \notin {"ifEmpty", "quit", "lockExclusive", "callExclusive"}
                 /\ label = "front" => queue' # << >>
                 => Continuous'
  BY ThreadsDisjoint, ContinuousMove
<1>2. pc[w] # "unborn" => runThread = TRUE
  BY DEF Continuous
<1>3. CASE Enter(w)
  <2>1. Move("while")
    BY <1>2, <1>3 DEF Enter
  <2>2. QED
    BY <1>1, <2>1
<1>4. CASE While(w)
  <2>1. Move("await")
    BY <1>2, <1>4 DEF While
  <2>2. QED
    BY <1>1, <2>1
<1>5. CASE Await(w)
  <2>1. Move("front") /\ queue' # << >>
    BY <1>2, <1>5 DEF Await
  <2>2. QED
    BY <1>1, <2>1
<1>6. CASE TakeFront(w)
  <2>1. queue # << >>
    BY <1>6 DEF TakeFront, Continuous
  <2>2. Move("deliver")
    BY <1>6, <2>1 DEF TakeFront
  <2>3. QED
    BY <1>1, <2>2
<1>7. CASE Pop(w)
  <2>1. Move("delete")
    BY <1>7 DEF Pop
  <2>2. QED
    BY <1>1, <2>1
<1>8. CASE Delete(w)
  <2>1. runContinuously = TRUE
    BY DEF Continuous
  <2>2. Move("while")
    BY <1>8, <2>1 DEF Delete
  <2>3. QED
    BY <1>1, <2>2
<1>9. CASE IfEmpty(w) \/ Quit(w)
  BY <1>9 DEF IfEmpty, Quit, Continuous
<1>10. QED
  BY <1>3, <1>4, <1>5, <1>6, <1>7, <1>8, <1>9 DEF Run

LEMMA ContinuousDeliver ==
    ASSUME TypeOK, Continuous,
           NEW t \in Threads, DeliverMessage(t)
    PROVE  Continuous'
<1> DEFINE Move(label) ==
      /\ pc' = [pc EXCEPT ![t] = label]
      /\ UNCHANGED <<queue, runContinuously, synchronous, exclusive, fault>>
      /\ runThread' = runThread
<1>1. /\ t \in Workers /\ pc[t] # "unborn"
      /\ pc[t] \notin {"lockExclusive", "callExclusive"} /\ exclusive = NULL
  <2>1. pc[t] \in DeliverLabels
    BY DEF DeliverMessage, Deliver, IfListeners, ElseExclusive, LockListener, UnlockListener,
           Accept, Refuse, LockExclusive, AcceptExclusive
  <2>2. t \notin AppThreads
    BY <2>1 DEF Continuous, PumpingAt
  <2>3. QED
    BY <2>1, <2>2 DEF Continuous
<1>2. \A label : Move(label) /\ label \in {"ifListeners", "elseExclusive", "lockListener",
                                         "broadcast", "pop"}
                 => Continuous'
  BY <1>1, ThreadsDisjoint, ContinuousMove
<1>3. CASE Deliver(t)
  <2>1. Move("ifListeners")
    BY <1>1, <1>3 DEF Deliver
  <2>2. QED
    BY <1>2, <2>1
<1>4. CASE IfListeners(t)
  <2>1. Move("lockListener") \/ Move("elseExclusive")
    BY <1>4 DEF IfListeners
  <2>2. QED
    BY <1>2, <2>1
<1>5. CASE ElseExclusive(t)
  <2>1. Move("pop")
    BY <1>1, <1>5 DEF ElseExclusive, Return
  <2>2. QED
    BY <1>2, <2>1
<1>6. CASE LockListener(t)
  <2>1. Move("broadcast")
    BY <1>6 DEF LockListener
  <2>2. QED
    BY <1>2, <2>1
<1>7. CASE UnlockListener(t)
  <2>1. Move("pop")
    BY <1>1, <1>7 DEF UnlockListener, Return
  <2>2. QED
    BY <1>2, <2>1
<1>8. ASSUME NEW l \in Listeners, Accept(t, l) PROVE Continuous'
  BY <1>8, ContinuousStay DEF Accept
<1>9. CASE Refuse(t)
  BY <1>9, ContinuousStay DEF Refuse
<1>10. CASE LockExclusive(t) \/ AcceptExclusive(t)
  BY <1>1, <1>10 DEF LockExclusive, AcceptExclusive
<1>11. QED
  BY <1>3, <1>4, <1>5, <1>6, <1>7, <1>8, <1>9, <1>10 DEF DeliverMessage

LEMMA NextContinuous ==
    ASSUME OnePump
    PROVE  OneWorkerInv /\ [Next]_vars => OneWorkerInv'
<1> SUFFICES ASSUME OneWorkerInv, [Next]_vars PROVE OneWorkerInv'
  OBVIOUS
<1>1. IInv'
  BY NextIInv DEF OneWorkerInv
<1>2. Continuous /\ TypeOK /\ PopsWhatItDelivers
  BY DEF OneWorkerInv, IInv
<1>3. ASSUME UNCHANGED vars PROVE Continuous'
  BY <1>2, <1>3, ContinuousStay DEF vars
<1>4. Continuous'
  BY <1>2, <1>3, ContinuousApp, ContinuousRun, ContinuousDeliver DEF Next, Idle
<1>5. QED
  BY <1>1, <1>4 DEF OneWorkerInv

LEMMA ContinuousIsOneWorker ==
    ASSUME Continuous
    PROVE  OneWorker
<1> DEFINE W == {w \in Workers : pc[w] # "unborn"}
<1>1. \A v, w \in W : v = w
  BY DEF Continuous
<1>2. Cardinality(W) <= 1
  <2> HIDE DEF W
  <2>1. CASE W = {}
    BY <2>1, FS_EmptySet
  <2>2. ASSUME NEW w \in W PROVE Cardinality(W) = 1
    <3>1. W = {w}
      BY <1>1
    <3>2. QED
      BY <3>1, FS_Singleton
  <2>3. QED
    BY <2>1, <2>2
<1>3. fault = "none"
  BY DEF Continuous
<1>4. QED
  BY <1>2, <1>3 DEF OneWorker

LEMMA InitContinuous ==
    ASSUME OnePump, Init
    PROVE  OneWorkerInv
<1>1. IInv
  BY InitIInv
<1>2. /\ runContinuously = TRUE /\ synchronous = FALSE /\ exclusive = NULL /\ fault = "none"
  BY DEF Init, OnePump
<1>3. /\ \A t \in AppThreads : pc[t] = "idle"
      /\ \A w \in Workers : pc[w] = "unborn"
  BY ThreadsDisjoint DEF Init
<1>4. Continuous
  BY <1>2, <1>3 DEF Continuous, PumpingAt
<1>5. QED
  BY <1>1, <1>4 DEF OneWorkerInv

\* With continuous processing from the start and one thread that pumps, at
\* most one worker runs, and no step of the broker is undefined: the test of
\* m_bRunThread in pumpMessage() is then as good as a lock.
THEOREM OnlyOneWorker == OnePump => (Spec => []OneWorker)
<1> SUFFICES ASSUME OnePump PROVE Spec => []OneWorker
  OBVIOUS
<1>1. Init => OneWorkerInv
  BY InitContinuous
<1>2. OneWorkerInv /\ [Next]_vars => OneWorkerInv'
  BY NextContinuous
<1>3. OneWorkerInv => OneWorker
  BY ContinuousIsOneWorker DEF OneWorkerInv
<1>4. QED
  BY <1>1, <1>2, <1>3, PTL DEF Spec
=============================================================================
