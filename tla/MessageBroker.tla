--------------------------- MODULE MessageBroker ---------------------------
(***************************************************************************)
(* One oocl::MessageBroker: the queue, the list of listeners, the three    *)
(* mutexes, and the threads that run its methods.  Application threads     *)
(* call the public methods in any order; each start() of the broker's      *)
(* Thread makes one more worker execute run().                             *)
(*                                                                         *)
(* An action is a step between two accesses to shared state.  The flags    *)
(* and the pointer to the exclusive listener are read and written without  *)
(* a lock by the code, so every such access is a step of its own.  A       *)
(* lock; update; unlock of a mutex nobody can be inside of is one step     *)
(* that waits for the mutex.  Mutex is a plain pthread mutex: lock()       *)
(* blocks, also the thread that already owns it.                           *)
(***************************************************************************)
EXTENDS Naturals, Sequences, FiniteSets, Functions

CONSTANTS
    AppThreads,        \* threads of the program that call the public methods
    Workers,           \* threads that start() can create; more is the limit
    Listeners,         \* objects with a cbMessage
    Messages,          \* each is allocated and pumped at most once
    NULL,              \* the null pointer; also: no owner, no argument
    Calls,             \* which public methods each application thread calls
    StartListeners,    \* the listeners registered while setting up
    StartContinuous,   \* enableContinuousProcessing() called while setting up
    MaxRegistrations   \* bound on the length of m_lListeners

MethodNames == {"pumpMessage", "registerListener", "unregisterListener",
                "requestExclusive", "discardExclusive",
                "setContinuous", "setSynchronous"}

Threads == AppThreads \cup Workers

ASSUME ThreadsDisjoint == AppThreads \cap Workers = {}
ASSUME NullIsNothing == NULL \notin Threads \cup Listeners \cup Messages
ASSUME CallsAssumption == Calls \in [AppThreads -> SUBSET MethodNames]
ASSUME StartAssumption == /\ StartListeners \in Seq(Listeners)
                          /\ StartContinuous \in BOOLEAN
                          /\ MaxRegistrations \in Nat

VARIABLES
    queue,        \* m_lMessageQueue
    listeners,    \* m_lListeners
    exclusive,    \* m_pExclusiveListener
    runThread,    \* m_bRunThread
    runContinuously,  \* m_bRunContinuously
    synchronous,  \* m_bSynchronous
    mxQueue, mxListener, mxExclusive,  \* the owner of each mutex, or NULL
    pc,           \* where each thread is
    msg,          \* the pMessage each thread works on, or NULL
    arg,          \* the pListener an application thread passed, or NULL
    wait,         \* lWaitList of each thread that broadcasts
    more,         \* the worker's result of !m_lMessageQueue.empty()
    fault,        \* the undefined behaviour the program ran into, or "none"
    \* history, read by no guard:
    fresh,        \* messages not pumped yet
    pushed,       \* every message that entered the queue, in order
    popped,       \* how many of them left it
    freed,        \* messages the workers deleted
    got,          \* the messages each listener accepted, in order
    since,        \* Len(pushed) when a listener came onto the list
    holders       \* listeners whose request for exclusiveness returned true

flags    == <<runThread, runContinuously, synchronous>>
mutexes  == <<mxQueue, mxListener, mxExclusive>>
locals   == <<msg, arg, wait, more>>
history  == <<fresh, pushed, popped, freed, got, since, holders>>
vars     == <<queue, listeners, exclusive, flags, mutexes, pc, locals, fault,
              history>>

AppLabels     == {"idle", "ifSynchronous", "push", "ifRunThread", "start",
                  "grant", "discard", "clearSynchronous", "setSynchronous"}
WorkerLabels  == {"unborn", "enter", "while", "await", "front", "pop",
                  "delete", "ifEmpty", "quit"}
DeliverLabels == {"deliver", "ifListeners", "elseExclusive", "lockListener",
                  "broadcast", "lockExclusive", "callExclusive"}

PcType ==
    /\ pc \in [Threads -> AppLabels \cup WorkerLabels \cup DeliverLabels]
    /\ \A t \in AppThreads : pc[t] \in AppLabels \cup DeliverLabels
    /\ \A w \in Workers : pc[w] \in WorkerLabels \cup DeliverLabels

\* A thread is only at labels of the methods it executes: application threads
\* never in run(), workers only in run() and deliverMessage.
TypeOK ==
    /\ queue \in Seq(Messages)
    /\ listeners \in Seq(Listeners)
    /\ exclusive \in Listeners \cup {NULL}
    /\ runThread \in BOOLEAN /\ runContinuously \in BOOLEAN
    /\ synchronous \in BOOLEAN
    /\ mxQueue \in Threads \cup {NULL}
    /\ mxListener \in Threads \cup {NULL}
    /\ mxExclusive \in Threads \cup {NULL}
    /\ PcType
    /\ msg \in [Threads -> Messages \cup {NULL}]
    /\ arg \in [AppThreads -> Listeners \cup {NULL}]
    /\ wait \in [Threads -> Seq(Listeners)]
    /\ more \in [Workers -> BOOLEAN]
    /\ fault \in {"none", "frontOfEmpty", "nullListener"}
    /\ fresh \in SUBSET Messages
    /\ pushed \in Seq(Messages)
    /\ popped \in Nat
    /\ freed \in SUBSET Messages
    /\ got \in [Listeners -> Seq(Messages)]
    /\ since \in [Listeners -> Nat]
    /\ holders \in SUBSET Listeners

Init ==
    /\ queue = << >>
    /\ listeners = StartListeners
    /\ exclusive = NULL
    /\ runThread = FALSE
    /\ runContinuously = StartContinuous
    /\ synchronous = FALSE
    /\ mxQueue = NULL /\ mxListener = NULL /\ mxExclusive = NULL
    /\ pc = [t \in Threads |-> IF t \in AppThreads THEN "idle" ELSE "unborn"]
    /\ msg = [t \in Threads |-> NULL]
    /\ arg = [t \in AppThreads |-> NULL]
    /\ wait = [t \in Threads |-> << >>]
    /\ more = [w \in Workers |-> FALSE]
    /\ fault = "none"
    /\ fresh = Messages
    /\ pushed = << >> /\ popped = 0 /\ freed = {}
    /\ got = [l \in Listeners |-> << >>]
    /\ since = [l \in Listeners |-> 0]
    /\ holders = {}

\* Where thread t is, in a program that has not run into a fault yet.
At(t, label)   == fault = "none" /\ pc[t] = label
Goto(t, label) == pc' = [pc EXCEPT ![t] = label]
\* Only the control of thread t moves, after a test or without one.
Jump(t, from, to) ==
    /\ At(t, from)
    /\ Goto(t, to)
    /\ UNCHANGED <<queue, listeners, exclusive, flags, mutexes, locals, fault,
                   history>>

\* Mutex::lock() blocks while the mutex is locked.  Fault: it does not, as
\* on Windows, where Mutex.cpp:55 gives the wait a timeout of 0.
Ignore(mx) == TRUE
Free(mx)   == mx = NULL

\* std::queue: push() at one end, front() at the other.  Faults: the wrong end.
PushFront(q, m) == <<m>> \o q
Enqueue(q, m)   == Append(q, m)
Back(q)         == q[Len(q)]
Front(q)        == Head(q)

MayCall(t, method) == At(t, "idle") /\ method \in Calls[t]

-----------------------------------------------------------------------------
(* pumpMessage: a message is dropped when no listener is registered, given *)
(* to the listeners by the caller in synchronous mode, and queued else.    *)

PumpMessage(t, m) ==
    /\ MayCall(t, "pumpMessage")
    /\ m \in fresh
    /\ fresh' = fresh \ {m}
    /\ IF listeners # << >>
          THEN Goto(t, "ifSynchronous") /\ msg' = [msg EXCEPT ![t] = m]
          ELSE UNCHANGED <<pc, msg>>
    /\ UNCHANGED <<queue, listeners, exclusive, flags, mutexes, arg, wait,
                   more, fault, pushed, popped, freed, got, since, holders>>

IfSynchronous(t) ==
    Jump(t, "ifSynchronous", IF synchronous THEN "deliver" ELSE "push")

Push(t) ==
    /\ At(t, "push")
    /\ Free(mxQueue)
    /\ queue' = Enqueue(queue, msg[t])
    /\ pushed' = Append(pushed, msg[t])
    /\ msg' = [msg EXCEPT ![t] = NULL]
    /\ Goto(t, "ifRunThread")
    /\ UNCHANGED <<listeners, exclusive, flags, mutexes, arg, wait, more,
                   fault, fresh, popped, freed, got, since, holders>>

\* Faults: start() without the test, and after the test the wrong way round.
AlwaysStart(t)    == Jump(t, "ifRunThread", "start")
StartIfRunning(t) == Jump(t, "ifRunThread", IF runThread THEN "start" ELSE "idle")

IfRunThread(t) ==
    Jump(t, "ifRunThread", IF runThread THEN "idle" ELSE "start")

\* When no thread can be created start() returns false, which is ignored.
Start(t) ==
    /\ At(t, "start")
    /\ runThread' = TRUE
    /\ \/ \E w \in Workers :
             /\ At(w, "unborn")
             /\ pc' = [pc EXCEPT ![t] = "idle", ![w] = "enter"]
       \/ /\ \A w \in Workers : ~At(w, "unborn")
          /\ Goto(t, "idle")
    /\ UNCHANGED <<queue, listeners, exclusive, runContinuously, synchronous,
                   mutexes, locals, fault, history>>

-----------------------------------------------------------------------------
(* The other public methods. *)

RegisterListener(t, l) ==
    /\ MayCall(t, "registerListener")
    /\ Free(mxListener)
    /\ Len(listeners) < MaxRegistrations
    /\ listeners' = Append(listeners, l)
    /\ since' = IF l \in Range(listeners) THEN since
                ELSE [since EXCEPT ![l] = Len(pushed)]
    /\ UNCHANGED <<queue, exclusive, flags, mutexes, pc, locals, fault, fresh,
                   pushed, popped, freed, got, holders>>

\* r is list s after list::remove(l): every copy of l is gone, the others
\* keep their order.
IsWithout(r, s, l) ==
    \E keep \in [DOMAIN r -> DOMAIN s] :
        /\ Range(keep) = {i \in DOMAIN s : s[i] # l}
        /\ \A i, j \in DOMAIN r : i < j => keep[i] < keep[j]
        /\ \A i \in DOMAIN r : r[i] = s[keep[i]]

UnregisterListener(t, l) ==
    /\ MayCall(t, "unregisterListener")
    /\ Free(mxListener)
    /\ l \in Range(listeners)
    /\ \E n \in 0 .. Len(listeners) : \E r \in [1 .. n -> Listeners] :
          /\ IsWithout(r, listeners, l)
          /\ listeners' = r
    /\ UNCHANGED <<queue, exclusive, flags, mutexes, pc, locals, fault,
                   history>>

\* A request while another listener is exclusive returns false: no step.
RequestExclusive(t, l) ==
    /\ MayCall(t, "requestExclusive")
    /\ exclusive = NULL
    /\ arg' = [arg EXCEPT ![t] = l]
    /\ Goto(t, "grant")
    /\ UNCHANGED <<queue, listeners, exclusive, flags, mutexes, msg, wait,
                   more, fault, history>>

Grant(t) ==
    /\ At(t, "grant")
    /\ Free(mxExclusive)
    /\ exclusive' = arg[t]
    /\ holders' = holders \cup {arg[t]}
    /\ arg' = [arg EXCEPT ![t] = NULL]
    /\ Goto(t, "idle")
    /\ UNCHANGED <<queue, listeners, flags, mutexes, msg, wait, more, fault,
                   fresh, pushed, popped, freed, got, since>>

DiscardExclusive(t, l) ==
    /\ MayCall(t, "discardExclusive")
    /\ exclusive = l
    /\ arg' = [arg EXCEPT ![t] = l]
    /\ Goto(t, "discard")
    /\ UNCHANGED <<queue, listeners, exclusive, flags, mutexes, msg, wait,
                   more, fault, history>>

Discard(t) ==
    /\ At(t, "discard")
    /\ Free(mxExclusive)
    /\ exclusive' = NULL
    /\ holders' = holders \ {arg[t]}
    /\ arg' = [arg EXCEPT ![t] = NULL]
    /\ Goto(t, "idle")
    /\ UNCHANGED <<queue, listeners, flags, mutexes, msg, wait, more, fault,
                   fresh, pushed, popped, freed, got, since>>

EnableContinuous(t) ==
    /\ MayCall(t, "setContinuous")
    /\ runContinuously' = TRUE
    /\ Goto(t, "clearSynchronous")
    /\ UNCHANGED <<queue, listeners, exclusive, runThread, synchronous,
                   mutexes, locals, fault, history>>

DisableContinuous(t) ==
    /\ MayCall(t, "setContinuous")
    /\ runContinuously' = FALSE
    /\ UNCHANGED <<queue, listeners, exclusive, runThread, synchronous,
                   mutexes, pc, locals, fault, history>>

EnableSynchronous(t) ==
    /\ MayCall(t, "setSynchronous")
    /\ runContinuously' = FALSE
    /\ Goto(t, "setSynchronous")
    /\ UNCHANGED <<queue, listeners, exclusive, runThread, synchronous,
                   mutexes, locals, fault, history>>

\* disableSynchronousMessaging() is the single assignment by which
\* enableContinuousProcessing() ends.
WriteSynchronous(t) ==
    /\ \/ At(t, "setSynchronous") /\ synchronous' = TRUE
       \/ At(t, "clearSynchronous") /\ synchronous' = FALSE
       \/ MayCall(t, "setSynchronous") /\ synchronous' = FALSE
    /\ Goto(t, "idle")
    /\ UNCHANGED <<queue, listeners, exclusive, runThread, runContinuously,
                   mutexes, locals, fault, history>>

-----------------------------------------------------------------------------
(* run(), as each worker executes it. *)

Enter(w) ==
    /\ At(w, "enter")
    /\ runThread' = TRUE
    /\ Goto(w, "while")
    /\ UNCHANGED <<queue, listeners, exclusive, runContinuously, synchronous,
                   mutexes, locals, fault, history>>

\* A worker that leaves run() ends, and its thread can be created again.
While(w) == Jump(w, "while", IF runThread THEN "await" ELSE "unborn")

Await(w) ==
    /\ queue # << >> \/ ~runThread
    /\ Jump(w, "await", "front")

\* Takes mxQueue, which stays locked until the message is popped.
TakeFront(w) ==
    /\ At(w, "front")
    /\ Free(mxQueue)
    /\ mxQueue' = w
    /\ IF queue = << >>
          THEN fault' = "frontOfEmpty" /\ UNCHANGED <<pc, msg>>
          ELSE /\ msg' = [msg EXCEPT ![w] = Front(queue)]
               /\ Goto(w, "deliver")
               /\ UNCHANGED fault
    /\ UNCHANGED <<queue, listeners, exclusive, flags, mxListener,
                   mxExclusive, arg, wait, more, history>>

Pop(w) ==
    /\ At(w, "pop")
    /\ queue' = Tail(queue)
    /\ popped' = popped + 1
    /\ mxQueue' = NULL
    /\ Goto(w, "delete")
    /\ UNCHANGED <<listeners, exclusive, flags, mxListener, mxExclusive,
                   locals, fault, fresh, pushed, freed, got, since, holders>>

Delete(w) ==
    /\ At(w, "delete")
    /\ freed' = freed \cup {msg[w]}
    /\ msg' = [msg EXCEPT ![w] = NULL]
    /\ Goto(w, IF runContinuously THEN "while" ELSE "ifEmpty")
    /\ UNCHANGED <<queue, listeners, exclusive, flags, mutexes, arg, wait,
                   more, fault, fresh, pushed, popped, got, since, holders>>

\* m_bRunThread = !m_lMessageQueue.empty() reads, and only then writes.
IfEmpty(w) ==
    /\ At(w, "ifEmpty")
    /\ more' = [more EXCEPT ![w] = (queue # << >>)]
    /\ Goto(w, "quit")
    /\ UNCHANGED <<queue, listeners, exclusive, flags, mutexes, msg, arg,
                   wait, fault, history>>

Quit(w) ==
    /\ At(w, "quit")
    /\ runThread' = more[w]
    /\ more' = [more EXCEPT ![w] = FALSE]
    /\ Goto(w, "while")
    /\ UNCHANGED <<queue, listeners, exclusive, runContinuously, synchronous,
                   mutexes, msg, arg, wait, fault, history>>

-----------------------------------------------------------------------------
(* deliverMessage, called by a worker or by pumpMessage in synchronous     *)
(* mode.  Which branch is taken is decided before any lock is taken.       *)

Deliver(t) ==
    Jump(t, "deliver", IF exclusive = NULL THEN "ifListeners" ELSE "elseExclusive")

IfListeners(t) ==
    Jump(t, "ifListeners",
         IF listeners # << >> THEN "lockListener" ELSE "elseExclusive")

\* Fault: the worker returns without popping the message.
ReturnToCaller(t) ==
    /\ Goto(t, "idle")
    /\ msg' = [msg EXCEPT ![t] = NULL]

\* What follows deliverMessage: pop() in run(), the end of pumpMessage.
Return(t) ==
    /\ Goto(t, IF t \in Workers THEN "pop" ELSE "idle")
    /\ msg' = IF t \in Workers THEN msg ELSE [msg EXCEPT ![t] = NULL]

\* Neither branch is taken when the exclusive listener was discarded, or no
\* listener is left: the message is given to nobody.
ElseExclusive(t) ==
    /\ At(t, "elseExclusive")
    /\ IF exclusive # NULL THEN Goto(t, "lockExclusive") /\ UNCHANGED msg
                           ELSE Return(t)
    /\ UNCHANGED <<queue, listeners, exclusive, flags, mutexes, arg, wait,
                   more, fault, history>>

LockListener(t) ==
    /\ At(t, "lockListener")
    /\ Free(mxListener)
    /\ mxListener' = t
    /\ wait' = [wait EXCEPT ![t] = listeners]
    /\ Goto(t, "broadcast")
    /\ UNCHANGED <<queue, listeners, exclusive, flags, mxQueue, mxExclusive,
                   msg, arg, more, fault, history>>

Accept(t, l) ==
    /\ At(t, "broadcast")
    /\ wait[t] # << >> /\ l = Head(wait[t])
    /\ got' = [got EXCEPT ![l] = Append(@, msg[t])]
    /\ wait' = [wait EXCEPT ![t] = Tail(@)]
    /\ UNCHANGED <<queue, listeners, exclusive, flags, mutexes, pc, msg, arg,
                   more, fault, fresh, pushed, popped, freed, since, holders>>

\* Faults: a refusal is forgotten; the refusing listener is kept and added
\* again; it is asked again at once.
Forget(s)   == Tail(s)
AskTwice(s) == Append(s, Head(s))
AskNow(s)   == s

\* A listener that returns false is asked again after all the others.
AskLater(s) == Append(Tail(s), Head(s))

Refuse(t) ==
    /\ At(t, "broadcast")
    /\ wait[t] # << >>
    /\ wait' = [wait EXCEPT ![t] = AskLater(@)]
    /\ UNCHANGED <<queue, listeners, exclusive, flags, mutexes, pc, msg, arg,
                   more, fault, history>>

UnlockListener(t) ==
    /\ At(t, "broadcast")
    /\ wait[t] = << >>
    /\ mxListener' = NULL
    /\ Return(t)
    /\ UNCHANGED <<queue, listeners, exclusive, flags, mxQueue, mxExclusive,
                   arg, wait, more, fault, history>>

LockExclusive(t) ==
    /\ At(t, "lockExclusive")
    /\ Free(mxExclusive)
    /\ mxExclusive' = t
    /\ IF exclusive = NULL
          THEN fault' = "nullListener" /\ UNCHANGED pc
          ELSE Goto(t, "callExclusive") /\ UNCHANGED fault
    /\ UNCHANGED <<queue, listeners, exclusive, flags, mxQueue, mxListener,
                   locals, history>>

\* Called again at once while it returns false, which changes nothing.
AcceptExclusive(t) ==
    /\ At(t, "callExclusive")
    /\ got' = [got EXCEPT ![exclusive] = Append(@, msg[t])]
    /\ mxExclusive' = NULL
    /\ Return(t)
    /\ UNCHANGED <<queue, listeners, exclusive, flags, mxQueue, mxListener,
                   arg, wait, more, fault, fresh, pushed, popped, freed,
                   since, holders>>

-----------------------------------------------------------------------------
App(t) ==
    \/ \E m \in Messages : PumpMessage(t, m)
    \/ IfSynchronous(t) \/ Push(t) \/ IfRunThread(t) \/ Start(t)
    \/ \E l \in Listeners : \/ RegisterListener(t, l)
                            \/ UnregisterListener(t, l)
                            \/ RequestExclusive(t, l)
                            \/ DiscardExclusive(t, l)
    \/ Grant(t) \/ Discard(t)
    \/ EnableContinuous(t) \/ DisableContinuous(t)
    \/ EnableSynchronous(t) \/ WriteSynchronous(t)

Run(w) ==
    \/ Enter(w) \/ While(w) \/ Await(w) \/ TakeFront(w)
    \/ Pop(w) \/ Delete(w) \/ IfEmpty(w) \/ Quit(w)

DeliverMessage(t) ==
    \/ Deliver(t) \/ IfListeners(t) \/ ElseExclusive(t)
    \/ LockListener(t) \/ UnlockListener(t)
    \/ \E l \in Listeners : Accept(t, l)
    \/ Refuse(t)
    \/ LockExclusive(t) \/ AcceptExclusive(t)

\* The application calls nothing more, and the workers have ended or wait;
\* or the program has run into undefined behaviour.
Idle ==
    /\ \/ fault # "none"
       \/ /\ \A t \in AppThreads : At(t, "idle")
          /\ \A w \in Workers : \/ At(w, "unborn")
                                \/ At(w, "await") /\ queue = << >> /\ runThread
    /\ UNCHANGED vars

Next ==
    \/ \E t \in AppThreads : App(t)
    \/ \E w \in Workers : Run(w)
    \/ \E t \in Threads : DeliverMessage(t)
    \/ Idle

Spec == Init /\ [][Next]_vars

\* The worker asks the next listener; when it is the only one that is left and
\* refuses, it is asked again, and nothing has changed.
AskNext(t) ==
    /\ pc[t] = "broadcast" /\ wait[t] # << >> /\ AskLater(wait[t]) # wait[t]
    /\ Refuse(t) \/ \E l \in Listeners : Accept(t, l)

\* The scheduler runs every thread that can run, and cbMessage returns,
\* whether true or false.  Nothing makes the application call a method, makes
\* a listener accept, or gives a mutex to one of the threads that compete.
Fairness ==
    /\ \A t \in AppThreads : WF_vars(IfRunThread(t) \/ Start(t))
    /\ \A w \in Workers :
          /\ WF_vars(Run(w))
          /\ WF_vars(\/ Deliver(w) \/ IfListeners(w) \/ ElseExclusive(w)
                     \/ LockListener(w) \/ UnlockListener(w)
                     \/ LockExclusive(w))
          /\ WF_vars(AskNext(w))
FairSpec == Spec /\ Fairness

-----------------------------------------------------------------------------
(* Properties. *)

\* The message a worker pops and deletes is the one it delivered: from
\* front() to pop() the worker owns mxQueue and its message is the first
\* (MessageBroker.cpp:228-234; the queue is otherwise read without the lock).
PopsWhatItDelivers ==
    \A w \in Workers : pc[w] \in DeliverLabels \cup {"pop"} =>
        mxQueue = w /\ queue # << >> /\ Head(queue) = msg[w]

\* No thread delivers, queues or deletes a message a worker has deleted, with
\* however many workers the unguarded start() makes (MessageBroker.cpp:118,237).
NoUseAfterDelete ==
    /\ \A t \in Threads : msg[t] # NULL => msg[t] \notin freed
    /\ \A w \in Workers : pc[w] = "delete" =>
          /\ msg[w] \notin Range(queue)
          /\ \A t \in Threads \ {w} : msg[t] # msg[w]
    /\ Range(queue) \cap freed = {}

\* The broker delivers queued messages one at a time and in order: it
\* implements OrderedDelivery, with the history as the abstract state.
Abstract == INSTANCE OrderedDelivery WITH submitted <- pushed, completed <- popped
ImplementsOrderedDelivery == Abstract!Spec

\* A listener accepts queued messages in the order in which they were queued,
\* whatever refuses, registers or becomes exclusive in between.
InOrder == Abstract!InOrder

Copies(s, x) == Cardinality({i \in DOMAIN s : s[i] = x})

\* While a message is handed round, every registration either has accepted it
\* once or is still waiting: none is forgotten, called twice or lost by a
\* refusal, and the list does not change (MessageBroker.cpp:256-268).
OncePerRegistration ==
    \A t \in Threads : pc[t] = "broadcast" =>
        \A l \in Listeners :
            Copies(listeners, l) = Copies(wait[t], l) + Copies(got[l], msg[t])

\* Once unregisterListener has returned the listener is not called again
\* unless it is registered again or exclusive: every listener that a broadcast
\* will call is on the list (MessageBroker.cpp:92-94 against 256-268).
OnlyRegisteredCalled ==
    \A t \in Threads : pc[t] = "broadcast" => Range(wait[t]) \subseteq Range(listeners)

\* A listener that was on the list when a message was queued, and stayed on
\* it, has accepted the message when it is popped.  For programs that never
\* request exclusive messaging.
NoListenerSkipped ==
    \A l \in Range(listeners) : \A i \in since[l] + 1 .. popped :
        pushed[i] \in Range(got[l])

\* A mutex is owned exactly while its owner is between lock() and unlock():
\* no early return, branch or fault-free path leaves one locked.
LockDiscipline ==
    fault = "none" =>
        /\ \A t \in Threads : mxQueue = t <=>
              t \in Workers /\ pc[t] \in DeliverLabels \cup {"pop"}
        /\ \A t \in Threads : mxListener = t <=> pc[t] = "broadcast"
        /\ \A t \in Threads : mxExclusive = t <=> pc[t] = "callExclusive"

\* The listener l does not refuse for ever: when it is asked again and again
\* it accepts.
Accepts(t, l) == Accept(t, l) \/ (exclusive = l /\ AcceptExclusive(t))
Patient(l) == SF_vars(\E t \in Threads : Accepts(t, l))

\* Every queued message is delivered and deleted, and the broker comes to rest
\* with an empty queue.  For continuous processing and one pumping thread.
EventuallyDelivered ==
    (\A l \in Listeners : Patient(l)) =>
        \A m \in Messages : m \in Range(pushed) ~> m \in freed

\* A listener that refuses a message for ever does not keep it from the others
\* (MessageBroker.cpp:263-265).
RefusalStarvesNobody ==
    \A l \in Listeners : Patient(l) =>
        \A m \in Messages :
            (\E t \in Threads : /\ pc[t] = "broadcast" /\ msg[t] = m
                                /\ l \in Range(wait[t]))
                ~> m \in Range(got[l])

\* With continuous processing from the start and one pumping thread there is
\* one worker, and it never takes a message off an empty queue.
OneWorker ==
    /\ Cardinality({w \in Workers : pc[w] # "unborn"}) <= 1
    /\ fault = "none"

(* What comments of the code say, and the code does not do. *)

\* MessageBroker.cpp:227 takes "the queues first element": there is one, even
\* with a single thread pumping.
FrontOfNonEmpty == fault # "frontOfEmpty"

\* MessageBroker.cpp:100 "Send a message to all registered listeners": a queued
\* message is some time delivered, with a single thread pumping, a listener
\* that is always registered and no listener that refuses for ever.
EveryMessageDelivered ==
    (\A l \in Listeners : Patient(l)) =>
        \A m \in Messages :
            m \in Range(pushed) ~> m \in freed \/ fault # "none"

\* MessageBroker.cpp:129 "only the given MessageListener gets messages until
\* discarded": nobody else accepts a message while a request that returned
\* true is not discarded.
ExclusiveOnly ==
    [][\A l \in Listeners : got'[l] # got[l] => holders \subseteq {l}]_vars

=============================================================================
