------------------------ MODULE MessageBroker_proofs ------------------------
(* Theorems about MessageBroker, for any threads, listeners and messages. *)
EXTENDS MessageBroker, TLAPS

USE DEF Threads, At, Goto, MayCall, Jump, Free, Enqueue, Front
USE DEF flags, mutexes, locals, history
USE DEF AppLabels, WorkerLabels, DeliverLabels

-----------------------------------------------------------------------------
(* Where each thread is. *)

LEMMA PcApp ==
    ASSUME PcType,
           NEW t \in AppThreads, App(t)
    PROVE  PcType'
<1> USE ThreadsDisjoint DEF PcType
<1>1. ASSUME NEW m \in Messages, PumpMessage(t, m) PROVE PcType'
  BY <1>1 DEF PumpMessage
<1>2. CASE IfSynchronous(t)
  BY <1>2 DEF IfSynchronous
<1>3. CASE Push(t)
  BY <1>3 DEF Push
<1>4. CASE IfRunThread(t)
  BY <1>4 DEF IfRunThread
<1>5. CASE Start(t)
  BY <1>5 DEF Start
<1>6. ASSUME NEW l \in Listeners, RegisterListener(t, l) PROVE PcType'
  BY <1>6 DEF RegisterListener
<1>7. ASSUME NEW l \in Listeners, UnregisterListener(t, l) PROVE PcType'
  BY <1>7 DEF UnregisterListener
<1>8. ASSUME NEW l \in Listeners, RequestExclusive(t, l) PROVE PcType'
  BY <1>8 DEF RequestExclusive
<1>9. ASSUME NEW l \in Listeners, DiscardExclusive(t, l) PROVE PcType'
  BY <1>9 DEF DiscardExclusive
<1>10. CASE Grant(t)
  BY <1>10 DEF Grant
<1>11. CASE Discard(t)
  BY <1>11 DEF Discard
<1>12. CASE EnableContinuous(t)
  BY <1>12 DEF EnableContinuous
<1>13. CASE DisableContinuous(t)
  BY <1>13 DEF DisableContinuous
<1>14. CASE EnableSynchronous(t)
  BY <1>14 DEF EnableSynchronous
<1>15. CASE WriteSynchronous(t)
  BY <1>15 DEF WriteSynchronous
<1> QED
  BY <1>1, <1>2, <1>3, <1>4, <1>5, <1>6, <1>7, <1>8, <1>9, <1>10, <1>11, 
     <1>12, <1>13, <1>14, <1>15 DEF App

LEMMA PcRun ==
    ASSUME PcType,
           NEW w \in Workers, Run(w)
    PROVE  PcType'
<1> USE ThreadsDisjoint DEF PcType
<1>1. CASE Enter(w)
  BY <1>1 DEF Enter
<1>2. CASE While(w)
  BY <1>2 DEF While
<1>3. CASE Await(w)
  BY <1>3 DEF Await
<1>4. CASE TakeFront(w)
  BY <1>4 DEF TakeFront
<1>5. CASE Pop(w)
  BY <1>5 DEF Pop
<1>6. CASE Delete(w)
  BY <1>6 DEF Delete
<1>7. CASE IfEmpty(w)
  BY <1>7 DEF IfEmpty
<1>8. CASE Quit(w)
  BY <1>8 DEF Quit
<1> QED
  BY <1>1, <1>2, <1>3, <1>4, <1>5, <1>6, <1>7, <1>8 DEF Run

LEMMA PcDeliver ==
    ASSUME PcType,
           NEW t \in Threads, DeliverMessage(t)
    PROVE  PcType'
<1> USE ThreadsDisjoint DEF PcType
<1>1. CASE Deliver(t)
  BY <1>1 DEF Deliver
<1>2. CASE IfListeners(t)
  BY <1>2 DEF IfListeners
<1>3. CASE ElseExclusive(t)
  BY <1>3 DEF ElseExclusive, Return
<1>4. CASE LockListener(t)
  BY <1>4 DEF LockListener
<1>5. ASSUME NEW l \in Listeners, Accept(t, l) PROVE PcType'
  BY <1>5 DEF Accept
<1>6. CASE Refuse(t)
  BY <1>6 DEF Refuse
<1>7. CASE UnlockListener(t)
  BY <1>7 DEF UnlockListener, Return
<1>8. CASE LockExclusive(t)
  BY <1>8 DEF LockExclusive
<1>9. CASE AcceptExclusive(t)
  BY <1>9 DEF AcceptExclusive, Return
<1> QED
  BY <1>1, <1>2, <1>3, <1>4, <1>5, <1>6, <1>7, <1>8, <1>9 DEF DeliverMessage

-----------------------------------------------------------------------------
(* Types.  A thread that is to queue, deliver, pop or delete a message has  *)
(* one, and a thread that is to store an exclusive listener has it.         *)

HasMessage ==
    \A t \in Threads :
        pc[t] \in DeliverLabels \cup {"ifSynchronous", "push", "pop", "delete"}
            => msg[t] # NULL
HasListener ==
    \A t \in AppThreads : pc[t] \in {"grant", "discard"} => arg[t] # NULL

LEMMA TypeApp ==
    ASSUME TypeOK, PcType', HasMessage, HasListener,
           NEW t \in AppThreads, App(t)
    PROVE  TypeOK'
<1> USE DEF TypeOK, HasMessage, HasListener
<1>1. ASSUME NEW m \in Messages, PumpMessage(t, m) PROVE TypeOK'
  BY <1>1 DEF PumpMessage
<1>2. CASE IfSynchronous(t)
  BY <1>2 DEF IfSynchronous
<1>3. CASE Push(t)
  BY <1>3 DEF Push
<1>4. CASE IfRunThread(t)
  BY <1>4 DEF IfRunThread
<1>5. CASE Start(t)
  BY <1>5 DEF Start
<1>6. ASSUME NEW l \in Listeners, RegisterListener(t, l) PROVE TypeOK'
  BY <1>6 DEF RegisterListener
<1>7. ASSUME NEW l \in Listeners, UnregisterListener(t, l) PROVE TypeOK'
  <2>1. listeners' \in Seq(Listeners)
    <3>1. PICK n \in 0 .. Len(listeners) :
            \E r \in [1 .. n -> Listeners] : listeners' = r
      BY <1>7 DEF UnregisterListener
    <3>2. n \in Nat
      OBVIOUS
    <3>3. QED
      BY <3>1, <3>2
  <2>2. QED
    BY <1>7, <2>1 DEF UnregisterListener
<1>8. ASSUME NEW l \in Listeners, RequestExclusive(t, l) PROVE TypeOK'
  BY <1>8 DEF RequestExclusive
<1>9. ASSUME NEW l \in Listeners, DiscardExclusive(t, l) PROVE TypeOK'
  BY <1>9 DEF DiscardExclusive
<1>10. CASE Grant(t)
  BY <1>10 DEF Grant
<1>11. CASE Discard(t)
  BY <1>11 DEF Discard
<1>12. CASE EnableContinuous(t)
  BY <1>12 DEF EnableContinuous
<1>13. CASE DisableContinuous(t)
  BY <1>13 DEF DisableContinuous
<1>14. CASE EnableSynchronous(t)
  BY <1>14 DEF EnableSynchronous
<1>15. CASE WriteSynchronous(t)
  BY <1>15 DEF WriteSynchronous
<1> QED
  BY <1>1, <1>2, <1>3, <1>4, <1>5, <1>6, <1>7, <1>8, <1>9, <1>10, <1>11, 
     <1>12, <1>13, <1>14, <1>15 DEF App

LEMMA TypeRun ==
    ASSUME TypeOK, PcType', HasMessage, PopsWhatItDelivers,
           NEW w \in Workers, Run(w)
    PROVE  TypeOK'
<1> USE DEF TypeOK, HasMessage, HasListener
<1>1. CASE Enter(w)
  BY <1>1 DEF Enter
<1>2. CASE While(w)
  BY <1>2 DEF While
<1>3. CASE Await(w)
  BY <1>3 DEF Await
<1>4. CASE TakeFront(w)
  <2>1. msg' \in [Threads -> Messages \cup {NULL}]
    <3>1. CASE queue = << >>
      BY <1>4, <3>1 DEF TakeFront
    <3>2. CASE queue # << >>
      <4>1. Head(queue) \in Messages
        BY <3>2
      <4>2. msg' = [msg EXCEPT ![w] = Head(queue)]
        BY <1>4, <3>2 DEF TakeFront
      <4>3. QED
        BY <4>1, <4>2
    <3>3. QED
      BY <3>1, <3>2
  <2>2. QED
    BY <1>4, <2>1 DEF TakeFront
<1>5. CASE Pop(w)
  <2>1. queue # << >>
    BY <1>5 DEF Pop, PopsWhatItDelivers
  <2>2. queue' \in Seq(Messages)
    BY <1>5, <2>1 DEF Pop
  <2>3. QED
    BY <1>5, <2>2 DEF Pop
<1>6. CASE Delete(w)
  BY <1>6 DEF Delete
<1>7. CASE IfEmpty(w)
  BY <1>7 DEF IfEmpty
<1>8. CASE Quit(w)
  BY <1>8 DEF Quit
<1> QED
  BY <1>1, <1>2, <1>3, <1>4, <1>5, <1>6, <1>7, <1>8 DEF Run

LEMMA TypeDeliver ==
    ASSUME TypeOK, PcType', HasMessage,
           NEW t \in Threads, DeliverMessage(t)
    PROVE  TypeOK'
<1> USE DEF TypeOK, HasMessage, HasListener
<1>1. CASE Deliver(t)
  BY <1>1 DEF Deliver
<1>2. CASE IfListeners(t)
  BY <1>2 DEF IfListeners
<1>3. CASE ElseExclusive(t)
  BY <1>3 DEF ElseExclusive, Return
<1>4. CASE LockListener(t)
  BY <1>4 DEF LockListener
<1>5. ASSUME NEW l \in Listeners, Accept(t, l) PROVE TypeOK'
  <2>1. msg[t] \in Messages /\ got[l] \in Seq(Messages)
    BY <1>5 DEF Accept
  <2>2. got' \in [Listeners -> Seq(Messages)]
    <3>1. Append(got[l], msg[t]) \in Seq(Messages)
      BY <2>1
    <3>2. QED
      BY <1>5, <3>1 DEF Accept
  <2>3. wait' \in [Threads -> Seq(Listeners)]
    <3>1. Tail(wait[t]) \in Seq(Listeners)
      BY <1>5 DEF Accept
    <3>2. QED
      BY <1>5, <3>1 DEF Accept
  <2>4. QED
    BY <1>5, <2>2, <2>3 DEF Accept
<1>6. CASE Refuse(t)
  <2>1. AskLater(wait[t]) \in Seq(Listeners)
    <3>1. Tail(wait[t]) \in Seq(Listeners) /\ Head(wait[t]) \in Listeners
      BY <1>6 DEF Refuse
    <3>2. QED
      BY <3>1 DEF AskLater
  <2>2. QED
    BY <1>6, <2>1 DEF Refuse
<1>7. CASE UnlockListener(t)
  BY <1>7 DEF UnlockListener, Return
<1>8. CASE LockExclusive(t)
  BY <1>8 DEF LockExclusive
<1>9. CASE AcceptExclusive(t)
  <2>1. msg[t] \in Messages
    BY <1>9 DEF AcceptExclusive
  <2>2. got' \in [Listeners -> Seq(Messages)]
    <3>1. CASE exclusive \in Listeners
      <4>1. Append(got[exclusive], msg[t]) \in Seq(Messages)
        BY <2>1, <3>1
      <4>2. QED
        BY <1>9, <3>1, <4>1 DEF AcceptExclusive
    <3>2. CASE exclusive = NULL
      BY <1>9, <3>2, NullIsNothing DEF AcceptExclusive
    <3>3. QED
      BY <3>1, <3>2
  <2>3. QED
    BY <1>9, <2>2 DEF AcceptExclusive, Return
<1> QED
  BY <1>1, <1>2, <1>3, <1>4, <1>5, <1>6, <1>7, <1>8, <1>9 DEF DeliverMessage

LEMMA LocalsApp ==
    ASSUME TypeOK, HasMessage, HasListener,
           NEW t \in AppThreads, App(t)
    PROVE  HasMessage' /\ HasListener'
<1> USE NullIsNothing, ThreadsDisjoint DEF TypeOK, PcType, HasMessage, HasListener
<1>1. ASSUME NEW m \in Messages, PumpMessage(t, m) PROVE HasMessage' /\ HasListener'
  BY <1>1 DEF PumpMessage
<1>2. CASE IfSynchronous(t)
  BY <1>2 DEF IfSynchronous
<1>3. CASE Push(t)
  BY <1>3 DEF Push
<1>4. CASE IfRunThread(t)
  BY <1>4 DEF IfRunThread
<1>5. CASE Start(t)
  <2>1. \A u \in Threads : pc'[u] \in {pc[u], "idle", "enter"}
    BY <1>5 DEF Start
  <2>2. QED
    BY <1>5, <2>1 DEF Start
<1>6. ASSUME NEW l \in Listeners, RegisterListener(t, l) PROVE HasMessage' /\ HasListener'
  BY <1>6 DEF RegisterListener
<1>7. ASSUME NEW l \in Listeners, UnregisterListener(t, l) PROVE HasMessage' /\ HasListener'
  BY <1>7 DEF UnregisterListener
<1>8. ASSUME NEW l \in Listeners, RequestExclusive(t, l) PROVE HasMessage' /\ HasListener'
  BY <1>8 DEF RequestExclusive
<1>9. ASSUME NEW l \in Listeners, DiscardExclusive(t, l) PROVE HasMessage' /\ HasListener'
  BY <1>9 DEF DiscardExclusive
<1>10. CASE Grant(t)
  BY <1>10 DEF Grant
<1>11. CASE Discard(t)
  BY <1>11 DEF Discard
<1>12. CASE EnableContinuous(t)
  BY <1>12 DEF EnableContinuous
<1>13. CASE DisableContinuous(t)
  BY <1>13 DEF DisableContinuous
<1>14. CASE EnableSynchronous(t)
  BY <1>14 DEF EnableSynchronous
<1>15. CASE WriteSynchronous(t)
  BY <1>15 DEF WriteSynchronous
<1> QED
  BY <1>1, <1>2, <1>3, <1>4, <1>5, <1>6, <1>7, <1>8, <1>9, <1>10, <1>11, 
     <1>12, <1>13, <1>14, <1>15 DEF App

LEMMA LocalsRun ==
    ASSUME TypeOK, HasMessage, HasListener,
           NEW w \in Workers, Run(w)
    PROVE  HasMessage' /\ HasListener'
<1> USE NullIsNothing, ThreadsDisjoint DEF TypeOK, PcType, HasMessage, HasListener
<1>1. CASE Enter(w)
  BY <1>1 DEF Enter
<1>2. CASE While(w)
  BY <1>2 DEF While
<1>3. CASE Await(w)
  BY <1>3 DEF Await
<1>4. CASE TakeFront(w)
  <2>1. CASE queue = << >>
    BY <1>4, <2>1 DEF TakeFront
  <2>2. CASE queue # << >>
    <3>1. PICK m \in Messages : m = Head(queue)
      BY <2>2
    <3>2. /\ msg' = [msg EXCEPT ![w] = m]
          /\ pc' = [pc EXCEPT ![w] = "deliver"]
          /\ arg' = arg
      BY <1>4, <2>2, <3>1 DEF TakeFront
    <3>3. QED
      BY <3>2
  <2>3. QED
    BY <2>1, <2>2
<1>5. CASE Pop(w)
  BY <1>5 DEF Pop
<1>6. CASE Delete(w)
  BY <1>6 DEF Delete
<1>7. CASE IfEmpty(w)
  BY <1>7 DEF IfEmpty
<1>8. CASE Quit(w)
  BY <1>8 DEF Quit
<1> QED
  BY <1>1, <1>2, <1>3, <1>4, <1>5, <1>6, <1>7, <1>8 DEF Run

LEMMA LocalsDeliver ==
    ASSUME TypeOK, HasMessage, HasListener,
           NEW t \in Threads, DeliverMessage(t)
    PROVE  HasMessage' /\ HasListener'
<1> USE NullIsNothing, ThreadsDisjoint DEF TypeOK, PcType, HasMessage, HasListener
<1>1. CASE Deliver(t)
  BY <1>1 DEF Deliver
<1>2. CASE IfListeners(t)
  BY <1>2 DEF IfListeners
<1>3. CASE ElseExclusive(t)
  <2>1. CASE exclusive = NULL /\ t \in Workers
    BY <1>3, <2>1 DEF ElseExclusive, Return
  <2>2. CASE exclusive = NULL /\ t \in AppThreads
    <3>1. /\ msg' = [msg EXCEPT ![t] = NULL]
          /\ pc' = [pc EXCEPT ![t] = "idle"]
          /\ arg' = arg
      BY <1>3, <2>2 DEF ElseExclusive, Return
    <3>2. QED
      BY <3>1
  <2>3. CASE exclusive # NULL
    BY <1>3, <2>3 DEF ElseExclusive
  <2>4. QED
    BY <2>1, <2>2, <2>3
<1>4. CASE LockListener(t)
  BY <1>4 DEF LockListener
<1>5. ASSUME NEW l \in Listeners, Accept(t, l) PROVE HasMessage' /\ HasListener'
  BY <1>5 DEF Accept
<1>6. CASE Refuse(t)
  BY <1>6 DEF Refuse
<1>7. CASE UnlockListener(t)
  BY <1>7 DEF UnlockListener, Return
<1>8. CASE LockExclusive(t)
  BY <1>8 DEF LockExclusive
<1>9. CASE AcceptExclusive(t)
  BY <1>9 DEF AcceptExclusive, Return
<1> QED
  BY <1>1, <1>2, <1>3, <1>4, <1>5, <1>6, <1>7, <1>8, <1>9 DEF DeliverMessage

-----------------------------------------------------------------------------
(* Mutexes. *)

LEMMA LocksApp ==
    ASSUME TypeOK, LockDiscipline,
           NEW t \in AppThreads, App(t)
    PROVE  LockDiscipline'
<1> USE NullIsNothing, ThreadsDisjoint DEF TypeOK, PcType, LockDiscipline
<1>1. ASSUME NEW m \in Messages, PumpMessage(t, m) PROVE LockDiscipline'
  BY <1>1 DEF PumpMessage
<1>2. CASE IfSynchronous(t)
  BY <1>2 DEF IfSynchronous
<1>3. CASE Push(t)
  BY <1>3 DEF Push
<1>4. CASE IfRunThread(t)
  BY <1>4 DEF IfRunThread
<1>5. CASE Start(t)
  BY <1>5 DEF Start
<1>6. ASSUME NEW l \in Listeners, RegisterListener(t, l) PROVE LockDiscipline'
  BY <1>6 DEF RegisterListener
<1>7. ASSUME NEW l \in Listeners, UnregisterListener(t, l) PROVE LockDiscipline'
  BY <1>7 DEF UnregisterListener
<1>8. ASSUME NEW l \in Listeners, RequestExclusive(t, l) PROVE LockDiscipline'
  BY <1>8 DEF RequestExclusive
<1>9. ASSUME NEW l \in Listeners, DiscardExclusive(t, l) PROVE LockDiscipline'
  BY <1>9 DEF DiscardExclusive
<1>10. CASE Grant(t)
  BY <1>10 DEF Grant
<1>11. CASE Discard(t)
  BY <1>11 DEF Discard
<1>12. CASE EnableContinuous(t)
  BY <1>12 DEF EnableContinuous
<1>13. CASE DisableContinuous(t)
  BY <1>13 DEF DisableContinuous
<1>14. CASE EnableSynchronous(t)
  BY <1>14 DEF EnableSynchronous
<1>15. CASE WriteSynchronous(t)
  BY <1>15 DEF WriteSynchronous
<1> QED
  BY <1>1, <1>2, <1>3, <1>4, <1>5, <1>6, <1>7, <1>8, <1>9, <1>10, <1>11, 
     <1>12, <1>13, <1>14, <1>15 DEF App

LEMMA LocksRun ==
    ASSUME TypeOK, LockDiscipline,
           NEW w \in Workers, Run(w)
    PROVE  LockDiscipline'
<1> USE NullIsNothing, ThreadsDisjoint DEF TypeOK, PcType, LockDiscipline
<1>1. CASE Enter(w)
  BY <1>1 DEF Enter
<1>2. CASE While(w)
  BY <1>2 DEF While
<1>3. CASE Await(w)
  BY <1>3 DEF Await
<1>4. CASE TakeFront(w)
  BY <1>4 DEF TakeFront
<1>5. CASE Pop(w)
  BY <1>5 DEF Pop
<1>6. CASE Delete(w)
  BY <1>6 DEF Delete
<1>7. CASE IfEmpty(w)
  BY <1>7 DEF IfEmpty
<1>8. CASE Quit(w)
  BY <1>8 DEF Quit
<1> QED
  BY <1>1, <1>2, <1>3, <1>4, <1>5, <1>6, <1>7, <1>8 DEF Run

LEMMA LocksDeliver ==
    ASSUME TypeOK, LockDiscipline,
           NEW t \in Threads, DeliverMessage(t)
    PROVE  LockDiscipline'
<1> USE NullIsNothing, ThreadsDisjoint DEF TypeOK, PcType, LockDiscipline
<1>1. CASE Deliver(t)
  BY <1>1 DEF Deliver
<1>2. CASE IfListeners(t)
  BY <1>2 DEF IfListeners
<1>3. CASE ElseExclusive(t)
  BY <1>3 DEF ElseExclusive, Return
<1>4. CASE LockListener(t)
  BY <1>4 DEF LockListener
<1>5. ASSUME NEW l \in Listeners, Accept(t, l) PROVE LockDiscipline'
  BY <1>5 DEF Accept
<1>6. CASE Refuse(t)
  BY <1>6 DEF Refuse
<1>7. CASE UnlockListener(t)
  BY <1>7 DEF UnlockListener, Return
<1>8. CASE LockExclusive(t)
  BY <1>8 DEF LockExclusive
<1>9. CASE AcceptExclusive(t)
  BY <1>9 DEF AcceptExclusive, Return
<1> QED
  BY <1>1, <1>2, <1>3, <1>4, <1>5, <1>6, <1>7, <1>8, <1>9 DEF DeliverMessage

-----------------------------------------------------------------------------
(* The message a worker delivers is the first of the queue. *)

LEMMA HeadApp ==
    ASSUME TypeOK, PopsWhatItDelivers,
           NEW t \in AppThreads, App(t)
    PROVE  PopsWhatItDelivers'
<1> USE NullIsNothing, ThreadsDisjoint DEF TypeOK, PcType, PopsWhatItDelivers
<1>1. ASSUME NEW m \in Messages, PumpMessage(t, m) PROVE PopsWhatItDelivers'
  BY <1>1 DEF PumpMessage
<1>2. CASE IfSynchronous(t)
  BY <1>2 DEF IfSynchronous
<1>3. CASE Push(t)
  BY <1>3 DEF Push
<1>4. CASE IfRunThread(t)
  BY <1>4 DEF IfRunThread
<1>5. CASE Start(t)
  BY <1>5 DEF Start
<1>6. ASSUME NEW l \in Listeners, RegisterListener(t, l) PROVE PopsWhatItDelivers'
  BY <1>6 DEF RegisterListener
<1>7. ASSUME NEW l \in Listeners, UnregisterListener(t, l) PROVE PopsWhatItDelivers'
  BY <1>7 DEF UnregisterListener
<1>8. ASSUME NEW l \in Listeners, RequestExclusive(t, l) PROVE PopsWhatItDelivers'
  BY <1>8 DEF RequestExclusive
<1>9. ASSUME NEW l \in Listeners, DiscardExclusive(t, l) PROVE PopsWhatItDelivers'
  BY <1>9 DEF DiscardExclusive
<1>10. CASE Grant(t)
  BY <1>10 DEF Grant
<1>11. CASE Discard(t)
  BY <1>11 DEF Discard
<1>12. CASE EnableContinuous(t)
  BY <1>12 DEF EnableContinuous
<1>13. CASE DisableContinuous(t)
  BY <1>13 DEF DisableContinuous
<1>14. CASE EnableSynchronous(t)
  BY <1>14 DEF EnableSynchronous
<1>15. CASE WriteSynchronous(t)
  BY <1>15 DEF WriteSynchronous
<1> QED
  BY <1>1, <1>2, <1>3, <1>4, <1>5, <1>6, <1>7, <1>8, <1>9, <1>10, <1>11, 
     <1>12, <1>13, <1>14, <1>15 DEF App

LEMMA HeadRun ==
    ASSUME TypeOK, PopsWhatItDelivers,
           NEW w \in Workers, Run(w)
    PROVE  PopsWhatItDelivers'
<1> USE NullIsNothing, ThreadsDisjoint DEF TypeOK, PcType, PopsWhatItDelivers
<1>1. CASE Enter(w)
  BY <1>1 DEF Enter
<1>2. CASE While(w)
  BY <1>2 DEF While
<1>3. CASE Await(w)
  BY <1>3 DEF Await
<1>4. CASE TakeFront(w)
  BY <1>4 DEF TakeFront
<1>5. CASE Pop(w)
  BY <1>5 DEF Pop
<1>6. CASE Delete(w)
  BY <1>6 DEF Delete
<1>7. CASE IfEmpty(w)
  BY <1>7 DEF IfEmpty
<1>8. CASE Quit(w)
  BY <1>8 DEF Quit
<1> QED
  BY <1>1, <1>2, <1>3, <1>4, <1>5, <1>6, <1>7, <1>8 DEF Run

LEMMA HeadDeliver ==
    ASSUME TypeOK, PopsWhatItDelivers,
           NEW t \in Threads, DeliverMessage(t)
    PROVE  PopsWhatItDelivers'
<1> USE NullIsNothing, ThreadsDisjoint DEF TypeOK, PcType, PopsWhatItDelivers
<1>1. CASE Deliver(t)
  BY <1>1 DEF Deliver
<1>2. CASE IfListeners(t)
  BY <1>2 DEF IfListeners
<1>3. CASE ElseExclusive(t)
  BY <1>3 DEF ElseExclusive, Return
<1>4. CASE LockListener(t)
  BY <1>4 DEF LockListener
<1>5. ASSUME NEW l \in Listeners, Accept(t, l) PROVE PopsWhatItDelivers'
  BY <1>5 DEF Accept
<1>6. CASE Refuse(t)
  BY <1>6 DEF Refuse
<1>7. CASE UnlockListener(t)
  BY <1>7 DEF UnlockListener, Return
<1>8. CASE LockExclusive(t)
  BY <1>8 DEF LockExclusive
<1>9. CASE AcceptExclusive(t)
  BY <1>9 DEF AcceptExclusive, Return
<1> QED
  BY <1>1, <1>2, <1>3, <1>4, <1>5, <1>6, <1>7, <1>8, <1>9 DEF DeliverMessage

-----------------------------------------------------------------------------
(* The queue is what was pushed and not popped. *)

QueueIsBacklog ==
    /\ Len(pushed) = popped + Len(queue)
    /\ \A i \in 1 .. Len(queue) : queue[i] = pushed[popped + i]

LEMMA QueueFrame ==
    ASSUME Next
    PROVE  \/ UNCHANGED <<queue, pushed, popped>>
           \/ \E t \in AppThreads : Push(t)
           \/ \E w \in Workers : Pop(w)
<1>1. ASSUME NEW t \in AppThreads, App(t), ~Push(t)
      PROVE  UNCHANGED <<queue, pushed, popped>>
  BY <1>1 DEF App, PumpMessage, IfSynchronous, IfRunThread, Start,
     RegisterListener, UnregisterListener, RequestExclusive, DiscardExclusive,
     Grant, Discard, EnableContinuous, DisableContinuous, EnableSynchronous,
     WriteSynchronous
<1>2. ASSUME NEW w \in Workers, Run(w), ~Pop(w)
      PROVE  UNCHANGED <<queue, pushed, popped>>
  BY <1>2 DEF Run, Enter, While, Await, TakeFront, Delete, IfEmpty, Quit
<1>3. ASSUME NEW t \in Threads, DeliverMessage(t)
      PROVE  UNCHANGED <<queue, pushed, popped>>
  BY <1>3 DEF DeliverMessage, Deliver, IfListeners, ElseExclusive,
     LockListener, UnlockListener, Accept, Refuse, LockExclusive,
     AcceptExclusive
<1>4. CASE Idle
  BY <1>4 DEF Idle, vars
<1>5. QED
  BY <1>1, <1>2, <1>3, <1>4 DEF Next

LEMMA QueueStep ==
    ASSUME TypeOK, HasMessage, PopsWhatItDelivers, QueueIsBacklog, Next
    PROVE  QueueIsBacklog'
<1> USE DEF TypeOK, QueueIsBacklog
<1>1. ASSUME NEW t \in AppThreads, Push(t) PROVE QueueIsBacklog'
  <2>1. msg[t] \in Messages
    BY <1>1 DEF Push, HasMessage
  <2>2. /\ queue' = Append(queue, msg[t]) /\ pushed' = Append(pushed, msg[t])
        /\ popped' = popped
    BY <1>1 DEF Push
  <2>3. Len(queue') = Len(queue) + 1 /\ Len(pushed') = Len(pushed) + 1
    BY <2>1, <2>2
  <2>4. ASSUME NEW i \in 1 .. Len(queue')
        PROVE  queue'[i] = pushed'[popped' + i]
    <3>1. CASE i \in 1 .. Len(queue)
      <4>1. queue'[i] = queue[i]
        BY <2>1, <2>2, <3>1
      <4>2. popped + i \in 1 .. Len(pushed)
        BY <3>1
      <4>3. pushed'[popped + i] = pushed[popped + i]
        BY <2>1, <2>2, <4>2
      <4>4. QED
        BY <2>2, <3>1, <4>1, <4>3
    <3>2. CASE i = Len(queue) + 1
      <4>1. queue'[i] = msg[t] /\ pushed'[Len(pushed) + 1] = msg[t]
        BY <2>1, <2>2, <3>2
      <4>2. popped' + i = Len(pushed) + 1
        BY <2>2, <3>2
      <4>3. QED
        BY <4>1, <4>2
    <3>3. QED
      BY <2>3, <3>1, <3>2
  <2>5. Len(pushed') = popped' + Len(queue')
    BY <2>2, <2>3
  <2>6. QED
    BY <2>4, <2>5
<1>2. ASSUME NEW w \in Workers, Pop(w) PROVE QueueIsBacklog'
  <2>1. queue # << >>
    BY <1>2 DEF Pop, PopsWhatItDelivers
  <2>2. queue' = Tail(queue) /\ pushed' = pushed /\ popped' = popped + 1
    BY <1>2 DEF Pop
  <2>3. /\ Len(queue') = Len(queue) - 1
        /\ \A i \in 1 .. Len(queue') : queue'[i] = queue[i + 1]
    BY <2>1, <2>2
  <2>4. ASSUME NEW i \in 1 .. Len(queue')
        PROVE  queue'[i] = pushed'[popped' + i]
    <3>1. i + 1 \in 1 .. Len(queue)
      BY <2>3
    <3>2. queue[i + 1] = pushed[popped + (i + 1)]
      BY <3>1
    <3>3. popped' + i = popped + (i + 1)
      BY <2>2
    <3>4. QED
      BY <2>2, <2>3, <3>2, <3>3
  <2>5. Len(pushed') = popped' + Len(queue')
    <3>1. /\ Len(queue) \in Nat /\ popped \in Nat
          /\ Len(pushed) = popped + Len(queue)
      OBVIOUS
    <3>2. /\ Len(pushed') = Len(pushed) /\ popped' = popped + 1
          /\ Len(queue') = Len(queue) - 1
      BY <2>2, <2>3
    <3> HIDE DEF TypeOK, QueueIsBacklog
    <3>3. QED
      BY <3>1, <3>2
  <2>6. QED
    BY <2>4, <2>5
<1>3. CASE UNCHANGED <<queue, pushed, popped>>
  BY <1>3
<1>4. QED
  BY <1>1, <1>2, <1>3, QueueFrame

-----------------------------------------------------------------------------
(* A broadcast calls listeners that are on the list. *)

LEMMA RangeOfTail ==
    ASSUME NEW S, NEW s \in Seq(S), s # << >>
    PROVE  Range(Tail(s)) \subseteq Range(s) /\ Head(s) \in Range(s)
BY DEF Range

LEMMA RangeOfAppend ==
    ASSUME NEW S, NEW s \in Seq(S), NEW x \in S
    PROVE  Range(Append(s, x)) = Range(s) \cup {x}
<1>1. Len(Append(s, x)) = Len(s) + 1 /\ DOMAIN Append(s, x) = 1 .. Len(s) + 1
  OBVIOUS
<1>2. Append(s, x)[Len(s) + 1] = x /\ \A i \in 1 .. Len(s) : Append(s, x)[i] = s[i]
  OBVIOUS
<1>3. QED
  BY <1>1, <1>2 DEF Range

LEMMA RangeOfAskLater ==
    ASSUME NEW S, NEW s \in Seq(S), s # << >>
    PROVE  Range(AskLater(s)) \subseteq Range(s)
<1>1. Tail(s) \in Seq(S) /\ Head(s) \in S
  OBVIOUS
<1>2. \A r \in Seq(S) : \A x \in S : Range(Append(r, x)) = Range(r) \cup {x}
  BY RangeOfAppend
<1>3. Range(AskLater(s)) = Range(Tail(s)) \cup {Head(s)}
  BY <1>1, <1>2, Zenon DEF AskLater
<1>4. QED
  BY <1>3, RangeOfTail

LEMMA WaitApp ==
    ASSUME TypeOK, LockDiscipline, OnlyRegisteredCalled,
           NEW t \in AppThreads, App(t)
    PROVE  OnlyRegisteredCalled'
<1> USE NullIsNothing, ThreadsDisjoint DEF TypeOK, PcType, OnlyRegisteredCalled, LockDiscipline
<1>1. ASSUME NEW m \in Messages, PumpMessage(t, m) PROVE OnlyRegisteredCalled'
  BY <1>1 DEF PumpMessage
<1>2. CASE IfSynchronous(t)
  BY <1>2 DEF IfSynchronous
<1>3. CASE Push(t)
  BY <1>3 DEF Push
<1>4. CASE IfRunThread(t)
  BY <1>4 DEF IfRunThread
<1>5. CASE Start(t)
  BY <1>5 DEF Start
<1>6. ASSUME NEW l \in Listeners, RegisterListener(t, l) PROVE OnlyRegisteredCalled'
  <2>1. Range(listeners) \subseteq Range(listeners')
    BY <1>6, RangeOfAppend DEF RegisterListener
  <2>2. QED
    BY <1>6, <2>1 DEF RegisterListener
<1>7. ASSUME NEW l \in Listeners, UnregisterListener(t, l) PROVE OnlyRegisteredCalled'
  BY <1>7 DEF UnregisterListener
<1>8. ASSUME NEW l \in Listeners, RequestExclusive(t, l) PROVE OnlyRegisteredCalled'
  BY <1>8 DEF RequestExclusive
<1>9. ASSUME NEW l \in Listeners, DiscardExclusive(t, l) PROVE OnlyRegisteredCalled'
  BY <1>9 DEF DiscardExclusive
<1>10. CASE Grant(t)
  BY <1>10 DEF Grant
<1>11. CASE Discard(t)
  BY <1>11 DEF Discard
<1>12. CASE EnableContinuous(t)
  BY <1>12 DEF EnableContinuous
<1>13. CASE DisableContinuous(t)
  BY <1>13 DEF DisableContinuous
<1>14. CASE EnableSynchronous(t)
  BY <1>14 DEF EnableSynchronous
<1>15. CASE WriteSynchronous(t)
  BY <1>15 DEF WriteSynchronous
<1> QED
  BY <1>1, <1>2, <1>3, <1>4, <1>5, <1>6, <1>7, <1>8, <1>9, <1>10, <1>11, 
     <1>12, <1>13, <1>14, <1>15 DEF App

LEMMA WaitRun ==
    ASSUME TypeOK, LockDiscipline, OnlyRegisteredCalled,
           NEW w \in Workers, Run(w)
    PROVE  OnlyRegisteredCalled'
<1> USE NullIsNothing, ThreadsDisjoint DEF TypeOK, PcType, OnlyRegisteredCalled, LockDiscipline
<1>1. CASE Enter(w)
  BY <1>1 DEF Enter
<1>2. CASE While(w)
  BY <1>2 DEF While
<1>3. CASE Await(w)
  BY <1>3 DEF Await
<1>4. CASE TakeFront(w)
  BY <1>4 DEF TakeFront
<1>5. CASE Pop(w)
  BY <1>5 DEF Pop
<1>6. CASE Delete(w)
  BY <1>6 DEF Delete
<1>7. CASE IfEmpty(w)
  BY <1>7 DEF IfEmpty
<1>8. CASE Quit(w)
  BY <1>8 DEF Quit
<1> QED
  BY <1>1, <1>2, <1>3, <1>4, <1>5, <1>6, <1>7, <1>8 DEF Run

LEMMA WaitDeliver ==
    ASSUME TypeOK, LockDiscipline, OnlyRegisteredCalled,
           NEW t \in Threads, DeliverMessage(t)
    PROVE  OnlyRegisteredCalled'
<1> USE NullIsNothing, ThreadsDisjoint DEF TypeOK, PcType, OnlyRegisteredCalled, LockDiscipline
<1>1. CASE Deliver(t)
  BY <1>1 DEF Deliver
<1>2. CASE IfListeners(t)
  BY <1>2 DEF IfListeners
<1>3. CASE ElseExclusive(t)
  <2>1. /\ \A u \in Threads : pc'[u] = "broadcast" => pc[u] = "broadcast"
        /\ wait' = wait /\ listeners' = listeners
    BY <1>3 DEF ElseExclusive, Return
  <2>2. QED
    BY <2>1
<1>4. CASE LockListener(t)
  BY <1>4 DEF LockListener
<1>5. ASSUME NEW l \in Listeners, Accept(t, l) PROVE OnlyRegisteredCalled'
  <2>1. Range(Tail(wait[t])) \subseteq Range(listeners)
    BY <1>5, RangeOfTail DEF Accept
  <2>2. QED
    BY <1>5, <2>1 DEF Accept
<1>6. CASE Refuse(t)
  <2>1. Range(AskLater(wait[t])) \subseteq Range(listeners)
    BY <1>6, RangeOfAskLater DEF Refuse
  <2>2. QED
    BY <1>6, <2>1 DEF Refuse
<1>7. CASE UnlockListener(t)
  BY <1>7 DEF UnlockListener, Return
<1>8. CASE LockExclusive(t)
  BY <1>8 DEF LockExclusive
<1>9. CASE AcceptExclusive(t)
  BY <1>9 DEF AcceptExclusive, Return
<1> QED
  BY <1>1, <1>2, <1>3, <1>4, <1>5, <1>6, <1>7, <1>8, <1>9 DEF DeliverMessage

-----------------------------------------------------------------------------
(* A message is in one place: still to be pumped, with one application      *)
(* thread, or queued once.                                                  *)

InOnePlace ==
    /\ Range(pushed) \cap fresh = {}
    /\ \A l \in Listeners : Range(got[l]) \cap fresh = {}
    /\ \A t \in AppThreads : msg[t] # NULL =>
          /\ msg[t] \notin fresh \cup Range(pushed)
          /\ \A u \in AppThreads \ {t} : msg[u] # msg[t]
          /\ pc[t] \in {"ifSynchronous", "push"} =>
                \A l \in Listeners : msg[t] \notin Range(got[l])

LEMMA RangeOfGot ==
    ASSUME TypeOK, NEW l \in Listeners, NEW m \in Messages,
           got' = [got EXCEPT ![l] = Append(@, m)]
    PROVE  \A k \in Listeners : Range(got'[k]) \subseteq Range(got[k]) \cup {m}
<1>1. got[l] \in Seq(Messages) /\ got'[l] = Append(got[l], m)
  BY DEF TypeOK
<1>2. Range(got'[l]) = Range(got[l]) \cup {m}
  BY <1>1, RangeOfAppend
<1>3. \A k \in Listeners \ {l} : got'[k] = got[k]
  BY DEF TypeOK
<1>4. QED
  BY <1>2, <1>3

\* A message that is being delivered is an application thread's own, or the
\* oldest of the queue.
LEMMA Delivering ==
    ASSUME TypeOK, HasMessage, PopsWhatItDelivers, QueueIsBacklog, InOnePlace,
           NEW t \in Threads, pc[t] \in DeliverLabels
    PROVE  /\ msg[t] \in Messages \ fresh
           /\ t \in AppThreads => msg[t] \notin Range(pushed)
           /\ t \in Workers => /\ popped < Len(pushed)
                               /\ msg[t] = pushed[popped + 1]
                               /\ msg[t] \in Range(pushed)
<1>1. msg[t] \in Messages
  BY DEF TypeOK, HasMessage
<1>2. CASE t \in AppThreads
  BY <1>1, <1>2, NullIsNothing, ThreadsDisjoint DEF InOnePlace
<1>3. CASE t \in Workers
  <2>1. queue # << >> /\ Head(queue) = msg[t]
    BY <1>3 DEF PopsWhatItDelivers
  <2>2. Len(queue) \in Nat \ {0} /\ Head(queue) = queue[1]
    BY <2>1 DEF TypeOK
  <2>3. Len(pushed) \in Nat /\ popped \in Nat /\ DOMAIN pushed = 1 .. Len(pushed)
    BY DEF TypeOK
  <2>4. Len(pushed) = popped + Len(queue) /\ queue[1] = pushed[popped + 1]
    BY <2>2 DEF QueueIsBacklog
  <2>5. popped < Len(pushed) /\ popped + 1 \in DOMAIN pushed
    BY <2>2, <2>3, <2>4
  <2>6. msg[t] = pushed[popped + 1] /\ msg[t] \in Range(pushed)
    BY <2>1, <2>2, <2>4, <2>5 DEF Range
  <2>7. QED
    BY <1>1, <1>3, <2>5, <2>6, ThreadsDisjoint DEF InOnePlace
<1>4. QED
  BY <1>2, <1>3

LEMMA PlaceApp ==
    ASSUME TypeOK, HasMessage, InOnePlace,
           NEW t \in AppThreads, App(t)
    PROVE  InOnePlace'
<1> USE NullIsNothing, ThreadsDisjoint DEF TypeOK, PcType, InOnePlace
<1>1. ASSUME NEW m \in Messages, PumpMessage(t, m) PROVE InOnePlace'
  <2>1. m \in fresh /\ fresh' = fresh \ {m} /\ UNCHANGED <<pushed, got>>
    BY <1>1 DEF PumpMessage
  <2>2. CASE listeners # << >>
    <3>1. /\ pc' = [pc EXCEPT ![t] = "ifSynchronous"]
          /\ msg' = [msg EXCEPT ![t] = m]
      BY <1>1, <2>2 DEF PumpMessage
    <3>2. QED
      BY <2>1, <3>1
  <2>3. CASE listeners = << >>
    <3>1. UNCHANGED <<pc, msg>>
      BY <1>1, <2>3 DEF PumpMessage
    <3>2. QED
      BY <2>1, <3>1
  <2>4. QED
    BY <2>2, <2>3
<1>2. CASE IfSynchronous(t)
  BY <1>2 DEF IfSynchronous
<1>3. CASE Push(t)
  <2>1. msg[t] \in Messages
    BY <1>3 DEF Push, HasMessage
  <2>2. Range(pushed') = Range(pushed) \cup {msg[t]}
    BY <1>3, <2>1, RangeOfAppend DEF Push
  <2>3. /\ fresh' = fresh /\ got' = got
        /\ msg' = [msg EXCEPT ![t] = NULL]
        /\ pc' = [pc EXCEPT ![t] = "ifRunThread"]
    BY <1>3 DEF Push
  <2>4. QED
    BY <2>1, <2>2, <2>3
<1>4. CASE IfRunThread(t)
  BY <1>4 DEF IfRunThread
<1>5. CASE Start(t)
  <2>1. /\ \A u \in AppThreads : pc'[u] \in {pc[u], "idle"}
        /\ UNCHANGED <<fresh, pushed, got, msg>>
    BY <1>5 DEF Start
  <2>2. QED
    BY <2>1
<1>6. ASSUME NEW l \in Listeners, RegisterListener(t, l) PROVE InOnePlace'
  BY <1>6 DEF RegisterListener
<1>7. ASSUME NEW l \in Listeners, UnregisterListener(t, l) PROVE InOnePlace'
  BY <1>7 DEF UnregisterListener
<1>8. ASSUME NEW l \in Listeners, RequestExclusive(t, l) PROVE InOnePlace'
  BY <1>8 DEF RequestExclusive
<1>9. ASSUME NEW l \in Listeners, DiscardExclusive(t, l) PROVE InOnePlace'
  BY <1>9 DEF DiscardExclusive
<1>10. CASE Grant(t)
  BY <1>10 DEF Grant
<1>11. CASE Discard(t)
  BY <1>11 DEF Discard
<1>12. CASE EnableContinuous(t)
  BY <1>12 DEF EnableContinuous
<1>13. CASE DisableContinuous(t)
  BY <1>13 DEF DisableContinuous
<1>14. CASE EnableSynchronous(t)
  BY <1>14 DEF EnableSynchronous
<1>15. CASE WriteSynchronous(t)
  BY <1>15 DEF WriteSynchronous
<1> QED
  BY <1>1, <1>2, <1>3, <1>4, <1>5, <1>6, <1>7, <1>8, <1>9, <1>10, <1>11, 
     <1>12, <1>13, <1>14, <1>15 DEF App

LEMMA PlaceRun ==
    ASSUME TypeOK, HasMessage, InOnePlace,
           NEW w \in Workers, Run(w)
    PROVE  InOnePlace'
<1> USE NullIsNothing, ThreadsDisjoint DEF TypeOK, PcType, InOnePlace
<1>1. CASE Enter(w)
  BY <1>1 DEF Enter
<1>2. CASE While(w)
  BY <1>2 DEF While
<1>3. CASE Await(w)
  BY <1>3 DEF Await
<1>4. CASE TakeFront(w)
  <2>1. /\ UNCHANGED <<fresh, pushed, got>>
        /\ \A u \in AppThreads : pc'[u] = pc[u] /\ msg'[u] = msg[u]
    BY <1>4 DEF TakeFront
  <2>2. QED
    BY <2>1
<1>5. CASE Pop(w)
  BY <1>5 DEF Pop
<1>6. CASE Delete(w)
  BY <1>6 DEF Delete
<1>7. CASE IfEmpty(w)
  BY <1>7 DEF IfEmpty
<1>8. CASE Quit(w)
  BY <1>8 DEF Quit
<1> QED
  BY <1>1, <1>2, <1>3, <1>4, <1>5, <1>6, <1>7, <1>8 DEF Run

LEMMA PlaceDeliver ==
    ASSUME TypeOK, HasMessage, PopsWhatItDelivers, QueueIsBacklog, InOnePlace,
           NEW t \in Threads, DeliverMessage(t)
    PROVE  InOnePlace'
<1> USE NullIsNothing, ThreadsDisjoint DEF TypeOK, PcType, InOnePlace
<1>1. CASE Deliver(t)
  BY <1>1 DEF Deliver
<1>2. CASE IfListeners(t)
  BY <1>2 DEF IfListeners
<1>3. CASE ElseExclusive(t)
  <2>1. /\ UNCHANGED <<fresh, pushed, got>>
        /\ \A u \in AppThreads : msg'[u] \in {msg[u], NULL}
        /\ \A u \in AppThreads : pc'[u] \in {"ifSynchronous", "push"} => pc[u] = pc'[u]
    BY <1>3 DEF ElseExclusive, Return
  <2>2. QED
    BY <2>1
<1>4. CASE LockListener(t)
  BY <1>4 DEF LockListener
<1>5. ASSUME NEW l \in Listeners, Accept(t, l) PROVE InOnePlace'
  <2>1. msg[t] \in Messages /\ got' = [got EXCEPT ![l] = Append(@, msg[t])]
    BY <1>5, Delivering DEF Accept
  <2>2. \A k \in Listeners : Range(got'[k]) \subseteq Range(got[k]) \cup {msg[t]}
    BY <2>1, RangeOfGot
  <2>3. /\ msg[t] \notin fresh
        /\ \A u \in AppThreads : pc[u] \in {"ifSynchronous", "push"} => msg[u] # msg[t]
    BY <1>5, Delivering DEF Accept, HasMessage
  <2>4. UNCHANGED <<fresh, pushed, msg, pc>>
    BY <1>5 DEF Accept
  <2>5. QED
    BY <2>2, <2>3, <2>4
<1>6. CASE Refuse(t)
  BY <1>6 DEF Refuse
<1>7. CASE UnlockListener(t)
  BY <1>7 DEF UnlockListener, Return
<1>8. CASE LockExclusive(t)
  BY <1>8 DEF LockExclusive
<1>9. CASE AcceptExclusive(t)
  <2>1. CASE exclusive = NULL
    <3>1. UNCHANGED <<fresh, pushed, got>>
      BY <1>9, <2>1 DEF AcceptExclusive
    <3>2. /\ \A u \in AppThreads : msg'[u] \in {msg[u], NULL}
          /\ \A u \in AppThreads : pc'[u] \in {"ifSynchronous", "push"} => pc[u] = pc'[u]
      BY <1>9 DEF AcceptExclusive, Return
    <3>3. QED
      BY <3>1, <3>2
  <2>2. CASE exclusive \in Listeners
    <3>1. msg[t] \in Messages /\ got' = [got EXCEPT ![exclusive] = Append(@, msg[t])]
      BY <1>9, Delivering DEF AcceptExclusive
    <3>2. \A k \in Listeners : Range(got'[k]) \subseteq Range(got[k]) \cup {msg[t]}
      BY <2>2, <3>1, RangeOfGot
    <3>3. /\ msg[t] \notin fresh
          /\ \A u \in AppThreads : pc[u] \in {"ifSynchronous", "push"} => msg[u] # msg[t]
      BY <1>9, Delivering DEF AcceptExclusive, HasMessage
    <3>4. /\ UNCHANGED <<fresh, pushed>>
          /\ \A u \in AppThreads : msg'[u] \in {msg[u], NULL}
          /\ \A u \in AppThreads : pc'[u] \in {"ifSynchronous", "push"} => pc[u] = pc'[u]
      BY <1>9 DEF AcceptExclusive, Return
    <3>5. QED
      BY <3>2, <3>3, <3>4
  <2>3. QED
    BY <2>1, <2>2
<1> QED
  BY <1>1, <1>2, <1>3, <1>4, <1>5, <1>6, <1>7, <1>8, <1>9 DEF DeliverMessage

-----------------------------------------------------------------------------
(* What workers delete has been popped, and is deleted once. *)

Popped == {pushed[p] : p \in 1 .. popped}
PushedOnce ==
    \A p, q \in 1 .. Len(pushed) : pushed[p] = pushed[q] => p = q

Disposal ==
    /\ freed \subseteq Popped
    /\ \A w \in Workers : pc[w] = "delete" =>
          /\ msg[w] \in Popped \ freed
          /\ \A v \in Workers \ {w} : pc[v] = "delete" => msg[v] # msg[w]
    /\ \A w \in Workers :
          pc[w] \notin DeliverLabels \cup {"pop", "delete"} => msg[w] = NULL

Backlog == TypeOK /\ HasMessage /\ PopsWhatItDelivers /\ QueueIsBacklog /\ InOnePlace

LEMMA PushedOnceStep ==
    ASSUME Backlog, PushedOnce, Next
    PROVE  PushedOnce'
<1>1. ASSUME NEW t \in AppThreads, Push(t) PROVE PushedOnce'
  <2>1. pushed \in Seq(Messages) /\ msg[t] \in Messages /\ msg[t] \notin Range(pushed)
    BY <1>1, NullIsNothing DEF Backlog, Push, HasMessage, TypeOK, InOnePlace
  <2>2. /\ Len(pushed') = Len(pushed) + 1 /\ pushed'[Len(pushed) + 1] = msg[t]
        /\ \A p \in 1 .. Len(pushed) : pushed'[p] = pushed[p]
    BY <1>1, <2>1 DEF Push
  <2>3. \A p \in 1 .. Len(pushed) : pushed[p] # msg[t]
    BY <2>1 DEF Range
  <2>4. \A p \in 1 .. Len(pushed') : p \in 1 .. Len(pushed) \/ p = Len(pushed) + 1
    BY <2>1, <2>2
  <2>5. QED
    BY <2>2, <2>3, <2>4 DEF PushedOnce
<1>2. CASE UNCHANGED pushed
  BY <1>2 DEF PushedOnce
<1>3. ASSUME NEW w \in Workers, Pop(w) PROVE UNCHANGED pushed
  BY <1>3 DEF Pop
<1>4. QED
  BY <1>1, <1>2, <1>3, QueueFrame

\* A message of the queue, and the one that is being delivered, is not popped.
LEMMA BacklogNotPopped ==
    ASSUME Backlog, PushedOnce
    PROVE  /\ Range(queue) \cap Popped = {}
           /\ \A t \in Threads : pc[t] \in DeliverLabels \cup {"pop"} =>
                 msg[t] \notin Popped
<1>1. /\ Len(pushed) \in Nat /\ popped \in Nat /\ Len(queue) \in Nat
      /\ Len(pushed) = popped + Len(queue)
      /\ DOMAIN queue = 1 .. Len(queue) /\ DOMAIN pushed = 1 .. Len(pushed)
  BY DEF Backlog, TypeOK, QueueIsBacklog
<1>2. ASSUME NEW i \in 1 .. Len(queue), NEW p \in 1 .. popped
      PROVE  queue[i] # pushed[p]
  <2>1. popped + i \in 1 .. Len(pushed) /\ p \in 1 .. Len(pushed) /\ popped + i # p
    BY <1>1
  <2>2. queue[i] = pushed[popped + i]
    BY DEF Backlog, QueueIsBacklog
  <2>3. QED
    BY <2>1, <2>2 DEF PushedOnce
<1>3. Range(queue) \cap Popped = {}
  BY <1>1, <1>2 DEF Range, Popped
<1>4. ASSUME NEW w \in Workers, pc[w] \in DeliverLabels \cup {"pop"}
      PROVE  msg[w] \notin Popped
  <2>1. queue # << >> /\ Head(queue) = msg[w] /\ queue \in Seq(Messages)
    BY <1>4 DEF Backlog, PopsWhatItDelivers, TypeOK
  <2>2. msg[w] \in Range(queue)
    BY <2>1 DEF Range
  <2>3. QED
    BY <1>3, <2>2
<1>5. Popped \subseteq Range(pushed)
  BY <1>1 DEF Popped, Range
<1>6. ASSUME NEW t \in AppThreads, pc[t] \in DeliverLabels \cup {"pop"}
      PROVE  msg[t] \notin Popped
  BY <1>5, <1>6 DEF Backlog, HasMessage, InOnePlace
<1>7. QED
  BY <1>3, <1>4, <1>6

LEMMA DisposalApp ==
    ASSUME Backlog, PushedOnce, Disposal,
           NEW t \in AppThreads, App(t)
    PROVE  Disposal'
<1> USE NullIsNothing, ThreadsDisjoint DEF Backlog, TypeOK, PcType
<1>1. CASE Push(t)
  <2>1. /\ pushed \in Seq(Messages) /\ msg[t] \in Messages
        /\ pushed' = Append(pushed, msg[t])
    BY <1>1 DEF Push, HasMessage
  <2>2. popped \in Nat /\ popped <= Len(pushed)
    BY DEF QueueIsBacklog
  <2>3. \A p \in 1 .. popped : pushed'[p] = pushed[p]
    BY <2>1, <2>2
  <2>4. popped' = popped
    BY <1>1 DEF Push
  <2>5. Popped' = Popped
    <3> HIDE DEF Backlog, TypeOK, PcType
    <3>1. \A x : x \in Popped' <=> x \in Popped
      BY <2>3, <2>4 DEF Popped
    <3>2. QED
      BY <3>1
  <2>6. /\ freed' = freed
        /\ \A w \in Workers : pc'[w] = pc[w] /\ msg'[w] = msg[w]
    BY <1>1 DEF Push
  <2>7. QED
    BY <2>5, <2>6 DEF Disposal
<1>2. CASE Start(t)
  <2>1. /\ UNCHANGED <<pushed, popped, freed, msg>>
        /\ \A w \in Workers : pc'[w] = pc[w] \/ (pc[w] = "unborn" /\ pc'[w] = "enter")
    BY <1>2 DEF Start
  <2>2. Popped' = Popped
    BY <2>1 DEF Popped
  <2>3. QED
    BY <2>1, <2>2 DEF Disposal
<1>3. ASSUME ~Push(t), ~Start(t)
      PROVE  /\ UNCHANGED <<pushed, popped, freed>>
             /\ \A w \in Workers : pc'[w] = pc[w] /\ msg'[w] = msg[w]
  BY <1>3 DEF App, PumpMessage, IfSynchronous, IfRunThread,
     RegisterListener, UnregisterListener, RequestExclusive, DiscardExclusive,
     Grant, Discard, EnableContinuous, DisableContinuous, EnableSynchronous,
     WriteSynchronous
<1>4. ASSUME ~Push(t), ~Start(t) PROVE Disposal'
  <2>1. Popped' = Popped
    BY <1>3, <1>4 DEF Popped
  <2>2. QED
    BY <1>3, <1>4, <2>1 DEF Disposal
<1>5. QED
  BY <1>1, <1>2, <1>4

LEMMA DisposalRun ==
    ASSUME Backlog, PushedOnce, Disposal,
           NEW w \in Workers, Run(w)
    PROVE  Disposal'
<1> USE NullIsNothing, ThreadsDisjoint DEF Backlog, TypeOK, PcType, Disposal, Popped
<1>1. CASE Enter(w)
  BY <1>1 DEF Enter
<1>2. CASE While(w)
  BY <1>2 DEF While
<1>3. CASE Await(w)
  BY <1>3 DEF Await
<1>4. CASE TakeFront(w)
  <2>1. /\ UNCHANGED <<pushed, popped, freed>>
        /\ \A v \in Workers \ {w} : pc'[v] = pc[v] /\ msg'[v] = msg[v]
        /\ pc[w] = "front"
        /\ pc'[w] = "deliver" \/ (pc'[w] = "front" /\ msg'[w] = msg[w])
    BY <1>4 DEF TakeFront
  <2>2. Popped' = Popped
    BY <2>1
  <2> HIDE DEF Popped, Backlog, TypeOK, PcType
  <2>3. \A v \in Workers : pc'[v] = "delete" => v # w /\ pc[v] = "delete"
    BY <2>1
  <2>4. QED
    BY <2>1, <2>2, <2>3
<1>5. CASE Pop(w)
  <2> HIDE DEF Popped
  <2>1. Popped' = Popped \cup {msg[w]}
    <3>1. popped \in Nat /\ pushed' = pushed /\ popped' = popped + 1
      BY <1>5 DEF Pop
    <3>2. queue # << >> /\ Head(queue) = msg[w] /\ queue \in Seq(Messages)
      BY <1>5 DEF Pop, PopsWhatItDelivers
    <3>3. msg[w] = pushed[popped + 1]
      BY <3>2 DEF QueueIsBacklog
    <3>4. 1 .. popped + 1 = (1 .. popped) \cup {popped + 1}
      BY <3>1
    <3>5. QED
      BY <3>1, <3>3, <3>4 DEF Popped
  <2>2. msg[w] \notin Popped
    BY <1>5, BacklogNotPopped DEF Pop
  <2>3. /\ freed' = freed /\ msg' = msg
        /\ pc' = [pc EXCEPT ![w] = "delete"]
    BY <1>5 DEF Pop
  <2>4. QED
    BY <2>1, <2>2, <2>3
<1>6. CASE Delete(w)
  <2>1. /\ UNCHANGED <<pushed, popped>> /\ freed' = freed \cup {msg[w]}
        /\ msg' = [msg EXCEPT ![w] = NULL] /\ pc[w] = "delete"
        /\ \A v \in Workers \ {w} : pc'[v] = pc[v]
        /\ pc'[w] \notin DeliverLabels \cup {"pop", "delete"}
    BY <1>6 DEF Delete
  <2>2. Popped' = Popped
    BY <2>1
  <2> HIDE DEF Popped
  <2>3. QED
    BY <2>1, <2>2
<1>7. CASE IfEmpty(w)
  BY <1>7 DEF IfEmpty
<1>8. CASE Quit(w)
  BY <1>8 DEF Quit
<1> QED
  BY <1>1, <1>2, <1>3, <1>4, <1>5, <1>6, <1>7, <1>8 DEF Run

LEMMA DisposalDeliver ==
    ASSUME Backlog, PushedOnce, Disposal,
           NEW t \in Threads, DeliverMessage(t)
    PROVE  Disposal'
<1>1. /\ UNCHANGED <<pushed, popped, freed>>
      /\ \A w \in Workers : /\ msg'[w] = msg[w]
                            /\ \/ pc'[w] = pc[w]
                               \/ /\ pc[w] \in DeliverLabels
                                  /\ pc'[w] \in DeliverLabels \cup {"pop"}
  BY ThreadsDisjoint
     DEF Backlog, TypeOK, PcType, DeliverMessage, Deliver, IfListeners,
     ElseExclusive, LockListener, UnlockListener, Accept, Refuse,
     LockExclusive, AcceptExclusive, Return
<1>2. QED
  BY <1>1 DEF Disposal, Popped

LEMMA DisposalIsSafe ==
    ASSUME Backlog, PushedOnce, Disposal
    PROVE  NoUseAfterDelete
<1> USE NullIsNothing, ThreadsDisjoint DEF Backlog, Disposal
<1>1. Popped \subseteq Range(pushed)
  <2>1. popped <= Len(pushed) /\ popped \in Nat /\ DOMAIN pushed = 1 .. Len(pushed)
    BY DEF TypeOK, QueueIsBacklog
  <2>2. QED
    BY <2>1 DEF Popped, Range
<1>2. \A t \in AppThreads : msg[t] # NULL => msg[t] \notin Popped
  BY <1>1 DEF InOnePlace
<1>3. \A w \in Workers : pc[w] \in DeliverLabels \cup {"pop"} => msg[w] \notin Popped
  BY BacklogNotPopped
<1>4. Popped \subseteq Messages
  BY <1>1 DEF TypeOK, Range
<1>5. \A t \in Threads : msg[t] # NULL => msg[t] \notin freed
  BY <1>2, <1>3
<1>6. ASSUME NEW w \in Workers, pc[w] = "delete"
      PROVE  /\ msg[w] \notin Range(queue)
             /\ \A t \in Threads \ {w} : msg[t] # msg[w]
  <2>1. msg[w] \notin Range(queue)
    BY <1>6, BacklogNotPopped
  <2>2. \A t \in AppThreads : msg[t] # msg[w]
    BY <1>2, <1>4, <1>6
  <2>3. \A v \in Workers \ {w} : msg[v] # msg[w]
    BY <1>3, <1>4, <1>6
  <2>4. QED
    BY <2>1, <2>2, <2>3
<1>7. Range(queue) \cap freed = {}
  BY BacklogNotPopped
<1>8. QED
  BY <1>5, <1>6, <1>7 DEF NoUseAfterDelete

-----------------------------------------------------------------------------
(* The inductive invariant. *)

IInv ==
    /\ TypeOK /\ HasMessage /\ HasListener
    /\ LockDiscipline /\ PopsWhatItDelivers /\ OnlyRegisteredCalled
    /\ QueueIsBacklog /\ InOnePlace
    /\ PushedOnce /\ Disposal

LEMMA InitIInv == Init => IInv
<1> SUFFICES ASSUME Init PROVE IInv
  OBVIOUS
<1> USE NullIsNothing, ThreadsDisjoint DEF Init
<1>1. PcType
  BY DEF PcType
<1>2. /\ queue \in Seq(Messages) /\ pushed \in Seq(Messages)
      /\ wait \in [Threads -> Seq(Listeners)]
      /\ got \in [Listeners -> Seq(Messages)]
  OBVIOUS
<1>3. /\ msg \in [Threads -> Messages \cup {NULL}]
      /\ arg \in [AppThreads -> Listeners \cup {NULL}]
      /\ more \in [Workers -> BOOLEAN]
      /\ since \in [Listeners -> Nat]
  OBVIOUS
<1>4. TypeOK
  BY <1>1, <1>2, <1>3, StartAssumption DEF TypeOK
<1>5. HasMessage /\ HasListener
  BY DEF HasMessage, HasListener
<1>6. LockDiscipline
  BY DEF LockDiscipline
<1>7. PopsWhatItDelivers /\ OnlyRegisteredCalled
  BY DEF PopsWhatItDelivers, OnlyRegisteredCalled
<1>8. QueueIsBacklog
  BY DEF QueueIsBacklog
<1>9. InOnePlace
  BY DEF InOnePlace, Range
<1>10. PushedOnce /\ Disposal
  BY DEF PushedOnce, Disposal, Popped
<1>11. QED
  BY <1>4, <1>5, <1>6, <1>7, <1>8, <1>9, <1>10 DEF IInv

LEMMA NextIInv == IInv /\ [Next]_vars => IInv'
<1> SUFFICES ASSUME IInv, [Next]_vars PROVE IInv'
  OBVIOUS
<1> USE DEF IInv
<1>1. ASSUME NEW t \in AppThreads, App(t) PROVE IInv'
  <2>1. PcType'
    BY <1>1, PcApp DEF TypeOK
  <2>2. TypeOK'
    BY <1>1, <2>1, TypeApp
  <2>3. HasMessage' /\ HasListener'
    BY <1>1, LocalsApp
  <2>4. LockDiscipline' /\ PopsWhatItDelivers' /\ OnlyRegisteredCalled'
    BY <1>1, LocksApp, HeadApp, WaitApp
  <2>5. QueueIsBacklog'
    BY <1>1, QueueStep DEF Next
  <2>6. InOnePlace'
    BY <1>1, PlaceApp DEF Backlog
  <2>7. PushedOnce' /\ Disposal'
    BY <1>1, PushedOnceStep, DisposalApp DEF Next, Backlog
  <2>8. QED
    BY <2>2, <2>3, <2>4, <2>5, <2>6, <2>7
<1>2. ASSUME NEW w \in Workers, Run(w) PROVE IInv'
  <2>1. PcType'
    BY <1>2, PcRun DEF TypeOK
  <2>2. TypeOK'
    BY <1>2, <2>1, TypeRun
  <2>3. HasMessage' /\ HasListener'
    BY <1>2, LocalsRun
  <2>4. LockDiscipline' /\ PopsWhatItDelivers' /\ OnlyRegisteredCalled'
    BY <1>2, LocksRun, HeadRun, WaitRun
  <2>5. QueueIsBacklog'
    BY <1>2, QueueStep DEF Next
  <2>6. InOnePlace'
    BY <1>2, PlaceRun DEF Backlog
  <2>7. PushedOnce' /\ Disposal'
    BY <1>2, PushedOnceStep, DisposalRun DEF Next, Backlog
  <2>8. QED
    BY <2>2, <2>3, <2>4, <2>5, <2>6, <2>7
<1>3. ASSUME NEW t \in Threads, DeliverMessage(t) PROVE IInv'
  <2>1. PcType'
    BY <1>3, PcDeliver DEF TypeOK
  <2>2. TypeOK'
    BY <1>3, <2>1, TypeDeliver
  <2>3. HasMessage' /\ HasListener'
    BY <1>3, LocalsDeliver
  <2>4. LockDiscipline' /\ PopsWhatItDelivers' /\ OnlyRegisteredCalled'
    BY <1>3, LocksDeliver, HeadDeliver, WaitDeliver
  <2>5. QueueIsBacklog'
    BY <1>3, QueueStep DEF Next
  <2>6. InOnePlace'
    BY <1>3, PlaceDeliver DEF Backlog
  <2>7. PushedOnce' /\ Disposal'
    BY <1>3, PushedOnceStep, DisposalDeliver DEF Next, Backlog
  <2>8. QED
    BY <2>2, <2>3, <2>4, <2>5, <2>6, <2>7
<1>4. CASE UNCHANGED vars
  <2> USE <1>4 DEF vars
  <2>1. TypeOK' /\ HasMessage' /\ HasListener'
    BY DEF TypeOK, PcType, HasMessage, HasListener
  <2>2. LockDiscipline' /\ PopsWhatItDelivers' /\ OnlyRegisteredCalled'
    BY DEF LockDiscipline, PopsWhatItDelivers, OnlyRegisteredCalled
  <2>3. QueueIsBacklog' /\ InOnePlace' /\ PushedOnce'
    BY DEF QueueIsBacklog, InOnePlace, PushedOnce
  <2>4. Popped' = Popped
    BY DEF Popped
  <2>5. Disposal'
    BY <2>4 DEF Disposal
  <2>6. QED
    BY <2>1, <2>2, <2>3, <2>5
<1>5. QED
  BY <1>1, <1>2, <1>3, <1>4 DEF Next, Idle

THEOREM Invariance == Spec => []IInv
BY InitIInv, NextIInv, PTL DEF Spec

\* Every variable keeps its type, and no thread is at a label of a method it
\* does not execute.
THEOREM TypeCorrect == Spec => []TypeOK
<1>1. IInv => TypeOK
  BY DEF IInv
<1>2. QED
  BY <1>1, Invariance, PTL

\* Each mutex is owned exactly by the thread that is between its lock() and
\* unlock(), with any number of threads: so sections never overlap, and no
\* path out of them keeps the mutex.
THEOREM MutexesReleased == Spec => []LockDiscipline
<1>1. IInv => LockDiscipline
  BY DEF IInv
<1>2. QED
  BY <1>1, Invariance, PTL

\* However many workers start() makes, what a worker pops and deletes is what
\* it has delivered.
THEOREM DeliversTheFirst == Spec => []PopsWhatItDelivers
<1>1. IInv => PopsWhatItDelivers
  BY DEF IInv
<1>2. QED
  BY <1>1, Invariance, PTL

\* A broadcast never calls a listener that has been unregistered.
THEOREM UnregisteredIsNotCalled == Spec => []OnlyRegisteredCalled
<1>1. IInv => OnlyRegisteredCalled
  BY DEF IInv
<1>2. QED
  BY <1>1, Invariance, PTL

\* No thread delivers, queues or deletes a message that has been deleted, also
\* when several workers run at once.
THEOREM DeletedOnce == Spec => []NoUseAfterDelete
<1>1. IInv => NoUseAfterDelete
  BY DisposalIsSafe DEF IInv, Backlog
<1>2. QED
  BY <1>1, Invariance, PTL

-----------------------------------------------------------------------------
(* Refinement: Push is Submit, Pop is Complete, an accepted message is given *)
(* from the queue by a worker and directly by an application thread.         *)

LEMMA RefinesAccept ==
    ASSUME IInv, NEW t \in Threads, pc[t] \in DeliverLabels, NEW l \in Listeners,
           got' = [got EXCEPT ![l] = Append(@, msg[t])],
           UNCHANGED <<pushed, popped>>
    PROVE  Abstract!Next
<1>1. TypeOK
  BY DEF IInv
<1>2. CASE t \in Workers
  <2>1. popped < Len(pushed) /\ msg[t] = pushed[popped + 1]
    BY <1>2, Delivering DEF IInv
  <2>2. Abstract!Give(l)
    BY <2>1 DEF Abstract!Give
  <2>3. QED
    BY <2>2 DEF Abstract!Next
<1>3. CASE t \in AppThreads
  <2>1. msg[t] \in Messages /\ msg[t] \notin Range(pushed)
    BY <1>3, Delivering DEF IInv
  <2>2. msg[t] \notin Abstract!Submitted
    BY <1>1, <2>1 DEF Abstract!Submitted, Range, TypeOK
  <2>3. Abstract!GiveDirectly(l, msg[t])
    BY <2>2 DEF Abstract!GiveDirectly
  <2>4. QED
    BY <2>1, <2>3 DEF Abstract!Next
<1>4. QED
  BY <1>2, <1>3

LEMMA RefinesPush ==
    ASSUME IInv, NEW t \in AppThreads, Push(t)
    PROVE  Abstract!Next
<1>1. TypeOK /\ msg[t] \in Messages
  BY NullIsNothing DEF IInv, Push, HasMessage, TypeOK
<1>2. /\ msg[t] \notin Range(pushed)
      /\ \A l \in Listeners : msg[t] \notin Range(got[l])
  BY <1>1, NullIsNothing DEF IInv, InOnePlace, Push
<1>3. msg[t] \notin Abstract!Submitted
  BY <1>1, <1>2 DEF Abstract!Submitted, Range, TypeOK
<1>4. \A l \in Listeners : msg[t] \notin Abstract!Given(l)
  BY <1>1, <1>2 DEF Abstract!Given, Range, TypeOK
<1>5. Abstract!Submit(msg[t])
  BY <1>3, <1>4 DEF Abstract!Submit, Push
<1>6. QED
  BY <1>1, <1>5 DEF Abstract!Next

LEMMA RefinesPop ==
    ASSUME IInv, NEW w \in Workers, Pop(w)
    PROVE  Abstract!Next
<1>1. queue # << >> /\ queue \in Seq(Messages) /\ pushed \in Seq(Messages) /\ popped \in Nat
  BY DEF IInv, TypeOK, PopsWhatItDelivers, Pop
<1>2. Len(pushed) = popped + Len(queue)
  BY DEF IInv, QueueIsBacklog
<1>3. popped < Len(pushed)
  BY <1>1, <1>2
<1>4. Abstract!Complete
  BY <1>3 DEF Abstract!Complete, Pop
<1>5. QED
  BY <1>4 DEF Abstract!Next

\* Every step of the broker is a step of OrderedDelivery or changes nothing
\* that it sees.
LEMMA RefinesNext == IInv /\ [Next]_vars => [Abstract!Next]_(Abstract!vars)
<1> SUFFICES ASSUME IInv, [Next]_vars PROVE [Abstract!Next]_(Abstract!vars)
  OBVIOUS
<1> DEFINE Stutter == UNCHANGED <<pushed, popped, got>>
<1>1. ASSUME NEW t \in AppThreads, App(t) PROVE Push(t) \/ Stutter
  BY <1>1 DEF App, PumpMessage, IfSynchronous, IfRunThread, Start,
     RegisterListener, UnregisterListener, RequestExclusive, DiscardExclusive,
     Grant, Discard, EnableContinuous, DisableContinuous, EnableSynchronous,
     WriteSynchronous
<1>2. ASSUME NEW w \in Workers, Run(w) PROVE Pop(w) \/ Stutter
  BY <1>2 DEF Run, Enter, While, Await, TakeFront, Delete, IfEmpty, Quit
<1>3. ASSUME NEW t \in Threads, DeliverMessage(t)
      PROVE  Abstract!Next \/ Stutter
  <2>1. ASSUME NEW l \in Listeners, Accept(t, l) PROVE Abstract!Next
    BY <2>1, RefinesAccept DEF Accept
  <2>2. CASE AcceptExclusive(t)
    <3>1. CASE exclusive \in Listeners
      BY <2>2, <3>1, RefinesAccept DEF AcceptExclusive
    <3>2. CASE exclusive \notin Listeners
      BY <2>2, <3>2 DEF AcceptExclusive, IInv, TypeOK
    <3>3. QED
      BY <3>1, <3>2
  <2>3. ASSUME ~AcceptExclusive(t), ~\E l \in Listeners : Accept(t, l)
        PROVE  Stutter
    BY <1>3, <2>3 DEF DeliverMessage, Deliver, IfListeners, ElseExclusive,
       LockListener, UnlockListener, Refuse, LockExclusive
  <2>4. QED
    BY <2>1, <2>2, <2>3
<1>4. ASSUME UNCHANGED vars PROVE Stutter
  BY <1>4 DEF vars
<1>5. Abstract!Next \/ Stutter
  BY <1>1, <1>2, <1>3, <1>4, RefinesPush, RefinesPop DEF Next, Idle
<1>6. QED
  BY <1>5 DEF Abstract!vars

\* The broker, with all its threads, locks and modes, keeps the promise of
\* OrderedDelivery.
THEOREM Refinement == Spec => ImplementsOrderedDelivery
<1>1. Init => Abstract!Init
  BY DEF Init, Abstract!Init
<1>2. QED
  BY <1>1, RefinesNext, Invariance, PTL
     DEF Spec, ImplementsOrderedDelivery, Abstract!Spec

Promise == INSTANCE OrderedDelivery_proofs
    WITH submitted <- pushed, completed <- popped

\* Each listener accepts queued messages in the order in which they were
\* queued: the theorem about OrderedDelivery, carried over by the refinement.
THEOREM DeliveryInOrder == Spec => []InOrder
<1> USE DEF Abstract!Init, Promise!Init, Abstract!vars, Promise!vars,
        Abstract!Next, Promise!Next, Abstract!Submit, Promise!Submit,
        Abstract!Submitted, Promise!Submitted, Abstract!Given, Promise!Given,
        Abstract!Give, Promise!Give, Abstract!GiveDirectly,
        Promise!GiveDirectly, Abstract!Complete, Promise!Complete
<1>1. Abstract!Init => Promise!Init
  OBVIOUS
<1>2. [Abstract!Next]_(Abstract!vars) => [Promise!Next]_(Promise!vars)
  OBVIOUS
<1>3. Promise!InOrder => InOrder
  BY DEF InOrder, Abstract!InOrder, Promise!InOrder
<1> HIDE DEF Abstract!Init, Promise!Init, Abstract!vars, Promise!vars,
         Abstract!Next, Promise!Next
<1>4. QED
  BY <1>1, <1>2, <1>3, Refinement, Promise!OrderTheorem, PTL
     DEF ImplementsOrderedDelivery, Abstract!Spec, Promise!Spec
=============================================================================
