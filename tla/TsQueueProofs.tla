--------------------------- MODULE TsQueueProofs ---------------------------
(***************************************************************************)
(* Proofs about net::tsqueue for any set of producers, any number of       *)
(* pushes, and both ways the program runs the consumer (blocking or        *)
(* polling).  The inductive invariant is IInv: types, who holds which      *)
(* mutex, the test of empty() still holding when pop_front runs, and the   *)
(* deque being what was pushed and not yet popped.                         *)
(***************************************************************************)
EXTENDS TsQueue, TLAPS

IInv == TypeOK /\ LocksHeld /\ PopSafe /\ FifoOrder

-----------------------------------------------------------------------------
(* Sequences *)

\* Moving the head of b to the end of a leaves a \o b alone.
LEMMA MoveHead ==
  ASSUME NEW S, NEW a \in Seq(S), NEW b \in Seq(S), b # <<>>
  PROVE  /\ Head(b) \in S
         /\ Tail(b) \in Seq(S)
         /\ Append(a, Head(b)) \in Seq(S)
         /\ Append(a, Head(b)) \o Tail(b) = a \o b
OBVIOUS

\* In s = a \o b with b non-empty, the element after a is the head of b.
LEMMA NextOfConcat ==
  ASSUME NEW S, NEW a \in Seq(S), NEW b \in Seq(S), b # <<>>
  PROVE  /\ Len(a) < Len(a \o b)
         /\ (a \o b)[Len(a) + 1] = Head(b)
OBVIOUS

-----------------------------------------------------------------------------
(* The inductive invariant *)

\* A mutex has at most one owner, so the holder is known by its pc.
LEMMA InitIInv == Init => IInv
<1> SUFFICES ASSUME Init PROVE IInv
  OBVIOUS
<1> USE ThreadAssumption, ParameterAssumption
<1>1. \A p \in Producer : pc[p] = "ready"
  BY DEF Init, Thread
<1>2. pc[consumer] \in {"wait", "drain"}
  BY DEF Init, Thread, UpdateEntry
<1>3. TypeOK
  BY <1>1, <1>2 DEF Init, TypeOK, Thread, ProducerPc, ConsumerPc, UpdateEntry
<1>4. LocksHeld /\ PopSafe /\ FifoOrder
  BY <1>1, <1>2 DEF Init, LocksHeld, PopSafe, FifoOrder
<1> QED
  BY <1>3, <1>4 DEF IInv

\* The step in which an item enters the deque.
LEMMA PushBackIInv ==
  ASSUME IInv, NEW p \in Producer, PushBack(p)
  PROVE  IInv'
<1>1. /\ TypeOK /\ LocksHeld /\ PopSafe /\ FifoOrder
      /\ popped' = popped
      /\ queueMutex' = p
      /\ blockingMutex' = blockingMutex
      /\ pc' = [pc EXCEPT ![p] = "notify"]
      /\ queueMutex = Free
  BY DEF IInv, PushBack
<1>2. PICK x \in Item : items' = Append(items, x) /\ pushed' = Append(pushed, x)
  <2>1. <<p, Len(pushed) + 1>> \in Item
    BY ParameterAssumption DEF PushBack, IInv, TypeOK, Item
  <2> QED
    BY <2>1 DEF PushBack
<1>3. /\ \A q \in Producer : pc'[q] = IF q = p THEN "notify" ELSE pc[q]
      /\ pc'[consumer] = pc[consumer]
      /\ pc' \in [Thread -> ProducerPc \cup ConsumerPc]
  BY <1>1, ThreadAssumption DEF TypeOK, Thread, ProducerPc
<1>4. TypeOK'
  BY <1>1, <1>2, <1>3 DEF TypeOK, ProducerPc
<1>5. LocksHeld'
  BY <1>1, <1>3, ThreadAssumption DEF LocksHeld
<1>6. PopSafe'
  BY <1>1, <1>2 DEF PopSafe, TypeOK
<1>7. FifoOrder'
  <2>1. Append(popped \o items, x) = popped \o Append(items, x)
    <3>1. popped \in Seq(Item) /\ items \in Seq(Item)
      BY <1>1 DEF TypeOK
    <3> QED
      BY <3>1
  <2> QED
    BY <1>1, <1>2, <2>1 DEF FifoOrder
<1> QED
  BY <1>4, <1>5, <1>6, <1>7 DEF IInv

\* The step in which the consumer may be woken.
LEMMA NotifyIInv ==
  ASSUME IInv, NEW p \in Producer, Notify(p)
  PROVE  IInv'
<1> USE ThreadAssumption
<1>1. /\ TypeOK /\ LocksHeld /\ PopSafe /\ FifoOrder
      /\ pc[p] = "notify"
      /\ queueMutex = p
      /\ blockingMutex = Free
      /\ queueMutex' = Free
      /\ UNCHANGED <<items, blockingMutex, pushed, popped>>
  BY DEF IInv, Notify, LocksHeld
<1>2. /\ \A q \in Producer : pc'[q] = IF q = p THEN "ready" ELSE pc[q]
      /\ pc'[consumer] = IF pc[consumer] = "asleep" THEN "woken" ELSE pc[consumer]
      /\ pc' \in [Thread -> ProducerPc \cup ConsumerPc]
  BY <1>1 DEF Notify, TypeOK, Thread, ProducerPc, ConsumerPc
<1>3. TypeOK'
  BY <1>1, <1>2 DEF TypeOK, ProducerPc, ConsumerPc
<1>4. LocksHeld'
  BY <1>1, <1>2 DEF LocksHeld
<1>5. PopSafe' /\ FifoOrder'
  BY <1>1, <1>2 DEF PopSafe, FifoOrder
<1> QED
  BY <1>3, <1>4, <1>5 DEF IInv

\* The consumer moving through wait() and the test of its loop: only its own
\* pc and blocking_mutex change.
LEMMA WaitIInv ==
  ASSUME IInv,
         \/ WaitCheck \/ WaitLock \/ WaitSleep \/ WaitReturn
         \/ SpuriousWakeup \/ DrainCheck
  PROVE  IInv'
<1> USE ThreadAssumption, ParameterAssumption
<1>1. /\ TypeOK /\ LocksHeld /\ PopSafe /\ FifoOrder
      /\ UNCHANGED <<items, queueMutex, pushed, popped>>
      /\ blockingMutex' \in {consumer, Free}
      /\ \E c \in ConsumerPc :
           /\ pc' = [pc EXCEPT ![consumer] = c]
           /\ c = "sleep" <=> blockingMutex' = consumer
           /\ c = "pop" => items # <<>>
  BY DEF IInv, TypeOK, LocksHeld, WaitCheck, WaitLock, WaitSleep, WaitReturn,
         SpuriousWakeup, DrainCheck, ConsumerPc, UpdateEntry
<1>2. PICK c \in ConsumerPc :
           /\ pc' = [pc EXCEPT ![consumer] = c]
           /\ c = "sleep" <=> blockingMutex' = consumer
           /\ c = "pop" => items # <<>>
  BY <1>1
<1>3. /\ \A q \in Producer : pc'[q] = pc[q]
      /\ pc'[consumer] = c
      /\ pc' \in [Thread -> ProducerPc \cup ConsumerPc]
  BY <1>1, <1>2 DEF TypeOK, Thread
<1>4. TypeOK'
  BY <1>1, <1>2, <1>3 DEF TypeOK
<1>5. LocksHeld' /\ PopSafe' /\ FifoOrder'
  BY <1>1, <1>2, <1>3 DEF LocksHeld, PopSafe, FifoOrder
<1> QED
  BY <1>4, <1>5 DEF IInv

\* The step in which an item leaves the deque.
LEMMA PopFrontIInv ==
  ASSUME IInv, PopFront
  PROVE  IInv'
<1> USE ThreadAssumption
<1>1. /\ TypeOK /\ LocksHeld /\ FifoOrder
      /\ items # <<>>
      /\ popped' = Append(popped, Head(items))
      /\ items' = Tail(items)
      /\ pc' = [pc EXCEPT ![consumer] = "drain"]
      /\ pc[consumer] = "pop"
      /\ UNCHANGED <<queueMutex, blockingMutex, pushed>>
  BY DEF IInv, PopSafe, PopFront
<1>2. /\ \A q \in Producer : pc'[q] = pc[q]
      /\ pc'[consumer] = "drain"
      /\ pc' \in [Thread -> ProducerPc \cup ConsumerPc]
  BY <1>1 DEF TypeOK, Thread, ConsumerPc
<1>3. TypeOK'
  BY <1>1, <1>2, MoveHead DEF TypeOK, ConsumerPc
<1>4. LocksHeld' /\ PopSafe'
  BY <1>1, <1>2 DEF LocksHeld, PopSafe
<1>5. FifoOrder'
  BY <1>1, MoveHead DEF FifoOrder, TypeOK
<1> QED
  BY <1>3, <1>4, <1>5 DEF IInv

LEMMA NextIInv == IInv /\ [Next]_vars => IInv'
<1> SUFFICES ASSUME IInv, [Next]_vars PROVE IInv'
  OBVIOUS
<1>1. ASSUME NEW p \in Producer, PushBack(p) PROVE IInv'
  BY <1>1, PushBackIInv
<1>2. ASSUME NEW p \in Producer, Notify(p) PROVE IInv'
  BY <1>2, NotifyIInv
<1>3. ASSUME WaitCheck \/ WaitLock \/ WaitSleep \/ WaitReturn
             \/ SpuriousWakeup \/ DrainCheck
      PROVE  IInv'
  BY <1>3, WaitIInv
<1>4. CASE PopFront
  BY <1>4, PopFrontIInv
<1>5. CASE UNCHANGED vars
  BY <1>5 DEF vars, IInv, TypeOK, LocksHeld, PopSafe, FifoOrder
<1> QED
  BY <1>1, <1>2, <1>3, <1>4, <1>5 DEF Next, Consume

THEOREM Invariance == Spec => []IInv
BY InitIInv, NextIInv, PTL DEF Spec

-----------------------------------------------------------------------------
(* What the invariant gives *)

\* Types hold throughout, for any number of producers and pushes.
THEOREM TypeCorrect == Spec => []TypeOK
<1>1. IInv => TypeOK
  BY DEF IInv
<1> QED
  BY <1>1, Invariance, PTL

\* pop_front never meets an empty deque (tsqueue.hpp:31), though the test of
\* empty() that guards it is made under another locking of queue_mutex.
THEOREM PopIsSafe == Spec => []PopSafe
<1>1. IInv => PopSafe
  BY DEF IInv
<1> QED
  BY <1>1, Invariance, PTL

\* The two mutexes are held by whom the code says, and push_back, which takes
\* blocking_mutex inside queue_mutex, never meets a thread that holds
\* blocking_mutex and waits for queue_mutex: no deadlock between the two.
THEOREM LocksAreOrdered == Spec => []LockOrder
<1>1. IInv => LockOrder
  <2> SUFFICES ASSUME IInv, NEW t \in Thread, blockingMutex = t
               PROVE  ~ WantsQueueMutex(t)
    BY DEF IInv, LockOrder
  <2>1. t = consumer
    BY ThreadAssumption DEF IInv, TypeOK, Thread
  <2>2. pc[consumer] = "sleep"
    BY <2>1 DEF IInv, LocksHeld
  <2> QED
    BY <2>1, <2>2 DEF WantsQueueMutex
<1> QED
  BY <1>1, Invariance, PTL

-----------------------------------------------------------------------------
(* Refinement *)

LEMMA InitRefines == Init => Channel!Init
BY DEF Init, Channel!Init

\* push_back is Send, pop_front is Receive, every other step is a stutter.
LEMMA NextRefines == IInv /\ [Next]_vars => [Channel!Next]_(Channel!vars)
<1> SUFFICES ASSUME IInv, [Next]_vars PROVE [Channel!Next]_(Channel!vars)
  OBVIOUS
<1>1. ASSUME NEW p \in Producer, PushBack(p) PROVE Channel!Next
  <2>1. <<p, Len(pushed) + 1>> \in Item
    BY <1>1, ParameterAssumption DEF PushBack, IInv, TypeOK, Item
  <2>2. Channel!Send(<<p, Len(pushed) + 1>>)
    BY <1>1 DEF PushBack, Channel!Send
  <2> QED
    BY <2>1, <2>2 DEF Channel!Next
<1>2. CASE PopFront
  <2>1. items # <<>> /\ pushed = popped \o items
    BY <1>2 DEF PopFront, IInv, PopSafe, FifoOrder
  <2>2. Len(popped) < Len(pushed) /\ pushed[Len(popped) + 1] = Head(items)
    BY <2>1, NextOfConcat DEF IInv, TypeOK
  <2>3. Channel!Receive
    BY <1>2, <2>2 DEF PopFront, Channel!Receive
  <2> QED
    BY <2>3 DEF Channel!Next
<1>3. ASSUME NEW p \in Producer, Notify(p) PROVE UNCHANGED Channel!vars
  BY <1>3 DEF Notify, Channel!vars
<1>4. ASSUME WaitCheck \/ WaitLock \/ WaitSleep \/ WaitReturn
             \/ SpuriousWakeup \/ DrainCheck
      PROVE  UNCHANGED Channel!vars
  BY <1>4 DEF WaitCheck, WaitLock, WaitSleep, WaitReturn, SpuriousWakeup,
              DrainCheck, Channel!vars
<1>5. CASE UNCHANGED vars
  BY <1>5 DEF vars, Channel!vars
<1> QED
  BY <1>1, <1>2, <1>3, <1>4, <1>5 DEF Next, Consume

\* The queue, with the threads around it, implements a FIFO channel: every item
\* is handed out at most once, in the order of the calls of push_back, and
\* nothing is handed out that was not pushed.
THEOREM QueueIsFifo == Spec => IsFifo
BY InitRefines, NextRefines, Invariance, PTL DEF Spec, IsFifo, Channel!Spec
=============================================================================
