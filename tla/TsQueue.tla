------------------------------ MODULE TsQueue ------------------------------
(***************************************************************************)
(* net::tsqueue (net/tsqueue.hpp), the queue every pair of threads of this *)
(* program shares, together with the one loop that empties it.             *)
(*                                                                         *)
(* Several threads push.  One thread consumes: server_interface::update    *)
(* (net/server.hpp) for the server's incoming messages, the two loops of   *)
(* football_client::listen for the client's.  `Blocking' is update's       *)
(* bWait: the server's main() passes true, the test servers and listen     *)
(* poll.                                                                   *)
(*                                                                         *)
(* The class has two mutexes.  queue_mutex protects the deque;             *)
(* blocking_mutex and cv_wait are what wait() sleeps on.  A step of the    *)
(* model is a maximal piece of code that no other thread can observe half  *)
(* done: a locked region is one step, unless the thread takes a second     *)
(* lock inside it.                                                         *)
(***************************************************************************)
EXTENDS Naturals, Sequences

CONSTANTS Producer,    \* the threads that push
          consumer,    \* the thread that pops
          Blocking,    \* does the consumer call wait() before it drains?
          MaxPush,     \* bound: how many items are pushed in a behaviour
          Free         \* the owner of a mutex nobody holds

ASSUME ThreadAssumption ==
  /\ consumer \notin Producer
  /\ Free \notin Producer \cup {consumer}
ASSUME ParameterAssumption ==
  /\ Blocking \in BOOLEAN
  /\ MaxPush \in Nat

VARIABLES items,          \* ts_queue
          queueMutex,     \* owner of queue_mutex
          blockingMutex,  \* owner of blocking_mutex
          pc,             \* where each thread is
          pushed,         \* history: every item pushed
          popped          \* history: every item popped

vars == <<items, queueMutex, blockingMutex, pc, pushed, popped>>

Thread == Producer \cup {consumer}

\* The n-th push of the system, done by thread p.
Item == Producer \X (1 .. MaxPush)

\* Where update() starts: wait() when bWait is set, else the draining loop.
UpdateEntry == IF Blocking THEN "wait" ELSE "drain"

ProducerPc == {"ready",     \* not in push_back
               "notify"}    \* in push_back, item in, wants blocking_mutex

ConsumerPc == {"wait",      \* at the test of wait()'s while
               "lock",      \* saw it empty, wants blocking_mutex
               "sleep",     \* holds blocking_mutex, about to cv_wait.wait
               "asleep",    \* in cv_wait.wait
               "woken",     \* notified, wants blocking_mutex back
               "drain",     \* at the test of update()'s while
               "pop"}       \* saw it non-empty, about to pop_front

Init ==
  /\ items = <<>>
  /\ queueMutex = Free
  /\ blockingMutex = Free
  /\ pc = [t \in Thread |-> IF t = consumer THEN UpdateEntry ELSE "ready"]
  /\ pushed = <<>>
  /\ popped = <<>>

-----------------------------------------------------------------------------
(* push_back *)

\* Mutant: push_back guards the deque with the mutex of the condition variable.
PushBackOtherMutex(p) ==
  /\ Len(pushed) < MaxPush
  /\ pc[p] = "ready"
  /\ blockingMutex = Free
  /\ LET x == <<p, Len(pushed) + 1>> IN
       /\ items' = Append(items, x)
       /\ pushed' = Append(pushed, x)
  /\ blockingMutex' = p
  /\ pc' = [pc EXCEPT ![p] = "notify"]
  /\ UNCHANGED <<queueMutex, popped>>

\* push_back up to its second lock: the item is in the deque and queue_mutex
\* stays held while the thread asks for blocking_mutex.
PushBack(p) ==
  /\ Len(pushed) < MaxPush
  /\ pc[p] = "ready"
  /\ queueMutex = Free
  /\ LET x == <<p, Len(pushed) + 1>> IN
       /\ items' = Append(items, x)
       /\ pushed' = Append(pushed, x)
  /\ queueMutex' = p
  /\ pc' = [pc EXCEPT ![p] = "notify"]
  /\ UNCHANGED <<blockingMutex, popped>>

\* The rest of push_back: notify_one wakes the consumer if it is asleep, and
\* is forgotten if it is not; then both locks go out of scope.
Notify(p) ==
  /\ pc[p] = "notify"
  /\ blockingMutex = Free
  /\ queueMutex' = Free
  /\ pc' = [pc EXCEPT ![p] = "ready",
                      ![consumer] = IF @ = "asleep" THEN "woken" ELSE @]
  /\ UNCHANGED <<items, blockingMutex, pushed, popped>>

-----------------------------------------------------------------------------
(* wait *)

\* while (empty()): the lock empty() takes is released before it returns.
WaitCheck ==
  /\ pc[consumer] = "wait"
  /\ queueMutex = Free
  /\ pc' = [pc EXCEPT ![consumer] = IF items = <<>> THEN "lock" ELSE "drain"]
  /\ UNCHANGED <<items, queueMutex, blockingMutex, pushed, popped>>

WaitLock ==
  /\ pc[consumer] = "lock"
  /\ blockingMutex = Free
  /\ blockingMutex' = consumer
  /\ pc' = [pc EXCEPT ![consumer] = "sleep"]
  /\ UNCHANGED <<items, queueMutex, pushed, popped>>

\* cv_wait.wait(ul) releases the mutex and starts to sleep in one step.
WaitSleep ==
  /\ pc[consumer] = "sleep"
  /\ blockingMutex' = Free
  /\ pc' = [pc EXCEPT ![consumer] = "asleep"]
  /\ UNCHANGED <<items, queueMutex, pushed, popped>>

\* A condition variable may wake its waiter for no reason.
SpuriousWakeup ==
  /\ pc[consumer] = "asleep"
  /\ pc' = [pc EXCEPT ![consumer] = "woken"]
  /\ UNCHANGED <<items, queueMutex, blockingMutex, pushed, popped>>

\* Mutant: wait() tests empty() again without letting go of blocking_mutex.
WaitReturnLocked ==
  /\ pc[consumer] = "woken"
  /\ blockingMutex = Free
  /\ blockingMutex' = consumer
  /\ pc' = [pc EXCEPT ![consumer] = "wait"]
  /\ UNCHANGED <<items, queueMutex, pushed, popped>>

\* Mutant: wait() goes back to sleep without testing empty() again.
WaitReturnUntested ==
  /\ pc[consumer] = "woken"
  /\ blockingMutex = Free
  /\ pc' = [pc EXCEPT ![consumer] = "lock"]
  /\ UNCHANGED <<items, queueMutex, blockingMutex, pushed, popped>>

\* cv_wait.wait takes the mutex back and returns; ul dies with the loop body.
WaitReturn ==
  /\ pc[consumer] = "woken"
  /\ blockingMutex = Free
  /\ pc' = [pc EXCEPT ![consumer] = "wait"]
  /\ UNCHANGED <<items, queueMutex, blockingMutex, pushed, popped>>

-----------------------------------------------------------------------------
(* the draining loop of update *)

\* Mutant: the loop trusts its caller and pops without a test.
DrainUntested ==
  /\ pc[consumer] = "drain"
  /\ queueMutex = Free
  /\ pc' = [pc EXCEPT ![consumer] = "pop"]
  /\ UNCHANGED <<items, queueMutex, blockingMutex, pushed, popped>>

\* while (... && !m_qMessagesIn.empty()); update(-1) sets no limit.  When the
\* queue is empty update() returns and its caller calls it again at once.
DrainCheck ==
  /\ pc[consumer] = "drain"
  /\ queueMutex = Free
  /\ pc' = [pc EXCEPT ![consumer] = IF items = <<>> THEN UpdateEntry ELSE "pop"]
  /\ UNCHANGED <<items, queueMutex, blockingMutex, pushed, popped>>

\* Mutant: pop_front hands out a copy and forgets to erase the item.
PopFrontKeeps ==
  /\ pc[consumer] = "pop"
  /\ queueMutex = Free
  /\ popped' = Append(popped, Head(items))
  /\ pc' = [pc EXCEPT ![consumer] = "drain"]
  /\ UNCHANGED <<items, queueMutex, blockingMutex, pushed>>

\* pop_front does not look whether there is anything to pop.
PopFront ==
  /\ pc[consumer] = "pop"
  /\ queueMutex = Free
  /\ popped' = Append(popped, Head(items))
  /\ items' = Tail(items)
  /\ pc' = [pc EXCEPT ![consumer] = "drain"]
  /\ UNCHANGED <<queueMutex, blockingMutex, pushed>>

-----------------------------------------------------------------------------

\* What the consumer does of its own accord.
Consume ==
  WaitCheck \/ WaitLock \/ WaitSleep \/ WaitReturn \/ DrainCheck \/ PopFront

Next ==
  \/ \E p \in Producer : PushBack(p) \/ Notify(p)
  \/ Consume
  \/ SpuriousWakeup

Spec == Init /\ [][Next]_vars

\* The scheduler runs every thread that can run.  It owes nobody a push nor a
\* spurious wakeup.
Fairness ==
  /\ \A p \in Producer : WF_vars(Notify(p))
  /\ WF_vars(Consume)

FairSpec == Spec /\ Fairness

-----------------------------------------------------------------------------
(* Properties *)

\* The type of every variable.  Only producers are ever seen holding
\* queue_mutex, only the consumer blocking_mutex, and each thread stays in its
\* own code.
TypeOK ==
  /\ items \in Seq(Item)
  /\ queueMutex \in Producer \cup {Free}
  /\ blockingMutex \in {consumer, Free}
  /\ pc \in [Thread -> ProducerPc \cup ConsumerPc]
  /\ \A p \in Producer : pc[p] \in ProducerPc
  /\ pc[consumer] \in ConsumerPc
  /\ pushed \in Seq(Item)
  /\ popped \in Seq(Item)

\* pop_front (tsqueue.hpp:31) calls front() on the deque unasked.  The test of
\* empty() that protects it was made under a lock released since then: it is
\* still good when the pop happens.
PopSafe == pc[consumer] = "pop" => items # <<>>

\* What went in and did not come out is in the deque, in order.
FifoOrder == pushed = popped \o items

\* A mutex is held by the thread that is inside the block declaring its lock
\* object, and by no other.
LocksHeld ==
  /\ \A p \in Producer : pc[p] = "notify" <=> queueMutex = p
  /\ pc[consumer] = "sleep" <=> blockingMutex = consumer

\* The mutexes are held as their blocks say, and nobody waits for queue_mutex while
\* holding blocking_mutex.  push_back takes the two in the other order, so such a
\* wait could never end.
WantsQueueMutex(t) == pc[t] \in {"ready", "wait", "drain", "pop"}
LockOrder == LocksHeld /\ \A t \in Thread : blockingMutex = t => ~ WantsQueueMutex(t)

\* The queue, its locks and its consumer's loop are a FIFO channel: each item
\* is handed out once, in the order in which push_back was called.
Channel == INSTANCE FifoChannel WITH sent <- pushed, received <- popped
IsFifo == Channel!Spec

\* Every item is popped some day.
EveryItemConsumed ==
  \A n \in 1 .. MaxPush : Len(pushed) >= n ~> Len(popped) >= n

\* What was in the queue when the consumer woke up is popped, however the
\* wakeup came about and whatever is pushed meanwhile.
WakeDrains ==
  \A n \in 1 .. MaxPush :
    pc[consumer] = "woken" /\ Len(pushed) >= n ~> Len(popped) >= n
=============================================================================
