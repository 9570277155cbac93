-------------------------- MODULE SynchronizedQueue --------------------------
(***************************************************************************)
(* shcore::Synchronized_queue (synchronized_queue.h) at the level of its   *)
(* mutex and its two condition variables.  What happens under m_queue_mutex*)
(* is one step; a thread that waits on a condition variable gives the      *)
(* mutex up, is moved out of the wait set by a notification, a timeout or  *)
(* spuriously, and evaluates its predicate again.  push() and shutdown()   *)
(* notify after they have released the mutex, in a step of their own.      *)
(***************************************************************************)
EXTENDS Integers, Sequences, FiniteSets

CONSTANTS
    Producers,   \* threads that call push()
    Consumers,   \* threads that call pop() until they get a guard
    Timed,       \* the consumers that use try_pop() instead
    Script,      \* the priorities each producer pushes with, in order
    MaxSizes     \* the values m_max_size may have, 0: unbounded

ASSUME QueueAssumption ==
    /\ IsFiniteSet(Producers) /\ IsFiniteSet(Consumers)
    /\ Timed \subseteq Consumers
    /\ Script \in [Producers -> Seq(1..4)]
    /\ MaxSizes \subseteq Nat

\* An element is named by who pushed it and when; a guard has priority 0.
Items == Producers \X (Nat \ {0})
Guard == <<>>

VARIABLES
    maxSize,   \* m_max_size, set by the constructor
    queues,    \* m_queues, by priority
    size,      \* m_size
    producer,  \* "push", "full": waits on m_not_full, "woken", "notify"
    consumer,  \* "pop", "empty": waits on m_task_ready, "woken", "end"
    pushed,    \* number of elements each producer has pushed
    popped,    \* the elements in the order they were popped
    closed,    \* shutdown(): "no", "guards": pushed, to notify, "yes"
    due        \* what was pushed before the guards: they come behind it

vars == <<queues, size, producer, consumer, pushed, popped, closed, due, maxSize>>

TypeOK ==
    /\ maxSize \in MaxSizes
    /\ queues \in [0..4 -> Seq(Items \cup {Guard})]
    /\ size = Len(queues[0]) + Len(queues[1]) + Len(queues[2]) + Len(queues[3]) + Len(queues[4])
    /\ producer \in [Producers -> {"push", "full", "woken", "notify"}]
    /\ consumer \in [Consumers -> {"pop", "empty", "woken", "end"}]
    /\ pushed \in [Producers -> Nat]
    /\ popped \in Seq(Items)
    /\ closed \in {"no", "guards", "yes"}
    /\ due \in [Producers -> Nat]

Init ==
    /\ maxSize \in MaxSizes
    /\ queues = [p \in 0..4 |-> <<>>]
    /\ size = 0
    /\ producer = [p \in Producers |-> "push"]
    /\ consumer = [c \in Consumers |-> "pop"]
    /\ pushed = [p \in Producers |-> 0]
    /\ popped = <<>>
    /\ closed = "no"
    /\ due = pushed

----------------------------------------------------------------------------
Asleep(cs)    == {c \in DOMAIN cs : cs[c] \in {"empty", "full"}}
Finished(p)   == producer[p] = "push" /\ pushed[p] = Len(Script[p])

\* condition_variable::notify_one() and notify_all() on a wait set.
NotifyOne(cs, cs2) ==
    \/ Asleep(cs) = {} /\ cs2 = cs
    \/ \E c \in Asleep(cs) : cs2 = [cs EXCEPT ![c] = "woken"]

NotifyAll(cs) == [c \in DOMAIN cs |-> IF cs[c] = "empty" THEN "woken" ELSE cs[c]]

\* push(): takes the mutex; waits while the queue is full.
PushWaits(p) ==
    /\ producer[p] \in {"push", "woken"} /\ pushed[p] < Len(Script[p])
    /\ maxSize > 0 /\ size >= maxSize
    /\ producer' = [producer EXCEPT ![p] = "full"]
    /\ UNCHANGED <<queues, size, consumer, pushed, popped, closed, due, maxSize>>

\* MUTANT: push() notifies nobody
PushNoNotify(p) ==
    LET n == pushed[p] + 1 IN
    /\ producer[p] \in {"push", "woken"} /\ pushed[p] < Len(Script[p])
    /\ maxSize = 0 \/ size < maxSize
    /\ queues' = [queues EXCEPT ![Script[p][n]] = Append(@, <<p, n>>)]
    /\ size' = size + 1
    /\ pushed' = [pushed EXCEPT ![p] = n]
    /\ producer' = [producer EXCEPT ![p] = "push"]
    /\ UNCHANGED <<consumer, popped, closed, due, maxSize>>

Push(p) ==
    LET n == pushed[p] + 1 IN
    /\ producer[p] \in {"push", "woken"} /\ pushed[p] < Len(Script[p])
    /\ maxSize = 0 \/ size < maxSize
    /\ queues' = [queues EXCEPT ![Script[p][n]] = Append(@, <<p, n>>)]
    /\ size' = size + 1
    /\ pushed' = [pushed EXCEPT ![p] = n]
    /\ producer' = [producer EXCEPT ![p] = "notify"]
    /\ UNCHANGED <<consumer, popped, closed, due, maxSize>>

\* m_task_ready.notify_one(), after the mutex was released.
Notify(p) ==
    /\ producer[p] = "notify"
    /\ producer' = [producer EXCEPT ![p] = "push"]
    /\ NotifyOne(consumer, consumer')
    /\ UNCHANGED <<queues, size, pushed, popped, closed, due, maxSize>>

\* pop() and try_pop(): the predicate is false, the thread waits.
PopWaits(c) ==
    /\ consumer[c] \in {"pop", "woken"} /\ size = 0
    /\ consumer' = [consumer EXCEPT ![c] = "empty"]
    /\ UNCHANGED <<queues, size, producer, pushed, popped, closed, due, maxSize>>

\* MUTANT: the deques are scanned from the wrong end
LastQueue == CHOOSE p \in 0..4 : queues[p] # <<>> /\ \A q \in 0..4 : q < p => queues[q] = <<>>

\* The priority unsynchronized_pop() takes from.
FirstQueue == CHOOSE p \in 0..4 : queues[p] # <<>> /\ \A q \in 0..4 : q > p => queues[q] = <<>>

\* MUTANT: no waiting producer is notified
PopNoNotify(c) ==
    LET p == FirstQueue
        e == Head(queues[p]) IN
    /\ consumer[c] \in {"pop", "woken"} /\ size > 0
    /\ queues' = [queues EXCEPT ![p] = Tail(@)]
    /\ size' = size - 1
    /\ IF e = Guard
         THEN /\ consumer' = [consumer EXCEPT ![c] = "end"]
              /\ UNCHANGED popped
         ELSE /\ consumer' = [consumer EXCEPT ![c] = "pop"]
              /\ popped' = Append(popped, e)
    /\ UNCHANGED <<producer, pushed, closed, due, maxSize>>

\* unsynchronized_pop(): one waiting producer is notified, and only when the
\* queue was full.
Pop(c) ==
    LET p == FirstQueue
        e == Head(queues[p]) IN
    /\ consumer[c] \in {"pop", "woken"} /\ size > 0
    /\ queues' = [queues EXCEPT ![p] = Tail(@)]
    /\ size' = size - 1
    /\ IF maxSize > 0 /\ size = maxSize
         THEN NotifyOne(producer, producer')
         ELSE UNCHANGED producer
    /\ IF e = Guard
         THEN /\ consumer' = [consumer EXCEPT ![c] = "end"]
              /\ UNCHANGED popped
         ELSE /\ consumer' = [consumer EXCEPT ![c] = "pop"]
              /\ popped' = Append(popped, e)
    /\ UNCHANGED <<pushed, closed, due, maxSize>>

\* try_pop() gives up after its timeout; its caller calls it again.
Timeout(c) ==
    /\ c \in Timed
    /\ consumer[c] = "empty" /\ size = 0
    /\ consumer' = [consumer EXCEPT ![c] = "pop"]
    /\ UNCHANGED <<queues, size, producer, pushed, popped, closed, due, maxSize>>

\* A wait may end without a notification; the predicate is tested again.
SpuriousWakeup ==
    \/ /\ \E c \in Asleep(consumer) : consumer' = [consumer EXCEPT ![c] = "woken"]
       /\ UNCHANGED <<queues, size, producer, pushed, popped, closed, due, maxSize>>
    \/ /\ \E p \in Asleep(producer) : producer' = [producer EXCEPT ![p] = "woken"]
       /\ UNCHANGED <<queues, size, consumer, pushed, popped, closed, due, maxSize>>

\* shutdown(n), under the mutex: one guard per consumer at the lowest priority,
\* past the limit if need be.
\* BOUND: once; the guards of a second call would be taken by nobody.
PushGuards ==
    /\ closed = "no"
    /\ closed' = "guards"
    /\ due' = pushed
    /\ queues' = [queues EXCEPT ![0] = [i \in 1..Cardinality(Consumers) |-> Guard]]
    /\ size' = size + Cardinality(Consumers)
    /\ UNCHANGED <<producer, consumer, pushed, popped, maxSize>>

\* The owner calls it when the producers are done, and sooner in an emergency.
Shutdown          == (\A p \in Producers : Finished(p)) /\ PushGuards
EmergencyShutdown == (\E p \in Producers : ~Finished(p)) /\ PushGuards

\* m_task_ready.notify_all(), after the mutex was released.
ShutdownNotify ==
    /\ closed = "guards"
    /\ closed' = "yes"
    /\ consumer' = NotifyAll(consumer)
    /\ UNCHANGED <<queues, size, producer, pushed, popped, due, maxSize>>

ProducerStep(p) == PushWaits(p) \/ Push(p) \/ Notify(p)
ConsumerStep(c) == PopWaits(c) \/ Pop(c)

Next ==
    \/ \E p \in Producers : ProducerStep(p)
    \/ \E c \in Consumers : ConsumerStep(c) \/ Timeout(c)
    \/ SpuriousWakeup
    \/ Shutdown \/ EmergencyShutdown \/ ShutdownNotify

\* Threads that are not waiting run on; a timeout, a spurious wakeup and an
\* emergency need not happen.
Fairness ==
    /\ \A p \in Producers : WF_vars(ProducerStep(p))
    /\ \A c \in Consumers : WF_vars(ConsumerStep(c))
    /\ WF_vars(Shutdown \/ ShutdownNotify)

Spec     == Init /\ [][Next]_vars
FairSpec == Spec /\ Fairness

----------------------------------------------------------------------------
(* Properties.                                                             *)

\* Producers about to notify, and consumers that have been notified.
Notifying == {p \in Producers : producer[p] = "notify"}
Woken     == {c \in Consumers : consumer[c] = "woken"}

\* No wakeup is lost: while a consumer sleeps on m_task_ready, every element
\* and guard in the queue has a notification under way or a consumer that was
\* woken for it, however push(), shutdown(), their late notifications, pop() and
\* timeouts interleave.
NoLostWakeup ==
    Asleep(consumer) # {} =>
        closed = "guards" \/ size <= Cardinality(Notifying) + Cardinality(Woken)

\* The elements of one producer with one priority come out in the order they
\* went in, and none comes out twice (FIFO).
FifoPerPriority ==
    \A i, j \in 1..Len(popped) :
        i < j /\ popped[i][1] = popped[j][1]
              /\ Script[popped[i][1]][popped[i][2]] = Script[popped[j][1]][popped[j][2]]
            => popped[i][2] < popped[j][2]

\* A guard is taken behind what was pushed before it, and behind what is pushed
\* later as long as it waits: when a consumer has ended, everything pushed before
\* shutdown() has been popped, although producers may push on after it.
GuardsLast ==
    (\E c \in Consumers : consumer[c] = "end") =>
        \A p \in Producers : \A n \in 1..due[p] :
            \E i \in 1..Len(popped) : popped[i] = <<p, n>>

\* What comes out of the queue is in order: the two properties above, with
\* m_size equal to the number of elements and guards (TypeOK).
PopOrder == TypeOK /\ FifoPerPriority /\ GuardsLast

\* Every consumer ends with its guard, and by GuardsLast everything due was
\* delivered before: nobody sleeps for ever next to a queue that has an element, or
\* room while the queue is in use.  (Not so with a limit of two or more: pop()
\* notifies only when the queue was full.)
AllDelivered ==
    <>(\A c \in Consumers : consumer[c] = "end")
============================================================================
