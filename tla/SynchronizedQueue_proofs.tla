----------------------- MODULE SynchronizedQueue_proofs -----------------------
(* The queue: no wakeup of a consumer is lost and elements come out in      *)
(* order, for any number of producers and consumers, any script and any    *)
(* limit.  The pipe of the copy utilities, whose two sides take turns      *)
(* through two such queues: the target gets the bytes of the file, for     *)
(* files, buffers and transactions of any size.                            *)
EXTENDS SynchronizedQueue, CopyPipe, FiniteSetTheorems, SequenceTheorems,
        WellFoundedInduction, TLAPS

\* The part of the type invariant that the argument needs.
Shape ==
    /\ size \in Nat
    /\ producer \in [Producers -> {"push", "full", "woken", "notify"}]
    /\ consumer \in [Consumers -> {"pop", "empty", "woken", "end"}]

WakeInv == Shape /\ NoLostWakeup

\* The sets that NoLostWakeup counts are finite.
LEMMA CountsAreNat ==
    /\ IsFiniteSet(Notifying) /\ Cardinality(Notifying) \in Nat
    /\ IsFiniteSet(Woken) /\ Cardinality(Woken) \in Nat
<1>1. Notifying \subseteq Producers /\ Woken \subseteq Consumers
  BY DEF Notifying, Woken
<1>2. IsFiniteSet(Notifying) /\ IsFiniteSet(Woken)
  BY <1>1, QueueAssumption, FS_Subset DEF QueueAssumption
<1> QED
  BY <1>2, FS_CardinalityType

\* The same in the next state.
LEMMA CountsAreNatNext ==
    /\ IsFiniteSet(Notifying') /\ Cardinality(Notifying') \in Nat
    /\ IsFiniteSet(Woken') /\ Cardinality(Woken') \in Nat
<1>1. Notifying' \subseteq Producers /\ Woken' \subseteq Consumers
  BY DEF Notifying, Woken
<1>2. IsFiniteSet(Notifying') /\ IsFiniteSet(Woken')
  BY <1>1, QueueAssumption, FS_Subset DEF QueueAssumption
<1> QED
  BY <1>2, FS_CardinalityType

\* push() queues one element and owes one notification for it.
LEMMA PushKeeps ==
    ASSUME NEW p \in Producers, WakeInv, Push(p)
    PROVE  WakeInv'
<1>1. Shape'
  BY DEF WakeInv, Shape, Push
<1>2. Notifying' = Notifying \cup {p} /\ p \notin Notifying
  BY DEF WakeInv, Shape, Push, Notifying
<1>3. Cardinality(Notifying') = Cardinality(Notifying) + 1
  BY <1>2, CountsAreNat, FS_AddElement
<1>4. /\ Woken' = Woken /\ Asleep(consumer)' = Asleep(consumer) /\ size' = size + 1
      /\ closed' = closed
  BY DEF Push, Woken, Asleep
<1>5. NoLostWakeup'
  BY <1>3, <1>4, CountsAreNat, CountsAreNatNext DEF WakeInv, Shape, NoLostWakeup
<1> QED
  BY <1>1, <1>5 DEF WakeInv

\* A producer that waits changes neither count.
LEMMA PushWaitsKeeps ==
    ASSUME NEW p \in Producers, WakeInv, PushWaits(p)
    PROVE  WakeInv'
<1>1. Shape'
  BY DEF WakeInv, Shape, PushWaits
<1>2. Notifying' = Notifying
  BY DEF WakeInv, Shape, PushWaits, Notifying
<1>3. /\ Woken' = Woken /\ Asleep(consumer)' = Asleep(consumer) /\ size' = size
      /\ closed' = closed
  BY DEF PushWaits, Woken, Asleep
<1> QED
  BY <1>1, <1>2, <1>3 DEF WakeInv, NoLostWakeup

\* notify_one() turns a notification into a woken consumer, if one sleeps.
LEMMA NotifyKeeps ==
    ASSUME NEW p \in Producers, WakeInv, Notify(p)
    PROVE  WakeInv'
<1>1. DOMAIN consumer = Consumers
  BY DEF WakeInv, Shape
<1>2. Notifying' = Notifying \ {p} /\ p \in Notifying
  BY DEF WakeInv, Shape, Notify, Notifying
<1>3. Cardinality(Notifying') = Cardinality(Notifying) - 1
  BY <1>2, CountsAreNat, FS_RemoveElement
<1>4. CASE Asleep(consumer) = {} /\ consumer' = consumer
  BY <1>4 DEF WakeInv, Shape, Notify, NoLostWakeup, Asleep
<1>5. CASE \E c \in Asleep(consumer) : consumer' = [consumer EXCEPT ![c] = "woken"]
  <2>1. PICK c \in Asleep(consumer) : consumer' = [consumer EXCEPT ![c] = "woken"]
    BY <1>5
  <2>2. c \in Consumers /\ consumer[c] = "empty"
    BY <1>1 DEF Asleep, WakeInv, Shape
  <2>3. Shape'
    BY <2>1, <2>2 DEF WakeInv, Shape, Notify
  <2>4. Woken' = Woken \cup {c} /\ c \notin Woken
    BY <2>1, <2>2 DEF WakeInv, Shape, Woken
  <2>5. Cardinality(Woken') = Cardinality(Woken) + 1
    BY <2>4, CountsAreNat, FS_AddElement
  <2>6. size' = size /\ closed' = closed /\ Asleep(consumer) # {}
    BY <2>1 DEF Notify
  <2>7. NoLostWakeup'
    BY <1>3, <2>5, <2>6, CountsAreNat DEF WakeInv, Shape, NoLostWakeup
  <2> QED
    BY <2>3, <2>7 DEF WakeInv
<1> QED
  BY <1>4, <1>5 DEF Notify, NotifyOne

\* A consumer only goes to sleep, or times out, next to an empty queue.
LEMMA WaitKeeps ==
    ASSUME NEW c \in Consumers, WakeInv, PopWaits(c) \/ Timeout(c)
    PROVE  WakeInv'
<1>1. Shape' /\ size' = 0
  BY DEF WakeInv, Shape, PopWaits, Timeout
<1> QED
  BY <1>1, CountsAreNatNext DEF WakeInv, NoLostWakeup

\* pop() takes one element and uses up at most one woken consumer.
LEMMA PopKeeps ==
    ASSUME NEW c \in Consumers, WakeInv, Pop(c)
    PROVE  WakeInv'
<1>1. size > 0 /\ size' = size - 1 /\ closed' = closed /\ consumer[c] \in {"pop", "woken"}
  BY DEF Pop
<1>2. consumer' \in {[consumer EXCEPT ![c] = "end"], [consumer EXCEPT ![c] = "pop"]}
  BY DEF Pop
<1>3. /\ producer' \in [Producers -> {"push", "full", "woken", "notify"}]
      /\ Notifying' = Notifying
  <2>1. CASE producer' = producer
    BY <2>1 DEF WakeInv, Shape, Notifying
  <2>2. CASE \E q \in Asleep(producer) : producer' = [producer EXCEPT ![q] = "woken"]
    BY <2>2 DEF WakeInv, Shape, Notifying, Asleep
  <2> QED
    BY <2>1, <2>2 DEF Pop, NotifyOne
<1>4. Shape'
  BY <1>1, <1>2, <1>3 DEF WakeInv, Shape
<1>5. Woken' = Woken \ {c} /\ Asleep(consumer)' = Asleep(consumer)
  BY <1>1, <1>2 DEF WakeInv, Shape, Woken, Asleep
<1>6. Cardinality(Woken') >= Cardinality(Woken) - 1
  <2>1. CASE c \in Woken
    <3>1. Cardinality(Woken') = Cardinality(Woken) - 1
      BY <2>1, <1>5, CountsAreNat, FS_RemoveElement
    <3> QED
      BY <3>1, CountsAreNat
  <2>2. CASE c \notin Woken
    <3>1. Woken' = Woken
      BY <2>2, <1>5
    <3> QED
      BY <3>1, CountsAreNat
  <2> QED
    BY <2>1, <2>2
<1>7. NoLostWakeup'
  BY <1>1, <1>3, <1>5, <1>6, CountsAreNat, CountsAreNatNext
     DEF WakeInv, Shape, NoLostWakeup
<1> QED
  BY <1>4, <1>7 DEF WakeInv

\* A spurious wakeup only adds to the consumers that are awake.
LEMMA SpuriousKeeps ==
    ASSUME WakeInv, SpuriousWakeup
    PROVE  WakeInv'
<1>1. CASE /\ \E c \in Asleep(consumer) : consumer' = [consumer EXCEPT ![c] = "woken"]
           /\ UNCHANGED <<queues, size, producer, pushed, popped, closed, due, maxSize>>
  <2>1. PICK c \in Asleep(consumer) : consumer' = [consumer EXCEPT ![c] = "woken"]
    BY <1>1
  <2>2. c \in Consumers /\ consumer[c] = "empty"
    BY DEF Asleep, WakeInv, Shape
  <2>3. /\ Shape' /\ Notifying' = Notifying /\ size' = size /\ closed' = closed
        /\ Asleep(consumer) # {}
    BY <1>1, <2>1, <2>2 DEF WakeInv, Shape, Notifying
  <2>4. Woken' = Woken \cup {c} /\ c \notin Woken
    BY <2>1, <2>2 DEF WakeInv, Shape, Woken
  <2>5. Cardinality(Woken') = Cardinality(Woken) + 1
    BY <2>4, CountsAreNat, FS_AddElement
  <2> QED
    BY <2>3, <2>5, CountsAreNat DEF WakeInv, Shape, NoLostWakeup
<1>2. CASE /\ \E p \in Asleep(producer) : producer' = [producer EXCEPT ![p] = "woken"]
           /\ UNCHANGED <<queues, size, consumer, pushed, popped, closed, due, maxSize>>
  <2>1. Shape' /\ Notifying' = Notifying
    BY <1>2 DEF WakeInv, Shape, Notifying, Asleep
  <2>2. /\ Woken' = Woken /\ Asleep(consumer)' = Asleep(consumer) /\ size' = size
        /\ closed' = closed
    BY <1>2 DEF Woken, Asleep
  <2> QED
    BY <2>1, <2>2 DEF WakeInv, NoLostWakeup
<1> QED
  BY <1>1, <1>2 DEF SpuriousWakeup

\* shutdown() owes a notification to everyone from the moment it pushed the guards.
LEMMA GuardsKeep ==
    ASSUME WakeInv, PushGuards
    PROVE  WakeInv'
<1>1. Cardinality(Consumers) \in Nat
  BY QueueAssumption, FS_CardinalityType DEF QueueAssumption
<1>2. Shape' /\ closed' = "guards"
  BY <1>1 DEF WakeInv, Shape, PushGuards
<1> QED
  BY <1>2 DEF WakeInv, NoLostWakeup

\* notify_all() leaves no consumer asleep.
LEMMA ShutdownKeeps ==
    ASSUME WakeInv, ShutdownNotify
    PROVE  WakeInv'
<1>2. consumer' = [c \in Consumers |-> IF consumer[c] = "empty" THEN "woken" ELSE consumer[c]]
  BY DEF WakeInv, Shape, ShutdownNotify, NotifyAll
<1>3. Shape'
  BY <1>2 DEF WakeInv, Shape, ShutdownNotify
<1>4. Asleep(consumer)' = {}
  BY <1>2, <1>3 DEF Asleep, WakeInv, Shape
<1> QED
  BY <1>3, <1>4 DEF WakeInv, NoLostWakeup

\* While a consumer sleeps on m_task_ready, every element of the queue has a
\* notify_one() under way or a consumer that was woken for it.
THEOREM WakeupsCorrect == Spec => []NoLostWakeup
<1>1. Init => WakeInv
  BY CountsAreNat DEF Init, WakeInv, Shape, NoLostWakeup, Asleep, Notifying, Woken
<1>2. WakeInv /\ [Next]_vars => WakeInv'
  <2> SUFFICES ASSUME WakeInv, [Next]_vars PROVE WakeInv'
    OBVIOUS
  <2>1. ASSUME NEW p \in Producers, ProducerStep(p) PROVE WakeInv'
    BY <2>1, PushKeeps, PushWaitsKeeps, NotifyKeeps DEF ProducerStep
  <2>2. ASSUME NEW c \in Consumers, ConsumerStep(c) \/ Timeout(c) PROVE WakeInv'
    BY <2>2, PopKeeps, WaitKeeps DEF ConsumerStep
  <2>3. CASE UNCHANGED vars
    BY <2>3 DEF vars, WakeInv, Shape, NoLostWakeup, Asleep, Notifying, Woken
  <2> QED
    BY <2>1, <2>2, <2>3, SpuriousKeeps, GuardsKeep, ShutdownKeeps
       DEF Next, Shutdown, EmergencyShutdown
<1>3. WakeInv => NoLostWakeup
  BY DEF WakeInv
<1> QED
  BY <1>1, <1>2, <1>3, PTL DEF Spec

-----------------------------------------------------------------------------
(* The order in which elements come out of the queue. *)

Pri(e) == Script[e[1]][e[2]]

\* The queue of a priority holds what was pushed with it; the lowest one guards.
InTheirQueue ==
    /\ \A q \in 1..4 : \A i \in 1..Len(queues[q]) :
         LET e == queues[q][i]
         IN  e \in Items /\ e[2] <= pushed[e[1]] /\ Pri(e) = q
    /\ \A i \in 1..Len(queues[0]) : queues[0][i] = Guard
    /\ \A i \in 1..Len(popped) : popped[i][2] <= pushed[popped[i][1]]

\* The elements of a producer stand in line in the order they were pushed, behind
\* those of the same priority that were popped.
InLine ==
    /\ \A q \in 1..4 : \A i, j \in 1..Len(queues[q]) :
         i < j /\ queues[q][i][1] = queues[q][j][1] => queues[q][i][2] < queues[q][j][2]
    /\ \A q \in 1..4 : \A i \in 1..Len(popped) : \A j \in 1..Len(queues[q]) :
         popped[i][1] = queues[q][j][1] /\ Pri(popped[i]) = q
           => popped[i][2] < queues[q][j][2]
    /\ FifoPerPriority

\* What was pushed waits in its queue until it is popped.
NothingLost ==
    \A p \in Producers :
      /\ pushed[p] <= Len(Script[p])
      /\ \A n \in 1..pushed[p] :
           \/ \E i \in 1..Len(popped) : popped[i] = <<p, n>>
           \/ \E i \in 1..Len(queues[Script[p][n]]) : queues[Script[p][n]][i] = <<p, n>>

\* There are no guards, and nobody has taken one, until they are pushed; what was
\* pushed before them is out when one is taken.
GuardsBehind ==
    /\ \A p \in Producers : due[p] <= pushed[p]
    /\ closed = "no" => queues[0] = <<>> /\ \A c \in Consumers : consumer[c] # "end"
    /\ GuardsLast

OrderInv == TypeOK /\ InTheirQueue /\ InLine /\ NothingLost /\ GuardsBehind

\* The head of a sequence is its first element, and the others move up by one.
LEMMA TailOf ==
    ASSUME NEW S, NEW s \in Seq(S), s # <<>>
    PROVE  /\ Head(s) = s[1] /\ Len(s) \in Nat \ {0} /\ s[1] \in S
           /\ Tail(s) \in Seq(S) /\ Len(Tail(s)) = Len(s) - 1
           /\ \A i \in 1..(Len(s) - 1) : Tail(s)[i] = s[i + 1]
  BY HeadTailProperties, ElementOfSeq, LenProperties, EmptySeq

\* The effect of push() on a family of queues: one element, at the end of one.
LEMMA AppendedTo ==
    ASSUME NEW S, NEW I, NEW f \in [I -> Seq(S)], NEW q \in I, NEW e \in S,
           NEW g, g = [f EXCEPT ![q] = Append(f[q], e)]
    PROVE  /\ g \in [I -> Seq(S)]
           /\ \A r \in I : Len(f[r]) \in Nat /\ Len(g[r]) \in Nat
           /\ Len(g[q]) = Len(f[q]) + 1
           /\ g[q][Len(f[q]) + 1] = e
           /\ \A r \in I : r # q => g[r] = f[r]
           /\ \A r \in I : \A i \in 1..Len(f[r]) : i \in 1..Len(g[r]) /\ g[r][i] = f[r][i]
           /\ \A r \in I : \A i \in 1..Len(g[r]) :
                (r = q /\ i = Len(f[q]) + 1) \/ i \in 1..Len(f[r])
<1>1. /\ Append(f[q], e) \in Seq(S) /\ Len(Append(f[q], e)) = Len(f[q]) + 1
      /\ Append(f[q], e)[Len(f[q]) + 1] = e
      /\ \A i \in 1..Len(f[q]) : Append(f[q], e)[i] = f[q][i]
  BY AppendProperties
<1>2. g \in [I -> Seq(S)] /\ g[q] = Append(f[q], e) /\ \A r \in I : r # q => g[r] = f[r]
  BY <1>1
<1>3. \A r \in I : Len(f[r]) \in Nat /\ Len(g[r]) \in Nat
  BY <1>2, LenProperties
<1>4. Len(g[q]) = Len(f[q]) + 1 /\ g[q][Len(f[q]) + 1] = e
  BY <1>1, <1>2
<1>5. \A i \in 1..Len(f[q]) : i \in 1..Len(g[q]) /\ g[q][i] = f[q][i]
  BY <1>1, <1>2, <1>3, <1>4
<1>6. \A i \in 1..Len(g[q]) : i = Len(f[q]) + 1 \/ i \in 1..Len(f[q])
  BY <1>3, <1>4
<1>7. \A r \in I : \A i \in 1..Len(f[r]) : i \in 1..Len(g[r]) /\ g[r][i] = f[r][i]
  BY <1>2, <1>5
<1>8. \A r \in I : \A i \in 1..Len(g[r]) : (r = q /\ i = Len(f[q]) + 1) \/ i \in 1..Len(f[r])
  BY <1>2, <1>6
<1> QED
  BY <1>2, <1>3, <1>4, <1>7, <1>8

\* The effect of pop() on a family of queues: one of them loses its first element.
LEMMA RemovedFrom ==
    ASSUME NEW S, NEW I, NEW f \in [I -> Seq(S)], NEW q \in I, f[q] # <<>>,
           NEW g, g = [f EXCEPT ![q] = Tail(f[q])]
    PROVE  /\ g \in [I -> Seq(S)]
           /\ \A r \in I : Len(f[r]) \in Nat /\ Len(g[r]) \in Nat
           /\ Len(g[q]) = Len(f[q]) - 1 /\ Len(f[q]) > 0
           /\ f[q][1] \in S /\ Head(f[q]) = f[q][1]
           /\ \A r \in I : r # q => g[r] = f[r]
           /\ \A i \in 1..Len(g[q]) : i + 1 \in 1..Len(f[q]) /\ g[q][i] = f[q][i + 1]
           /\ \A i \in 1..Len(f[q]) :
                i # 1 => i - 1 \in 1..Len(g[q]) /\ g[q][i - 1] = f[q][i]
<1>1. /\ Tail(f[q]) \in Seq(S) /\ Len(Tail(f[q])) = Len(f[q]) - 1 /\ Len(f[q]) \in Nat \ {0}
      /\ \A i \in 1..(Len(f[q]) - 1) : Tail(f[q])[i] = f[q][i + 1]
      /\ f[q][1] \in S /\ Head(f[q]) = f[q][1]
  BY TailOf
<1>2. g \in [I -> Seq(S)] /\ g[q] = Tail(f[q]) /\ \A r \in I : r # q => g[r] = f[r]
  BY <1>1
<1>3. \A r \in I : Len(f[r]) \in Nat /\ Len(g[r]) \in Nat
  BY <1>2, LenProperties
<1>4. Len(g[q]) = Len(f[q]) - 1 /\ Len(f[q]) > 0
  BY <1>1, <1>2
<1>5. \A i \in 1..Len(g[q]) : i + 1 \in 1..Len(f[q]) /\ g[q][i] = f[q][i + 1]
  BY <1>1, <1>2, <1>3, <1>4
<1>6. \A i \in 1..Len(f[q]) : i # 1 => i - 1 \in 1..Len(g[q]) /\ g[q][i - 1] = f[q][i]
  <2> TAKE i \in 1..Len(f[q])
  <2> HAVE i # 1
  <2>1. i - 1 \in 1..Len(g[q]) /\ (i - 1) + 1 = i
    BY <1>3, <1>4
  <2> QED
    BY <1>5, <2>1
<1> QED
  BY <1>1, <1>2, <1>3, <1>4, <1>5, <1>6

\* m_size is a number.
LEMMA SizeIsNat ==
    ASSUME TypeOK
    PROVE  size \in Nat
<1>1. \A r \in 0..4 : Len(queues[r]) \in Nat
  BY LenProperties DEF TypeOK
<1>2. 0 \in 0..4 /\ 1 \in 0..4 /\ 2 \in 0..4 /\ 3 \in 0..4 /\ 4 \in 0..4
  OBVIOUS
<1>3. /\ Len(queues[0]) \in Nat /\ Len(queues[1]) \in Nat /\ Len(queues[2]) \in Nat
      /\ Len(queues[3]) \in Nat /\ Len(queues[4]) \in Nat
  BY <1>1, <1>2
<1> QED
  BY <1>3 DEF TypeOK

\* A sum of five numbers follows a change of one of them.
LEMMA OneOfFive ==
    ASSUME NEW f \in [0..4 -> Nat], NEW g \in [0..4 -> Nat], NEW q \in 0..4,
           \A r \in 0..4 : r # q => g[r] = f[r]
    PROVE  (f[0] + f[1] + f[2] + f[3] + f[4]) + (g[q] - f[q])
             = g[0] + g[1] + g[2] + g[3] + g[4]
<1>1. f[0] \in Nat /\ g[0] \in Nat /\ (0 # q => g[0] = f[0])
  OBVIOUS
<1>2. f[1] \in Nat /\ g[1] \in Nat /\ (1 # q => g[1] = f[1])
  OBVIOUS
<1>3. f[2] \in Nat /\ g[2] \in Nat /\ (2 # q => g[2] = f[2])
  OBVIOUS
<1>4. f[3] \in Nat /\ g[3] \in Nat /\ (3 # q => g[3] = f[3])
  OBVIOUS
<1>5. f[4] \in Nat /\ g[4] \in Nat /\ (4 # q => g[4] = f[4])
  OBVIOUS
<1>6. q \in {0, 1, 2, 3, 4}
  OBVIOUS
<1> QED
  BY <1>1, <1>2, <1>3, <1>4, <1>5, <1>6

\* m_size follows a change of the length of one queue.
LEMMA SizeFollows ==
    ASSUME TypeOK, NEW q \in 0..4, size' \in Int,
           \A r \in 0..4 : /\ Len(queues[r]) \in Nat /\ Len(queues'[r]) \in Nat
                           /\ r # q => Len(queues'[r]) = Len(queues[r]),
           size' - size = Len(queues'[q]) - Len(queues[q])
    PROVE  size' = Len(queues'[0]) + Len(queues'[1]) + Len(queues'[2]) + Len(queues'[3])
                   + Len(queues'[4])
<1> DEFINE f == [r \in 0..4 |-> Len(queues[r])]
           g == [r \in 0..4 |-> Len(queues'[r])]
<1>1. f \in [0..4 -> Nat] /\ g \in [0..4 -> Nat] /\ \A r \in 0..4 : r # q => g[r] = f[r]
  OBVIOUS
<1>2. size = f[0] + f[1] + f[2] + f[3] + f[4]
  BY DEF TypeOK
<1>3. size' - size = g[q] - f[q] /\ size \in Nat /\ f[q] \in Nat /\ g[q] \in Nat
  BY <1>1, SizeIsNat
<1>4. g[0] = Len(queues'[0]) /\ g[1] = Len(queues'[1]) /\ g[2] = Len(queues'[2])
      /\ g[3] = Len(queues'[3]) /\ g[4] = Len(queues'[4])
  OBVIOUS
<1> HIDE DEF f, g
<1>5. size + (g[q] - f[q]) = g[0] + g[1] + g[2] + g[3] + g[4]
  BY <1>1, <1>2, OneOfFive
<1>6. size' = size + (g[q] - f[q])
  BY <1>3
<1> QED
  BY <1>4, <1>5, <1>6

\* A step that leaves the elements alone, and ends no consumer.
LEMMA OrderFrame ==
    ASSUME OrderInv, UNCHANGED <<queues, size, pushed, popped, closed, due, maxSize>>,
           producer' \in [Producers -> {"push", "full", "woken", "notify"}],
           consumer' \in [Consumers -> {"pop", "empty", "woken", "end"}],
           \A c \in Consumers : consumer'[c] = "end" => consumer[c] = "end"
    PROVE  OrderInv'
<1>1. TypeOK'
  BY DEF OrderInv, TypeOK
<1>2. InTheirQueue' /\ InLine' /\ NothingLost'
  BY DEF OrderInv, InTheirQueue, InLine, NothingLost, FifoPerPriority, Pri
<1>3. GuardsBehind'
  BY DEF OrderInv, GuardsBehind, GuardsLast
<1> QED
  BY <1>1, <1>2, <1>3 DEF OrderInv

\* push() appends the element to the queue of its priority.
LEMMA PushInOrder ==
    ASSUME OrderInv, NEW p \in Producers, Push(p)
    PROVE  OrderInv'
<1> DEFINE n == pushed[p] + 1
           q == Script[p][n]
           e == <<p, n>>
<1>1. /\ pushed \in [Producers -> Nat] /\ n \in Nat \ {0} /\ n <= Len(Script[p])
      /\ Script[p] \in Seq(1..4) /\ q \in 1..4 /\ e \in Items
  <2>1. pushed \in [Producers -> Nat] /\ Script[p] \in Seq(1..4) /\ pushed[p] < Len(Script[p])
    BY QueueAssumption DEF QueueAssumption, OrderInv, TypeOK, Push
  <2>2. n \in Nat \ {0} /\ n <= Len(Script[p]) /\ n \in 1..Len(Script[p])
    BY <2>1, LenProperties
  <2> QED
    BY <2>1, <2>2, ElementOfSeq DEF Items
<1>2. queues \in [0..4 -> Seq(Items \cup {Guard})]
  BY DEF OrderInv, TypeOK
<1>3. queues' = [queues EXCEPT ![q] = Append(queues[q], e)]
  BY <1>2 DEF Push
<1>4. /\ queues' \in [0..4 -> Seq(Items \cup {Guard})] /\ q \in 0..4
      /\ \A r \in 0..4 : Len(queues[r]) \in Nat /\ Len(queues'[r]) \in Nat
      /\ Len(queues'[q]) = Len(queues[q]) + 1
      /\ queues'[q][Len(queues[q]) + 1] = e
      /\ \A r \in 0..4 : r # q => queues'[r] = queues[r]
      /\ \A r \in 0..4 : \A i \in 1..Len(queues[r]) :
           i \in 1..Len(queues'[r]) /\ queues'[r][i] = queues[r][i]
      /\ \A r \in 0..4 : \A i \in 1..Len(queues'[r]) :
           (r = q /\ i = Len(queues[q]) + 1) \/ i \in 1..Len(queues[r])
  <2> DEFINE S == Items \cup {Guard}
             I == 0..4
             g == queues'
  <2>1. queues \in [I -> Seq(S)] /\ q \in I /\ e \in S
    BY <1>1, <1>2
  <2>2. g = [queues EXCEPT ![q] = Append(queues[q], e)]
    BY <1>3
  <2> HIDE DEF S, I, g, q, e
  <2>3. /\ g \in [I -> Seq(S)]
        /\ \A r \in I : Len(queues[r]) \in Nat /\ Len(g[r]) \in Nat
        /\ Len(g[q]) = Len(queues[q]) + 1
        /\ g[q][Len(queues[q]) + 1] = e
        /\ \A r \in I : r # q => g[r] = queues[r]
        /\ \A r \in I : \A i \in 1..Len(queues[r]) :
             i \in 1..Len(g[r]) /\ g[r][i] = queues[r][i]
        /\ \A r \in I : \A i \in 1..Len(g[r]) :
             (r = q /\ i = Len(queues[q]) + 1) \/ i \in 1..Len(queues[r])
    BY <2>1, <2>2, AppendedTo
  <2> QED
    BY <2>1, <2>3, Zenon DEF S, I, g
<1>5. \A r \in 0..4 :
        /\ \A i \in 1..Len(queues[r]) : i \in 1..Len(queues'[r]) /\ queues'[r][i] = queues[r][i]
        /\ \A i \in 1..Len(queues'[r]) :
             (r = q /\ i = Len(queues[q]) + 1) \/ i \in 1..Len(queues[r])
  BY <1>4, Zenon
<1>6. /\ pushed' = [pushed EXCEPT ![p] = n] /\ size' = size + 1
      /\ producer' = [producer EXCEPT ![p] = "notify"]
      /\ UNCHANGED <<consumer, popped, closed, due, maxSize>>
  BY DEF Push
<1>7. e[1] = p /\ e[2] = n /\ Pri(e) = q
  BY DEF Pri
<1>8. popped \in Seq(Items) /\ Len(popped) \in Nat /\ \A i \in 1..Len(popped) : popped[i] \in Items
  BY LenProperties, ElementOfSeq DEF OrderInv, TypeOK
<1>9. 1..4 \subseteq 0..4
  OBVIOUS
<1> HIDE DEF e, q, n
<1>10. TypeOK'
  <2>1. size' = Len(queues'[0]) + Len(queues'[1]) + Len(queues'[2]) + Len(queues'[3])
                + Len(queues'[4])
    <3>1. size \in Nat /\ TypeOK
      BY SizeIsNat DEF OrderInv
    <3>2. size' \in Int /\ size' - size = Len(queues'[q]) - Len(queues[q])
      BY <1>4, <1>6, <3>1
    <3>3. \A r \in 0..4 : /\ Len(queues[r]) \in Nat /\ Len(queues'[r]) \in Nat
                          /\ r # q => Len(queues'[r]) = Len(queues[r])
      BY <1>4
    <3> QED
      BY <1>4, <3>1, <3>2, <3>3, SizeFollows
  <2> QED
    BY <1>1, <1>4, <1>6, <2>1 DEF OrderInv, TypeOK
<1>11. InTheirQueue'
  <2>1. ASSUME NEW r \in 1..4, NEW i \in 1..Len(queues'[r])
        PROVE  /\ queues'[r][i] \in Items /\ queues'[r][i][2] <= pushed'[queues'[r][i][1]]
               /\ Pri(queues'[r][i]) = r
    <3>1. CASE r = q /\ i = Len(queues[q]) + 1
      <4>1. queues'[r][i] = e
        BY <1>4, <3>1
      <4>2. pushed'[p] = n /\ n <= n
        BY <1>1, <1>6
      <4> QED
        BY <1>1, <1>7, <3>1, <4>1, <4>2
    <3>2. CASE ~(r = q /\ i = Len(queues[q]) + 1)
      <4>1. i \in 1..Len(queues[r]) /\ queues'[r][i] = queues[r][i]
        BY <1>4, <1>5, <1>9, <3>2
      <4>2. /\ queues[r][i] \in Items /\ queues[r][i][2] <= pushed[queues[r][i][1]]
            /\ Pri(queues[r][i]) = r
        BY <4>1 DEF OrderInv, InTheirQueue
      <4>3. queues[r][i][1] \in Producers /\ queues[r][i][2] \in Nat
        BY <4>2 DEF Items
      <4>4. pushed[queues[r][i][1]] <= pushed'[queues[r][i][1]]
            /\ pushed[queues[r][i][1]] \in Nat /\ pushed'[queues[r][i][1]] \in Nat
        BY <1>1, <1>6, <4>3 DEF n
      <4>5. queues[r][i][2] <= pushed'[queues[r][i][1]]
        BY <4>2, <4>3, <4>4
      <4> QED
        BY <4>1, <4>2, <4>5
    <3> QED
      BY <3>1, <3>2
  <2>2. \A i \in 1..Len(queues'[0]) : queues'[0][i] = Guard
    <3>1. queues'[0] = queues[0]
      BY <1>1, <1>4
    <3> QED
      BY <3>1 DEF OrderInv, InTheirQueue
  <2>3. \A i \in 1..Len(popped') : popped'[i][2] <= pushed'[popped'[i][1]]
    <3>1. \A i \in 1..Len(popped) : popped[i][1] \in Producers /\ popped[i][2] \in Nat
      BY <1>8 DEF Items
    <3> QED
      BY <1>1, <1>6, <3>1 DEF OrderInv, InTheirQueue, n
  <2> QED
    BY <2>1, <2>2, <2>3 DEF InTheirQueue, Pri
<1>12. InLine'
  <2>1. ASSUME NEW r \in 1..4, NEW i \in 1..Len(queues'[r]), NEW j \in 1..Len(queues'[r]),
               i < j, queues'[r][i][1] = queues'[r][j][1]
        PROVE  queues'[r][i][2] < queues'[r][j][2]
    <3>1. i \in 1..Len(queues[r]) /\ queues'[r][i] = queues[r][i]
      <4>1. ~(r = q /\ i = Len(queues[q]) + 1)
        BY <1>4, <2>1
      <4> QED
        BY <1>5, <1>9, <4>1
    <3>2. CASE r = q /\ j = Len(queues[q]) + 1
      <4>1. /\ queues[r][i] \in Items /\ queues[r][i][2] <= pushed[queues[r][i][1]]
            /\ queues[r][i][1] = p
        BY <1>4, <1>7, <2>1, <3>1, <3>2 DEF OrderInv, InTheirQueue
      <4> QED
        <5>1. queues'[r][j][2] = n
          BY <1>4, <1>7, <3>2
        <5>2. queues[r][i][2] \in Nat /\ pushed[p] \in Nat /\ queues[r][i][2] <= pushed[p]
          BY <1>1, <4>1 DEF Items
        <5> QED
          BY <3>1, <5>1, <5>2 DEF n
    <3>3. CASE ~(r = q /\ j = Len(queues[q]) + 1)
      <4>1. j \in 1..Len(queues[r]) /\ queues'[r][j] = queues[r][j]
        BY <1>4, <1>5, <1>9, <3>3
      <4> QED
        BY <2>1, <3>1, <4>1 DEF OrderInv, InLine
    <3> QED
      BY <3>2, <3>3
  <2>2. ASSUME NEW r \in 1..4, NEW i \in 1..Len(popped'), NEW j \in 1..Len(queues'[r]),
               popped'[i][1] = queues'[r][j][1], Pri(popped'[i]) = r
        PROVE  popped'[i][2] < queues'[r][j][2]
    <3>1. popped' = popped /\ popped[i] \in Items /\ popped[i][2] <= pushed[popped[i][1]]
      BY <1>6, <1>8 DEF OrderInv, InTheirQueue
    <3>2. CASE r = q /\ j = Len(queues[q]) + 1
      <4>1. queues'[r][j] = e
        BY <1>4, <3>2
      <4>2. popped[i][1] = p
        BY <1>7, <2>2, <3>1, <4>1
      <4>3. popped[i][2] \in Nat /\ pushed[p] \in Nat /\ popped[i][2] <= pushed[p]
        BY <1>1, <3>1, <4>2 DEF Items
      <4> QED
        BY <1>7, <3>1, <4>1, <4>3 DEF n
    <3>3. CASE ~(r = q /\ j = Len(queues[q]) + 1)
      <4>1. j \in 1..Len(queues[r]) /\ queues'[r][j] = queues[r][j]
        BY <1>4, <1>5, <1>9, <3>3
      <4> QED
        BY <2>2, <3>1, <4>1 DEF OrderInv, InLine
    <3> QED
      BY <3>2, <3>3
  <2>3. FifoPerPriority'
    BY <1>6 DEF OrderInv, InLine, FifoPerPriority
  <2> QED
    BY <2>1, <2>2, <2>3 DEF InLine, Pri
<1>13. NothingLost'
  <2> SUFFICES ASSUME NEW r \in Producers
               PROVE  /\ pushed'[r] <= Len(Script[r])
                      /\ \A m \in 1..pushed'[r] :
                           \/ \E i \in 1..Len(popped') : popped'[i] = <<r, m>>
                           \/ \E i \in 1..Len(queues'[Script[r][m]]) :
                                queues'[Script[r][m]][i] = <<r, m>>
    BY DEF NothingLost
  <2>1. pushed'[r] <= Len(Script[r]) /\ pushed[r] \in Nat
    BY <1>1, <1>6 DEF OrderInv, NothingLost
  <2>2. ASSUME NEW m \in 1..pushed'[r]
        PROVE  \/ \E i \in 1..Len(popped') : popped'[i] = <<r, m>>
               \/ \E i \in 1..Len(queues'[Script[r][m]]) : queues'[Script[r][m]][i] = <<r, m>>
    <3>1. CASE r = p /\ m = n
      <4>1. Script[r][m] = q /\ Len(queues[q]) + 1 \in 1..Len(queues'[q]) /\ <<r, m>> = e
        BY <1>4, <1>5, <3>1 DEF q, e
      <4> QED
        BY <1>4, <4>1
    <3>2. CASE ~(r = p /\ m = n)
      <4>1. m \in 1..pushed[r]
        BY <1>1, <1>6, <2>1, <3>2 DEF n
      <4>2. CASE \E i \in 1..Len(popped) : popped[i] = <<r, m>>
        BY <1>6, <4>2
      <4>3. ASSUME NEW i \in 1..Len(queues[Script[r][m]]), queues[Script[r][m]][i] = <<r, m>>
            PROVE  \E k \in 1..Len(queues'[Script[r][m]]) : queues'[Script[r][m]][k] = <<r, m>>
        <5>1. Script[r] \in Seq(1..4) /\ m \in 1..Len(Script[r])
          BY <2>1, <4>1, LenProperties, QueueAssumption DEF QueueAssumption,
             OrderInv, NothingLost
        <5>2. Script[r][m] \in 1..4
          BY <5>1, ElementOfSeq
        <5>3. i \in 1..Len(queues'[Script[r][m]]) /\ queues'[Script[r][m]][i] = <<r, m>>
          BY <1>4, <1>5, <1>9, <4>3, <5>2
        <5> QED
          BY <5>3
      <4> QED
        BY <4>1, <4>2, <4>3 DEF OrderInv, NothingLost
    <3> QED
      BY <3>1, <3>2
  <2> QED
    BY <2>1, <2>2
<1>14. GuardsBehind'
  <2>1. queues'[0] = queues[0]
    <3>1. q # 0 /\ 0 \in 0..4
      BY <1>1
    <3> QED
      BY <1>4, <3>1
  <2>2. \A r \in Producers : due'[r] <= pushed'[r]
    <3> TAKE r \in Producers
    <3>1. /\ due' = due /\ due[r] \in Nat /\ due[r] <= pushed[r] /\ pushed[r] \in Nat
          /\ pushed'[r] \in {pushed[r], pushed[r] + 1}
      BY <1>1, <1>6 DEF OrderInv, TypeOK, GuardsBehind, n
    <3> QED
      BY <3>1
  <2> QED
    BY <1>6, <2>1, <2>2 DEF OrderInv, GuardsBehind, GuardsLast
<1> QED
  BY <1>10, <1>11, <1>12, <1>13, <1>14 DEF OrderInv

\* pop() takes from the queue of the highest priority that is not empty.
LEMMA FirstIsHighest ==
    ASSUME TypeOK, size > 0
    PROVE  /\ FirstQueue \in 0..4 /\ queues[FirstQueue] # <<>>
           /\ \A q \in 0..4 : q > FirstQueue => queues[q] = <<>>
<1> DEFINE Top(p) == queues[p] # <<>> /\ \A q \in 0..4 : q > p => queues[q] = <<>>
<1>1. \E p \in 0..4 : queues[p] # <<>>
  <2> SUFFICES ASSUME \A p \in 0..4 : queues[p] = <<>> PROVE FALSE
    OBVIOUS
  <2>1. Len(queues[0]) = 0 /\ Len(queues[1]) = 0 /\ Len(queues[2]) = 0 /\ Len(queues[3]) = 0
        /\ Len(queues[4]) = 0
    BY EmptySeq
  <2> QED
    BY <2>1 DEF TypeOK
<1>2. \E p \in 0..4 : Top(p)
  <2>1. CASE queues[4] # <<>>
    BY <2>1
  <2>2. CASE queues[4] = <<>> /\ queues[3] # <<>>
    BY <2>2
  <2>3. CASE queues[4] = <<>> /\ queues[3] = <<>> /\ queues[2] # <<>>
    BY <2>3
  <2>4. CASE queues[4] = <<>> /\ queues[3] = <<>> /\ queues[2] = <<>> /\ queues[1] # <<>>
    BY <2>4
  <2>5. CASE /\ queues[4] = <<>> /\ queues[3] = <<>> /\ queues[2] = <<>> /\ queues[1] = <<>>
             /\ queues[0] # <<>>
    BY <2>5
  <2> QED
    BY <1>1, <2>1, <2>2, <2>3, <2>4, <2>5
<1>3. FirstQueue = CHOOSE p \in 0..4 : Top(p)
  BY DEF FirstQueue
<1> QED
  BY <1>2, <1>3

\* pop() takes the first element of a queue, and a guard only from the last one.
LEMMA PopInOrder ==
    ASSUME OrderInv, NEW c \in Consumers, Pop(c)
    PROVE  OrderInv'
<1> DEFINE q == FirstQueue
           e == queues[q][1]
<1>1. /\ q \in 0..4 /\ queues[q] # <<>> /\ \A r \in 0..4 : r > q => queues[r] = <<>>
  BY FirstIsHighest DEF OrderInv, Pop
<1> HIDE DEF q
<1>2. queues \in [0..4 -> Seq(Items \cup {Guard})] /\ popped \in Seq(Items)
      /\ pushed \in [Producers -> Nat]
  BY DEF OrderInv, TypeOK
<1>3. queues' = [queues EXCEPT ![q] = Tail(queues[q])]
  BY <1>1, <1>2 DEF Pop, q
<1>4. /\ queues' \in [0..4 -> Seq(Items \cup {Guard})]
      /\ \A r \in 0..4 : Len(queues[r]) \in Nat /\ Len(queues'[r]) \in Nat
      /\ Len(queues'[q]) = Len(queues[q]) - 1 /\ Len(queues[q]) > 0
      /\ Head(queues[q]) = e
      /\ \A r \in 0..4 : r # q => queues'[r] = queues[r]
      /\ \A i \in 1..Len(queues'[q]) : i + 1 \in 1..Len(queues[q]) /\ queues'[q][i] = queues[q][i + 1]
      /\ \A i \in 1..Len(queues[q]) :
           i # 1 => i - 1 \in 1..Len(queues'[q]) /\ queues'[q][i - 1] = queues[q][i]
  <2> DEFINE S == Items \cup {Guard}
             I == 0..4
             g == queues'
  <2>1. queues \in [I -> Seq(S)] /\ q \in I /\ queues[q] # <<>>
    BY <1>1, <1>2
  <2>2. g = [queues EXCEPT ![q] = Tail(queues[q])]
    BY <1>3
  <2> HIDE DEF S, I, g, e
  <2>3. /\ g \in [I -> Seq(S)]
        /\ \A r \in I : Len(queues[r]) \in Nat /\ Len(g[r]) \in Nat
        /\ Len(g[q]) = Len(queues[q]) - 1 /\ Len(queues[q]) > 0
        /\ Head(queues[q]) = queues[q][1]
        /\ \A r \in I : r # q => g[r] = queues[r]
        /\ \A i \in 1..Len(g[q]) : i + 1 \in 1..Len(queues[q]) /\ g[q][i] = queues[q][i + 1]
        /\ \A i \in 1..Len(queues[q]) :
             i # 1 => i - 1 \in 1..Len(g[q]) /\ g[q][i - 1] = queues[q][i]
    BY <2>1, <2>2, RemovedFrom
  <2> QED
    BY <2>3, Zenon DEF S, I, g, e
<1>5. /\ \A i \in 1..Len(queues'[q]) : i + 1 \in 1..Len(queues[q]) /\ queues'[q][i] = queues[q][i + 1]
      /\ \A i \in 1..Len(queues[q]) :
           i # 1 => i - 1 \in 1..Len(queues'[q]) /\ queues'[q][i - 1] = queues[q][i]
  BY <1>4
<1>6. size' = size - 1 /\ UNCHANGED <<pushed, closed, due, maxSize>>
  BY DEF Pop
<1>7. producer' \in [Producers -> {"push", "full", "woken", "notify"}]
  <2>1. producer \in [Producers -> {"push", "full", "woken", "notify"}]
    BY DEF OrderInv, TypeOK
  <2>2. producer' = producer
        \/ \E d \in Asleep(producer) : producer' = [producer EXCEPT ![d] = "woken"]
    BY DEF Pop, NotifyOne
  <2> QED
    BY <2>1, <2>2
<1>8. /\ consumer \in [Consumers -> {"pop", "empty", "woken", "end"}]
      /\ IF e = Guard
           THEN consumer' = [consumer EXCEPT ![c] = "end"] /\ popped' = popped
           ELSE consumer' = [consumer EXCEPT ![c] = "pop"] /\ popped' = Append(popped, e)
  BY <1>4 DEF OrderInv, TypeOK, Pop, q
<1>9. 1..4 \subseteq 0..4 /\ 1 \in 1..Len(queues[q])
  BY <1>1, <1>4
<1>10. size' = Len(queues'[0]) + Len(queues'[1]) + Len(queues'[2]) + Len(queues'[3])
               + Len(queues'[4])
  <2>0. size \in Nat /\ TypeOK
    BY SizeIsNat DEF OrderInv
  <2>1. size' \in Int /\ size' - size = Len(queues'[q]) - Len(queues[q])
    BY <1>1, <1>4, <1>6, <2>0
  <2>2. \A r \in 0..4 : /\ Len(queues[r]) \in Nat /\ Len(queues'[r]) \in Nat
                        /\ r # q => Len(queues'[r]) = Len(queues[r])
    BY <1>4
  <2> QED
    BY <1>1, <2>0, <2>1, <2>2, SizeFollows
<1>11. \A r \in 1..4 : \A i \in 1..Len(queues'[r]) :
         \E k \in 1..Len(queues[r]) : queues'[r][i] = queues[r][k]
  <2> TAKE r \in 1..4
  <2> TAKE i \in 1..Len(queues'[r])
  <2>1. CASE r = q
    BY <1>5, <2>1
  <2>2. CASE r # q
    <3>1. queues'[r] = queues[r]
      BY <1>4, <1>9, <2>2
    <3> QED
      BY <3>1
  <2> QED
    BY <2>1, <2>2
<1>12. CASE q = 0
  <2>1. e = Guard
    BY <1>9, <1>12 DEF OrderInv, InTheirQueue
  <2>2. \A r \in 1..4 : queues'[r] = queues[r] /\ queues[r] = <<>>
    BY <1>1, <1>4, <1>12
  <2>3. UNCHANGED <<popped, pushed, closed>>
    BY <1>6, <1>8, <2>1
  <2>4. TypeOK'
    BY <1>4, <1>6, <1>7, <1>8, <1>10, <2>1 DEF OrderInv, TypeOK
  <2>5. InTheirQueue'
    <3>1. \A i \in 1..Len(queues'[0]) : queues'[0][i] = Guard
      BY <1>5, <1>12 DEF OrderInv, InTheirQueue
    <3> QED
      BY <2>2, <2>3, <3>1 DEF OrderInv, InTheirQueue, Pri
  <2>6. InLine'
    BY SMTT(30), <2>2, <2>3 DEF OrderInv, InLine, FifoPerPriority, Pri
  <2>7. NothingLost'
    <3>1. \A p \in Producers : \A n \in 1..pushed[p] : Script[p][n] \in 1..4
      <4> TAKE p \in Producers
      <4> TAKE n \in 1..pushed[p]
      <4>1. Script[p] \in Seq(1..4) /\ pushed[p] <= Len(Script[p]) /\ pushed[p] \in Nat
        BY <1>2, QueueAssumption DEF QueueAssumption, OrderInv, NothingLost
      <4>2. n \in 1..Len(Script[p])
        BY <4>1, LenProperties
      <4> QED
        BY <4>1, <4>2, ElementOfSeq
    <3> QED
      BY <2>2, <2>3, <3>1 DEF OrderInv, NothingLost
  <2>8. GuardsBehind'
    <3>1. closed # "no"
      BY <1>1, <1>12 DEF OrderInv, GuardsBehind
    <3>2. ASSUME NEW p \in Producers, NEW n \in 1..due[p]
          PROVE  \E i \in 1..Len(popped) : popped[i] = <<p, n>>
      <4>1. n \in 1..pushed[p]
        <5>1. due[p] \in Nat /\ pushed[p] \in Nat /\ due[p] <= pushed[p]
          BY <1>2 DEF OrderInv, TypeOK, GuardsBehind
        <5> QED
          BY <5>1
      <4>2. Script[p] \in Seq(1..4) /\ pushed[p] <= Len(Script[p]) /\ pushed[p] \in Nat
        BY <1>2, QueueAssumption DEF QueueAssumption, OrderInv, NothingLost
      <4>3. n \in 1..Len(Script[p])
        BY <4>1, <4>2, LenProperties
      <4>4. Script[p][n] \in 1..4
        BY <4>2, <4>3, ElementOfSeq
      <4>5. queues[Script[p][n]] = <<>>
        BY <1>1, <1>12, <4>4
      <4>6. 1..Len(queues[Script[p][n]]) = {}
        BY <4>5, EmptySeq
      <4> QED
        BY <4>1, <4>6 DEF OrderInv, NothingLost
    <3>3. popped' = popped /\ due' = due
      BY <1>6, <2>3
    <3>4. GuardsLast'
      BY <3>2, <3>3 DEF GuardsLast
    <3> QED
      BY <1>6, <3>1, <3>4 DEF OrderInv, GuardsBehind
  <2> QED
    BY <2>4, <2>5, <2>6, <2>7, <2>8 DEF OrderInv
<1>13. CASE q \in 1..4
  <2>1. e \in Items /\ e[2] <= pushed[e[1]] /\ Pri(e) = q
    BY <1>9, <1>13 DEF OrderInv, InTheirQueue
  <2>2. e # Guard /\ e[1] \in Producers /\ e[2] \in Nat \ {0} /\ e = <<e[1], e[2]>>
    BY <2>1 DEF Items, Guard
  <2>3. consumer' = [consumer EXCEPT ![c] = "pop"] /\ popped' = Append(popped, e)
    BY <1>8, <2>2
  <2> HIDE DEF e
  <2>4. /\ popped' \in Seq(Items) /\ Len(popped') = Len(popped) + 1 /\ Len(popped) \in Nat
        /\ popped'[Len(popped) + 1] = e
        /\ \A i \in 1..Len(popped) : popped'[i] = popped[i]
        /\ \A i \in 1..Len(popped) : popped[i] \in Items
    BY <1>2, <2>1, <2>3, AppendProperties, LenProperties, ElementOfSeq
  <2>5. TypeOK'
    BY <1>4, <1>6, <1>7, <1>8, <1>10, <2>3, <2>4 DEF OrderInv, TypeOK
  <2>6. queues'[0] = queues[0]
    BY <1>4, <1>13
  <2>7. InTheirQueue'
    <3>1. \A r \in 1..4 : \A i \in 1..Len(queues'[r]) :
            /\ queues'[r][i] \in Items /\ queues'[r][i][2] <= pushed[queues'[r][i][1]]
            /\ Pri(queues'[r][i]) = r
      <4> TAKE r \in 1..4
      <4> TAKE i \in 1..Len(queues'[r])
      <4>1. PICK k \in 1..Len(queues[r]) : queues'[r][i] = queues[r][k]
        BY <1>11
      <4> QED
        BY <4>1 DEF OrderInv, InTheirQueue
    <3>2. \A i \in 1..Len(popped') : popped'[i][2] <= pushed[popped'[i][1]]
      <4> TAKE i \in 1..Len(popped')
      <4>1. CASE i = Len(popped) + 1
        BY <2>1, <2>4, <4>1
      <4>2. CASE i \in 1..Len(popped)
        BY <2>4, <4>2 DEF OrderInv, InTheirQueue
      <4> QED
        BY <2>4, <4>1, <4>2
    <3> QED
      BY <1>6, <2>6, <3>1, <3>2 DEF OrderInv, InTheirQueue, Pri
  <2>8. InLine'
    <3>1. ASSUME NEW r \in 1..4, NEW i \in 1..Len(queues'[r]), NEW j \in 1..Len(queues'[r]),
                 i < j, queues'[r][i][1] = queues'[r][j][1]
          PROVE  queues'[r][i][2] < queues'[r][j][2]
      <4>1. CASE r = q
        <5>1. /\ i + 1 \in 1..Len(queues[q]) /\ queues'[q][i] = queues[q][i + 1]
              /\ j + 1 \in 1..Len(queues[q]) /\ queues'[q][j] = queues[q][j + 1] /\ i + 1 < j + 1
          <6>1. i \in 1..Len(queues'[q]) /\ j \in 1..Len(queues'[q]) /\ i + 1 < j + 1
            BY <3>1, <4>1
          <6> QED
            BY <1>5, <6>1
        <5> QED
          BY <1>13, <3>1, <4>1, <5>1 DEF OrderInv, InLine
      <4>2. CASE r # q
        BY <1>4, <1>9, <3>1, <4>2 DEF OrderInv, InLine
      <4> QED
        BY <4>1, <4>2
    <3>2. ASSUME NEW j \in 1..Len(queues'[q]), e[1] = queues'[q][j][1]
          PROVE  e[2] < queues'[q][j][2]
      <4>1. j + 1 \in 1..Len(queues[q]) /\ queues'[q][j] = queues[q][j + 1]
        BY <1>5
      <4>2. 1 < j + 1 /\ 1 \in 1..Len(queues[q])
        BY <1>4
      <4>3. queues[q][1][1] = queues[q][j + 1][1] /\ q \in 1..4
        BY <1>13, <3>2, <4>1 DEF e
      <4>4. queues[q][1][2] < queues[q][j + 1][2]
        BY <4>1, <4>2, <4>3 DEF OrderInv, InLine
      <4> QED
        BY <4>1, <4>4 DEF e
    <3>3. ASSUME NEW r \in 1..4, NEW i \in 1..Len(popped'), NEW j \in 1..Len(queues'[r]),
                 popped'[i][1] = queues'[r][j][1], Pri(popped'[i]) = r
          PROVE  popped'[i][2] < queues'[r][j][2]
      <4>1. CASE i = Len(popped) + 1
        BY <2>1, <2>4, <3>2, <3>3, <4>1
      <4>2. CASE i \in 1..Len(popped)
        <5>1. PICK k \in 1..Len(queues[r]) : queues'[r][j] = queues[r][k]
          BY <1>11
        <5>2. popped'[i] = popped[i]
          BY <2>4, <4>2
        <5>3. popped[i][1] = queues[r][k][1] /\ Pri(popped[i]) = r
          BY <3>3, <5>1, <5>2
        <5>4. popped[i][2] < queues[r][k][2]
          BY <4>2, <5>3 DEF OrderInv, InLine
        <5> QED
          BY <5>1, <5>2, <5>4
      <4> QED
        BY <2>4, <4>1, <4>2
    <3>4. FifoPerPriority'
      <4> SUFFICES ASSUME NEW i \in 1..Len(popped'), NEW j \in 1..Len(popped'),
                          i < j, popped'[i][1] = popped'[j][1],
                          Pri(popped'[i]) = Pri(popped'[j])
                   PROVE  popped'[i][2] < popped'[j][2]
        BY DEF FifoPerPriority, Pri
      <4>1. i \in 1..Len(popped) /\ popped'[i] = popped[i]
        BY <2>4
      <4>2. CASE j = Len(popped) + 1
        <5>1. popped'[j] = e /\ popped[i][1] = e[1] /\ Pri(popped[i]) = q
          BY <2>1, <2>4, <4>1, <4>2
        <5> QED
          BY <1>9, <1>13, <4>1, <5>1 DEF OrderInv, InLine, e
      <4>3. CASE j \in 1..Len(popped)
        BY <2>4, <4>1, <4>3 DEF OrderInv, InLine, FifoPerPriority, Pri
      <4> QED
        BY <2>4, <4>2, <4>3
    <3> QED
      BY <3>1, <3>3, <3>4 DEF InLine, Pri
  <2>9. NothingLost'
    <3> SUFFICES ASSUME NEW p \in Producers
                 PROVE  /\ pushed[p] <= Len(Script[p])
                        /\ \A n \in 1..pushed[p] :
                             \/ \E i \in 1..Len(popped') : popped'[i] = <<p, n>>
                             \/ \E i \in 1..Len(queues'[Script[p][n]]) :
                                  queues'[Script[p][n]][i] = <<p, n>>
      BY <1>6 DEF NothingLost
    <3>1. pushed[p] <= Len(Script[p]) /\ pushed[p] \in Nat /\ Script[p] \in Seq(1..4)
      BY <1>2, QueueAssumption DEF QueueAssumption, OrderInv, NothingLost
    <3>2. ASSUME NEW n \in 1..pushed[p]
          PROVE  \/ \E i \in 1..Len(popped') : popped'[i] = <<p, n>>
                 \/ \E i \in 1..Len(queues'[Script[p][n]]) : queues'[Script[p][n]][i] = <<p, n>>
      <4>0. n \in 1..Len(Script[p])
        BY <3>1, LenProperties
      <4>1. Script[p][n] \in 1..4
        BY <3>1, <4>0, ElementOfSeq
      <4>2. CASE \E i \in 1..Len(popped) : popped[i] = <<p, n>>
        <5>1. PICK i \in 1..Len(popped) : popped[i] = <<p, n>>
          BY <4>2
        <5>2. i \in 1..Len(popped') /\ popped'[i] = <<p, n>>
          BY <2>4, <5>1
        <5> QED
          BY <5>2
      <4>3. ASSUME NEW i \in 1..Len(queues[Script[p][n]]), queues[Script[p][n]][i] = <<p, n>>
            PROVE  \/ \E k \in 1..Len(popped') : popped'[k] = <<p, n>>
                   \/ \E k \in 1..Len(queues'[Script[p][n]]) : queues'[Script[p][n]][k] = <<p, n>>
        <5>1. CASE Script[p][n] # q
          BY <1>4, <1>9, <4>1, <4>3, <5>1
        <5>2. CASE Script[p][n] = q /\ i = 1
          <6>1. Len(popped) + 1 \in 1..Len(popped') /\ popped'[Len(popped) + 1] = <<p, n>>
            BY <2>4, <4>3, <5>2 DEF e
          <6> QED
            BY <6>1
        <5>3. CASE Script[p][n] = q /\ i # 1
          <6>1. i \in 1..Len(queues[q]) /\ queues[q][i] = <<p, n>>
            BY <4>3, <5>3
          <6>2. i - 1 \in 1..Len(queues'[q]) /\ queues'[q][i - 1] = <<p, n>>
            BY <1>5, <5>3, <6>1
          <6> QED
            BY <5>3, <6>2
        <5> QED
          BY <5>1, <5>2, <5>3
      <4> QED
        BY <4>2, <4>3 DEF OrderInv, NothingLost
    <3> QED
      BY <3>1, <3>2
  <2>10. GuardsBehind'
    <3>1. \A d \in Consumers : consumer'[d] = "end" => consumer[d] = "end"
      BY <1>8, <2>3
    <3>2. GuardsLast'
      <4> SUFFICES ASSUME NEW d \in Consumers, consumer'[d] = "end",
                          NEW p \in Producers, NEW n \in 1..due[p]
                   PROVE  \E i \in 1..Len(popped') : popped'[i] = <<p, n>>
        BY <1>6 DEF GuardsLast
      <4>1. consumer[d] = "end"
        BY <3>1
      <4>2. PICK i \in 1..Len(popped) : popped[i] = <<p, n>>
        BY <4>1 DEF OrderInv, GuardsBehind, GuardsLast
      <4>3. i \in 1..Len(popped') /\ popped'[i] = <<p, n>>
        BY <2>4, <4>2
      <4> QED
        BY <4>3
    <3> QED
      BY <1>6, <2>6, <3>1, <3>2 DEF OrderInv, GuardsBehind
  <2> QED
    BY <2>5, <2>7, <2>8, <2>9, <2>10 DEF OrderInv
<1> QED
  BY <1>1, <1>12, <1>13

\* shutdown() puts the guards behind everything that was pushed.
LEMMA ShutdownInOrder ==
    ASSUME OrderInv, PushGuards
    PROVE  OrderInv'
<1> DEFINE n == Cardinality(Consumers)
           g == [i \in 1..n |-> Guard]
<1>1. n \in Nat
  BY QueueAssumption, FS_CardinalityType DEF QueueAssumption
<1>2. g \in Seq(Items \cup {Guard}) /\ Len(g) = n /\ \A i \in 1..n : g[i] = Guard
  BY <1>1
<1>3. /\ queues' = [queues EXCEPT ![0] = g] /\ size' = size + n
      /\ closed = "no" /\ closed' = "guards" /\ due' = pushed
      /\ UNCHANGED <<producer, consumer, pushed, popped, maxSize>>
  BY DEF PushGuards
<1> HIDE DEF n, g
<1>4. queues \in [0..4 -> Seq(Items \cup {Guard})] /\ queues[0] = <<>>
  BY <1>3 DEF OrderInv, TypeOK, GuardsBehind
<1>5. /\ queues' \in [0..4 -> Seq(Items \cup {Guard})] /\ queues'[0] = g
      /\ \A r \in 0..4 : r # 0 => queues'[r] = queues[r]
  BY SMTT(30), <1>2, <1>3, <1>4
<1>6. size' = Len(queues'[0]) + Len(queues'[1]) + Len(queues'[2]) + Len(queues'[3])
              + Len(queues'[4])
  <2>1. \A r \in 0..4 : Len(queues[r]) \in Nat /\ Len(queues'[r]) \in Nat
    BY <1>4, <1>5, LenProperties
  <2>2. Len(queues'[0]) = n /\ Len(queues[0]) = 0
    BY <1>1, <1>2, <1>4, <1>5, EmptySeq
  <2>3. 0 \in 0..4 /\ size \in Nat /\ TypeOK
    BY SizeIsNat DEF OrderInv
  <2>4. size' \in Int /\ size' - size = Len(queues'[0]) - Len(queues[0])
    BY <1>1, <1>3, <2>2, <2>3
  <2>5. \A r \in 0..4 : /\ Len(queues[r]) \in Nat /\ Len(queues'[r]) \in Nat
                        /\ r # 0 => Len(queues'[r]) = Len(queues[r])
    BY <1>5, <2>1
  <2> QED
    BY <2>3, <2>4, <2>5, SizeFollows
<1>7. \A c \in Consumers : consumer'[c] # "end"
  BY <1>3 DEF OrderInv, GuardsBehind
<1>8. TypeOK'
  BY <1>3, <1>5, <1>6, <1>7 DEF OrderInv, TypeOK
<1>9. \A r \in 1..4 : queues'[r] = queues[r]
  BY <1>5
<1>10. InTheirQueue'
  BY <1>2, <1>3, <1>5, <1>9 DEF OrderInv, InTheirQueue, Pri
<1>11. InLine'
  BY <1>3, <1>9 DEF OrderInv, InLine, FifoPerPriority, Pri
<1>12. NothingLost'
  <2>1. \A p \in Producers : \A m \in 1..pushed[p] : Script[p][m] \in 1..4
    <3> TAKE p \in Producers
    <3> TAKE m \in 1..pushed[p]
    <3>1. Script[p] \in Seq(1..4) /\ pushed[p] <= Len(Script[p]) /\ pushed[p] \in Nat
      BY QueueAssumption DEF QueueAssumption, OrderInv, TypeOK, NothingLost
    <3>2. m \in 1..Len(Script[p])
      BY <3>1, LenProperties
    <3> QED
      BY <3>1, <3>2, ElementOfSeq
  <2> QED
    <3> SUFFICES ASSUME NEW p \in Producers, NEW m \in 1..pushed[p]
                 PROVE  \/ \E i \in 1..Len(popped) : popped[i] = <<p, m>>
                        \/ \E i \in 1..Len(queues'[Script[p][m]]) :
                             queues'[Script[p][m]][i] = <<p, m>>
      BY <1>3 DEF OrderInv, NothingLost
    <3>1. queues'[Script[p][m]] = queues[Script[p][m]]
      BY <1>9, <2>1
    <3> QED
      BY <3>1 DEF OrderInv, NothingLost
<1>13. GuardsBehind'
  <2>1. \A p \in Producers : due'[p] <= pushed'[p]
    BY <1>3 DEF OrderInv, TypeOK
  <2> QED
    BY <1>3, <1>7, <2>1 DEF GuardsBehind, GuardsLast
<1> QED
  BY <1>8, <1>10, <1>11, <1>12, <1>13 DEF OrderInv

\* notify_all() leaves the queues alone.
LEMMA ShutdownNotifyInOrder ==
    ASSUME OrderInv, ShutdownNotify
    PROVE  OrderInv'
<1>1. /\ UNCHANGED <<queues, size, producer, pushed, popped, due, maxSize>> /\ closed' = "yes"
      /\ consumer' = [c \in Consumers |-> IF consumer[c] = "empty" THEN "woken" ELSE consumer[c]]
  BY DEF ShutdownNotify, NotifyAll, OrderInv, TypeOK
<1>2. TypeOK'
  BY <1>1 DEF OrderInv, TypeOK
<1>3. InTheirQueue' /\ InLine' /\ NothingLost'
  BY <1>1 DEF OrderInv, InTheirQueue, InLine, NothingLost, FifoPerPriority, Pri
<1>4. \A c \in Consumers : consumer'[c] = "end" => consumer[c] = "end"
  BY <1>1
<1>5. GuardsBehind'
  BY <1>1, <1>4 DEF OrderInv, GuardsBehind, GuardsLast
<1> QED
  BY <1>2, <1>3, <1>5 DEF OrderInv

\* The other steps only move threads in and out of the wait sets.
LEMMA WaitInOrder ==
    ASSUME OrderInv,
           \/ \E p \in Producers : PushWaits(p) \/ Notify(p)
           \/ \E c \in Consumers : PopWaits(c) \/ Timeout(c)
           \/ SpuriousWakeup
           \/ UNCHANGED vars
    PROVE  OrderInv'
<1>1. /\ producer \in [Producers -> {"push", "full", "woken", "notify"}]
      /\ consumer \in [Consumers -> {"pop", "empty", "woken", "end"}]
  BY DEF OrderInv, TypeOK
<1>2. UNCHANGED <<queues, size, pushed, popped, closed, due, maxSize>>
  BY DEF PushWaits, Notify, PopWaits, Timeout, SpuriousWakeup, vars
<1>3. producer' \in [Producers -> {"push", "full", "woken", "notify"}]
  BY <1>1 DEF PushWaits, Notify, PopWaits, Timeout, SpuriousWakeup, vars
<1>4. /\ consumer' \in [Consumers -> {"pop", "empty", "woken", "end"}]
      /\ \A c \in Consumers : consumer'[c] = "end" => consumer[c] = "end"
  BY <1>1 DEF PushWaits, Notify, NotifyOne, PopWaits, Timeout, SpuriousWakeup,
     Asleep, vars
<1> QED
  BY <1>2, <1>3, <1>4, OrderFrame

\* Nothing has been pushed when the queue is created.
LEMMA OrderInit == Init => OrderInv
<1> SUFFICES ASSUME Init PROVE OrderInv
  OBVIOUS
<1>1. queues \in [0..4 -> Seq(Items \cup {Guard})] /\ popped \in Seq(Items)
  BY EmptySeq DEF Init
<1>2. Len(<<>>) = 0 /\ \A r \in 0..4 : queues[r] = <<>>
  BY EmptySeq DEF Init
<1>3. TypeOK
  <2>1. /\ Len(queues[0]) = 0 /\ Len(queues[1]) = 0 /\ Len(queues[2]) = 0
        /\ Len(queues[3]) = 0 /\ Len(queues[4]) = 0
    BY <1>2
  <2>2. size = Len(queues[0]) + Len(queues[1]) + Len(queues[2]) + Len(queues[3]) + Len(queues[4])
    BY <2>1 DEF Init
  <2> QED
    BY <1>1, <2>2 DEF Init, TypeOK
<1>4. InTheirQueue /\ InLine
  BY <1>2 DEF Init, InTheirQueue, InLine, FifoPerPriority
<1>5. NothingLost
  BY QueueAssumption, LenProperties DEF QueueAssumption, Init, NothingLost
<1>6. GuardsBehind
  BY DEF Init, GuardsBehind, GuardsLast
<1> QED
  BY <1>3, <1>4, <1>5, <1>6 DEF OrderInv

\* Elements of one producer and priority come out in the order they went in, none
\* twice, and a consumer that has got its guard leaves nothing behind of what was
\* pushed before shutdown(), for any number of producers and consumers, any script
\* and any limit.
THEOREM OrderCorrect == Spec => []PopOrder
<1>1. Init => OrderInv
  BY OrderInit
<1>2. OrderInv /\ [Next]_vars => OrderInv'
  BY PushInOrder, PopInOrder, ShutdownInOrder, ShutdownNotifyInOrder, WaitInOrder
     DEF Next, ProducerStep, ConsumerStep, Shutdown, EmergencyShutdown
<1>3. OrderInv => PopOrder
  BY DEF OrderInv, InLine, GuardsBehind, PopOrder
<1> QED
  BY <1>1, <1>2, <1>3, PTL DEF Spec

-----------------------------------------------------------------------------
(***************************************************************************)
(* The pipe of the copy utilities.  PipeInv follows the one request that   *)
(* goes back and forth: who holds it, what it has been given, and how many *)
(* bytes of the file have reached the target by then.                      *)
(***************************************************************************)

\* The reader waits for an answer; what it was given and has not sent yet.
Waiting == rpc \in {"check", "pop"}
Held == IF Waiting THEN request.bytes ELSE data
Received == Len(loaded) + Len(sent)

\* s holds the bytes of the file that follow the offset a.
Run(s, a) == \A k \in 1..Len(s) : s[k] = a + k

\* The types, and what ties the row of the writer to where it is.  The writer
\* has copied no more than the rows before its own.
WriterShape ==
  /\ file \in Files
  /\ wpc \in {"row", "check", "pop", "serve", "close", "closed", "gone"}
  /\ row \in 1..Len(file) + 1
  /\ pending \in 0..FileSize
  /\ wpc \in {"check", "pop", "serve"} => row <= Len(file) /\ pending = file[row]
  /\ wpc \in {"close", "closed"} => row = Len(file) + 1
QueueShape ==
  /\ requests \in Nat
  /\ responses \in Seq(-1..FileSize)
  /\ request \in [length : Nat, bytes : Seq(Bytes)]
  /\ request.length <= FileSize \/ \E n \in BufLens : request.length <= n
  /\ Len(request.bytes) <= RowEnd[row - 1]
ReaderShape ==
  /\ rpc \in {"call", "check", "pop", "commit", "done", "failed"}
  /\ target \in {"buffer", "data"}
  /\ buflen \in {0} \union BufLens
  /\ data \in Seq(Bytes) /\ sent \in Seq(Bytes) /\ loaded \in Seq(Bytes)
  /\ trx \in Nat /\ eof \in BOOLEAN
FlagShape ==
  /\ fs \in BOOLEAN /\ dumper \in BOOLEAN /\ loader \in BOOLEAN
  /\ cancelled \in BOOLEAN /\ broken \in {"none", "dumper", "loader"}
PipeShape == WriterShape /\ QueueShape /\ ReaderShape /\ FlagShape

\* One thing goes wrong at most, and the flags are set in the order of the
\* code: a flag tells who has left.
Quiet ==
  broken = "none" /\ signals = <<>> /\ ~fs /\ ~dumper /\ ~loader /\ ~cancelled
Cancelling ==
  /\ cancelled
  /\ fs \/ (signals = <<"fs", "dumper", "loader">> /\ ~dumper /\ ~loader)
DumperFailed ==
  /\ ~cancelled /\ broken = "dumper"
  /\ \/ signals = <<>> /\ ~fs /\ ~loader
     \/ WriterDone /\ signals = <<"loader", "fs">> /\ ~fs /\ ~loader
     \/ WriterDone /\ signals = <<"fs">> /\ ~fs /\ loader
     \/ WriterDone /\ signals = <<>> /\ fs /\ loader
LoaderFailed ==
  /\ ~cancelled /\ broken = "loader" /\ rpc = "failed" /\ ~loader
  /\ \/ signals = <<>>
     \/ signals = <<"dumper", "fs">> /\ ~fs
     \/ signals = <<"fs">> /\ ~fs
FlagsOrdered == Quiet \/ Cancelling \/ DumperFailed \/ LoaderFailed

\* Nobody has left the pipe because of ^C.
Live == ~cancelled \/ ~fs

\* What the target has.
Stream ==
  /\ Run(loaded, 0) /\ Run(sent, Len(loaded))
  /\ trx = Len(sent)
  /\ \E n \in 0..Len(file) : Len(loaded) = RowEnd[n]
  /\ \/ Len(sent) <= MaxTrx
     \/ \E n \in 1..Len(file) : Len(loaded) = RowEnd[n - 1] /\ Received <= RowEnd[n]

\* What was handed over continues it, up to the row of the writer.
Ahead == Run(Held, Received) /\ Received + Len(Held) = RowEnd[row - 1]

\* Where the request is while the reader waits.
Open == wpc \in {"row", "check", "pop", "close", "gone"}
Asked ==
  /\ responses = <<>> /\ request.length > 0
  /\ (requests = 1 /\ Open) \/ (requests = 0 /\ wpc = "serve")
Answered ==
  /\ requests = 0 /\ request.bytes # <<>>
  /\ \/ responses = <<Len(request.bytes)>> /\ Open
     \/ responses = <<Len(request.bytes), 0>> /\ wpc = "closed"
Refused ==
  /\ requests = 0 /\ responses = <<-1>> /\ request.bytes = <<>>
  /\ wpc \in {"check", "pop"}
Ended ==
  /\ requests <= 1 /\ responses = <<0>> /\ request.bytes = <<>>
  /\ wpc = "closed"

\* A read into the buffer of the client library stays within the transaction.
ForBuffer ==
  /\ data = <<>> /\ Len(sent) + Len(request.bytes) + request.length <= MaxTrx
  /\ Asked \/ Answered \/ Refused \/ Ended

\* The read of one row, which is alone in its transaction.
ForRow ==
  /\ sent = <<>>
  /\ \/ /\ Asked /\ wpc \in {"check", "pop", "serve"}
        /\ request.bytes = <<>> /\ request.length = file[row]
     \/ /\ Answered /\ row >= 2 /\ Len(loaded) = RowEnd[row - 2]

WaitingOK ==
  /\ buflen # 0 /\ ~eof
  /\ target = "buffer" => ForBuffer
  /\ target = "data" => ForRow

\* Between two reads: nothing is asked, and the end was seen or is to come.
IdleOK ==
  /\ \/ requests = 0 /\ responses = <<>> /\ Open /\ ~eof
     \/ requests = 0 /\ responses = <<0>> /\ wpc = "closed" /\ ~eof
     \/ /\ requests <= 1 /\ responses = <<>> /\ wpc = "closed" /\ eof
        /\ rpc \in {"commit", "done"}
  /\ rpc \in {"commit", "done"} => data = <<>>
  /\ rpc = "done" => eof /\ sent = <<>>
  /\ data # <<>> => row >= 2 /\ Len(loaded) = RowEnd[row - 2]

\* A reader that has failed leaves nobody with its request.
FailedOK ==
  \/ wpc \in {"gone", "closed"} /\ requests <= 1 /\ Len(responses) <= 2
  \/ wpc \in {"row", "check", "pop", "close"} /\ requests = 0 /\ responses = <<>>

HandOver ==
  /\ Waiting => Ahead /\ WaitingOK
  /\ rpc \in {"call", "commit", "done"} => Ahead /\ IdleOK
  /\ rpc = "failed" => FailedOK

PipeInv == PipeShape /\ FlagsOrdered /\ (Live => Stream /\ HandOver)

-----------------------------------------------------------------------------
(* The ends of the rows *)

\* e gives the offsets at which the first m rows of f end.
IsEnds(e, f, m) ==
  /\ e \in [0..m -> Nat]
  /\ e[0] = 0
  /\ \A n \in 1..m : e[n] = e[n - 1] + f[n]

\* Every set of natural numbers has a least element.
LEMMA LeastNumber ==
  ASSUME NEW S \in SUBSET Nat, S # {}
  PROVE  \E n \in S : \A m \in S : n <= m
  <1>1. PICK x : x \in S
    OBVIOUS
  <1>2. IsWellFoundedOn(OpToRel(<, Nat), Nat)
    BY NatLessThanWellFounded
  <1>3. PICK n \in S : \A y \in S : <<y, n>> \notin OpToRel(<, Nat)
    BY <1>1, <1>2, WFMin
  <1>4. \A m \in S : ~(m < n)
    BY <1>3 DEF OpToRel
  <1>5. \A m \in S : n <= m
    BY <1>4
  <1> QED BY <1>5

\* The offsets exist.
LEMMA EndsExist ==
  ASSUME NEW f \in Seq(Nat)
  PROVE  \E e : IsEnds(e, f, Len(f))
  <1> DEFINE Bad == {m \in 0..Len(f) : ~ \E e : IsEnds(e, f, m)}
  <1>0. Len(f) \in 0..Len(f)
    OBVIOUS
  <1>1. SUFFICES ASSUME Bad # {} PROVE FALSE
    BY <1>0
  <1>2. Bad \in SUBSET Nat
    OBVIOUS
  <1> HIDE DEF Bad
  <1>3. PICK m \in Bad : \A k \in Bad : m <= k
    BY <1>1, <1>2, LeastNumber
  <1>4. m \in 0..Len(f) /\ ~ \E e : IsEnds(e, f, m)
    BY <1>3 DEF Bad
  <1>5. m # 0
    <2>1. IsEnds([k \in 0..0 |-> 0], f, 0)
      BY DEF IsEnds
    <2> QED BY <1>4, <2>1
  <1>6. m - 1 \in 0..Len(f) /\ ~(m <= m - 1)
    BY <1>4, <1>5
  <1>7. PICK e : IsEnds(e, f, m - 1)
    BY <1>3, <1>6 DEF Bad
  <1>8. f[m] \in Nat
    BY <1>4, <1>5
  <1> DEFINE g == [k \in 0..m |-> IF k = m THEN e[m - 1] + f[m] ELSE e[k]]
  <1>9. IsEnds(g, f, m)
    <2>1. e \in [0..(m - 1) -> Nat] /\ e[0] = 0
          /\ \A n \in 1..(m - 1) : e[n] = e[n - 1] + f[n]
      BY <1>7 DEF IsEnds
    <2>2. g \in [0..m -> Nat] /\ g[0] = 0
      BY <1>4, <1>5, <1>8, <2>1
    <2>3. ASSUME NEW n \in 1..m PROVE g[n] = g[n - 1] + f[n]
      <3>1. CASE n = m
        BY <1>4, <3>1
      <3>2. CASE n # m
        BY <1>4, <2>1, <3>2
      <3> QED BY <3>1, <3>2
    <2> QED BY <2>2, <2>3 DEF IsEnds
  <1> QED BY <1>4, <1>9

\* RowEnd gives them.
LEMMA EndsAre ==
  ASSUME file \in Files
  PROVE  IsEnds(RowEnd, file, Len(file))
  <1> DEFINE Is(h) == h = [n \in 0..Len(file) |-> IF n = 0 THEN 0
                                                  ELSE h[n - 1] + file[n]]
             h == CHOOSE h : Is(h)
  <1>0. file \in Seq(Nat) /\ Len(file) \in Nat
    BY SizesAssumption
  <1>1. RowEnd = h
    BY DEF RowEnd
  <1>2. \E e : Is(e)
    <2>1. PICK e : IsEnds(e, file, Len(file))
      BY <1>0, EndsExist
    <2>2. e = [n \in 0..Len(file) |-> e[n]]
      BY <2>1 DEF IsEnds
    <2>3. \A n \in 0..Len(file) : e[n] = IF n = 0 THEN 0 ELSE e[n - 1] + file[n]
      BY <1>0, <2>1 DEF IsEnds
    <2>4. Is(e)
      BY <2>2, <2>3
    <2> QED BY <2>4
  <1>3. Is(h)
    BY <1>2
  <1> HIDE DEF h
  <1>4. \A n \in 0..Len(file) : h[n] = IF n = 0 THEN 0 ELSE h[n - 1] + file[n]
    BY <1>3
  <1>5. DOMAIN h = 0..Len(file) /\ h = [n \in 0..Len(file) |-> h[n]]
    BY <1>3
  <1> DEFINE Bad == {n \in 0..Len(file) : h[n] \notin Nat}
  <1>6. Bad = {}
    <2> SUFFICES ASSUME Bad # {} PROVE FALSE
      OBVIOUS
    <2>1. Bad \in SUBSET Nat
      BY <1>0
    <2> HIDE DEF Bad
    <2>2. PICK n \in Bad : \A k \in Bad : n <= k
      BY <2>1, LeastNumber
    <2>3. n \in 0..Len(file) /\ h[n] \notin Nat
      BY <2>2 DEF Bad
    <2>4. n # 0
      BY <1>0, <1>4, <2>3
    <2>5. n - 1 \in 0..Len(file) /\ ~(n <= n - 1) /\ file[n] \in Nat
      BY <1>0, <2>3, <2>4
    <2>6. h[n - 1] \in Nat
      BY <2>2, <2>5 DEF Bad
    <2> QED BY <1>4, <2>3, <2>4, <2>5, <2>6
  <1>7. \A n \in 0..Len(file) : h[n] \in Nat
    BY <1>6
  <1>8. h \in [0..Len(file) -> Nat]
    BY <1>5, <1>7
  <1>9. h[0] = 0 /\ \A n \in 1..Len(file) : h[n] = h[n - 1] + file[n]
    BY <1>0, <1>4
  <1> QED BY <1>1, <1>8, <1>9 DEF IsEnds

\* They do not decrease.
LEMMA EndsGrow ==
  ASSUME NEW f \in Seq(Nat), NEW e, IsEnds(e, f, Len(f))
  PROVE  \A m, n \in 0..Len(f) : m <= n => e[m] <= e[n]
  <1> SUFFICES ASSUME NEW m \in 0..Len(f)
               PROVE  \A n \in 0..Len(f) : m <= n => e[m] <= e[n]
    OBVIOUS
  <1> DEFINE Bad == {n \in 0..Len(f) : m <= n /\ ~(e[m] <= e[n])}
  <1>1. Bad = {}
    <2> SUFFICES ASSUME Bad # {} PROVE FALSE
      OBVIOUS
    <2>1. Bad \in SUBSET Nat
      OBVIOUS
    <2> HIDE DEF Bad
    <2>2. PICK n \in Bad : \A k \in Bad : n <= k
      BY <2>1, LeastNumber
    <2>3. n \in 0..Len(f) /\ m <= n /\ ~(e[m] <= e[n])
      BY <2>2 DEF Bad
    <2>4. m \in 0..Len(f) /\ e[m] \in Nat /\ e[n] \in Nat
      BY <2>3 DEF IsEnds
    <2>5. m <= n - 1 /\ n - 1 \in 0..Len(f) /\ ~(n <= n - 1) /\ n \in 1..Len(f)
      BY <2>3, <2>4
    <2>6. e[m] <= e[n - 1]
      BY <2>2, <2>5 DEF Bad
    <2>7. e[n] = e[n - 1] + f[n]
      BY <2>5 DEF IsEnds
    <2>8. f[n] \in Nat
      BY <2>5
    <2>9. e[n - 1] \in Nat
      BY <2>5 DEF IsEnds
    <2> QED BY SMTT(30), <2>3, <2>4, <2>6, <2>7, <2>8, <2>9
  <1> QED BY <1>1

\* What the steps use.
LEMMA RowFacts ==
  ASSUME file \in Files
  PROVE  /\ Len(file) \in Nat /\ FileSize \in Nat
         /\ \A n \in 1..Len(file) : file[n] \in Nat \ {0}
         /\ RowEnd \in [0..Len(file) -> Nat]
         /\ RowEnd[0] = 0
         /\ \A n \in 1..Len(file) :
              RowEnd[n - 1] \in Nat /\ RowEnd[n] = RowEnd[n - 1] + file[n]
         /\ \A n \in 0..Len(file) : RowEnd[n] \in Nat /\ RowEnd[n] <= FileSize
         /\ \A n \in 1..Len(file) : file[n] <= FileSize
  <1>0. file \in Seq(Nat) /\ Len(file) \in Nat
        /\ \A n \in 1..Len(file) : file[n] \in Nat \ {0}
    BY SizesAssumption
  <1>1. /\ RowEnd \in [0..Len(file) -> Nat] /\ RowEnd[0] = 0
        /\ \A n \in 1..Len(file) : RowEnd[n] = RowEnd[n - 1] + file[n]
    BY EndsAre DEF IsEnds
  <1>2. \A n \in 0..Len(file) : RowEnd[n] <= FileSize
    BY <1>0, EndsAre, EndsGrow DEF FileSize
  <1>3. FileSize \in Nat
    BY <1>0, <1>1 DEF FileSize
  <1>4. ASSUME NEW n \in 1..Len(file) PROVE file[n] <= FileSize
    <2>1. RowEnd[n] = RowEnd[n - 1] + file[n] /\ RowEnd[n] <= FileSize
      BY <1>0, <1>1, <1>2
    <2>2. file[n] \in Nat /\ n - 1 \in 0..Len(file)
      BY <1>0
    <2>4. RowEnd[n - 1] \in Nat
      BY <1>1, <2>2
    <2>3. RowEnd[n] \in Nat
      BY SMTT(30), <1>1, <1>0
    <2> QED BY <1>3, <2>1, <2>2, <2>3, <2>4
  <1>5. \A n \in 0..Len(file) : RowEnd[n] \in Nat
    BY <1>1
  <1>6. \A n \in 1..Len(file) : n - 1 \in 0..Len(file)
    BY <1>0
  <1>7. \A n \in 1..Len(file) : RowEnd[n - 1] \in Nat
    BY <1>5, <1>6
  <1> QED BY <1>0, <1>1, <1>2, <1>3, <1>4, <1>5, <1>7

\* The rows stay what they are.
LEMMA RowsSame ==
  ASSUME file' = file
  PROVE  RowEnd' = RowEnd /\ FileSize' = FileSize /\ Bytes' = Bytes
  <1>1. RowEnd' = RowEnd
    BY DEF RowEnd
  <1>2. FileSize' = FileSize
    BY <1>1 DEF FileSize
  <1> QED BY <1>1, <1>2 DEF Bytes

-----------------------------------------------------------------------------
(* Runs of bytes *)

\* Two sequences, one after the other.
LEMMA Joined ==
  ASSUME NEW S, NEW s \in Seq(S), NEW t \in Seq(S)
  PROVE  /\ s \o t \in Seq(S) /\ Len(s \o t) = Len(s) + Len(t)
         /\ \A a \in Nat : Run(s, a) /\ Run(t, a + Len(s)) => Run(s \o t, a)
  <1>1. s \o t \in Seq(S) /\ Len(s \o t) = Len(s) + Len(t)
    OBVIOUS
  <1>2. ASSUME NEW a \in Nat, Run(s, a), Run(t, a + Len(s)),
               NEW k \in 1..Len(s \o t)
        PROVE  (s \o t)[k] = a + k
    <2>1. CASE k <= Len(s)
      BY <1>1, <1>2, <2>1 DEF Run
    <2>2. CASE k > Len(s)
      <3>1. k - Len(s) \in 1..Len(t) /\ (s \o t)[k] = t[k - Len(s)]
        BY <1>1, <2>2
      <3>2. t[k - Len(s)] = a + Len(s) + (k - Len(s))
        BY <1>2, <3>1 DEF Run
      <3> QED BY <1>1, <3>1, <3>2
    <2> QED BY <1>1, <2>1, <2>2
  <1> QED BY <1>1, <1>2 DEF Run

\* The two parts of a sequence.
LEMMA Parted ==
  ASSUME NEW S, NEW s \in Seq(S), NEW n \in 0..Len(s)
  PROVE  /\ SubSeq(s, 1, n) \in Seq(S) /\ Len(SubSeq(s, 1, n)) = n
         /\ SubSeq(s, n + 1, Len(s)) \in Seq(S)
         /\ Len(SubSeq(s, n + 1, Len(s))) = Len(s) - n
         /\ \A a \in Nat : Run(s, a) => /\ Run(SubSeq(s, 1, n), a)
                                        /\ Run(SubSeq(s, n + 1, Len(s)), a + n)
  <1>1. SubSeq(s, 1, n) \in Seq(S) /\ Len(SubSeq(s, 1, n)) = n
    OBVIOUS
  <1>2. /\ SubSeq(s, n + 1, Len(s)) \in Seq(S)
        /\ Len(SubSeq(s, n + 1, Len(s))) = Len(s) - n
    OBVIOUS
  <1>3. ASSUME NEW a \in Nat, Run(s, a) PROVE Run(SubSeq(s, 1, n), a)
    BY <1>1, <1>3 DEF Run
  <1>4. ASSUME NEW a \in Nat, Run(s, a), NEW k \in 1..(Len(s) - n)
        PROVE  SubSeq(s, n + 1, Len(s))[k] = a + n + k
    <2>1. n + k \in 1..Len(s) /\ SubSeq(s, n + 1, Len(s))[k] = s[n + k]
      BY <1>4
    <2>2. s[n + k] = a + (n + k)
      BY <1>4, <2>1 DEF Run
    <2> QED BY <2>1, <2>2
  <1> QED BY <1>1, <1>2, <1>3, <1>4 DEF Run

\* The bytes of a row.
LEMMA RowRun ==
  ASSUME file \in Files, NEW n \in 1..Len(file)
  PROVE  /\ RowBytes(n) \in Seq(Bytes) /\ Len(RowBytes(n)) = file[n]
         /\ Run(RowBytes(n), RowEnd[n - 1])
  <1>0. /\ file[n] \in Nat /\ RowEnd[n - 1] \in Nat /\ FileSize \in Nat
        /\ RowEnd[n - 1] + file[n] <= FileSize
    <2>1. /\ file[n] \in Nat /\ RowEnd[n - 1] \in Nat /\ FileSize \in Nat
          /\ RowEnd[n] = RowEnd[n - 1] + file[n]
      BY RowFacts
    <2>2. n \in 0..Len(file)
      BY RowFacts
    <2>3. RowEnd[n] <= FileSize
      BY <2>2, RowFacts
    <2> QED BY <2>1, <2>3
  <1>1. PICK a \in Nat, m \in Nat, z \in Nat :
          a = RowEnd[n - 1] /\ m = file[n] /\ z = FileSize /\ a + m <= z
    BY <1>0
  <1>2. RowBytes(n) = [k \in 1..m |-> a + k]
    BY <1>1 DEF RowBytes
  <1>3. \A k \in 1..m : a + k \in 0..z
    BY <1>1
  <1>4. [k \in 1..m |-> a + k] \in Seq(0..z) /\ Len([k \in 1..m |-> a + k]) = m
    BY <1>3
  <1> QED BY <1>1, <1>2, <1>4 DEF Run, Bytes

\* A buffer that nobody has written to.
LEMMA ZerosAre ==
  ASSUME NEW n \in Nat
  PROVE  Zeros(n) \in Seq({0}) /\ Len(Zeros(n)) = n
  BY DEF Zeros

-----------------------------------------------------------------------------
(* Types *)

\* Nothing has been written, asked or sent at the beginning.
LEMMA ShapeInit == PipeInit => PipeShape
  <1> SUFFICES ASSUME PipeInit PROVE PipeShape
    OBVIOUS
  <1>1. file \in Files /\ Len(file) \in Nat /\ FileSize \in Nat /\ RowEnd[0] = 0
    BY RowFacts DEF PipeInit
  <1>2. WriterShape
    BY <1>1 DEF PipeInit, WriterShape
  <1>3. QueueShape
    <2>1. request = [length |-> 0, bytes |-> <<>>] /\ row - 1 = 0 /\ responses = <<>> /\ requests = 0
      BY DEF PipeInit, NoRequest
    <2>2. request \in [length : Nat, bytes : Seq(Bytes)]
      BY <2>1
    <2>3. responses \in Seq(-1..FileSize)
      BY <2>1
    <2> QED BY <1>1, <2>1, <2>2, <2>3 DEF QueueShape
  <1>4. ReaderShape
    <2>1. data \in Seq(Bytes) /\ sent \in Seq(Bytes) /\ loaded \in Seq(Bytes)
      BY DEF PipeInit
    <2>2. /\ rpc = "call" /\ target = "buffer" /\ buflen = 0 /\ trx = 0
          /\ eof \in BOOLEAN
      BY DEF PipeInit
    <2> QED BY <2>1, <2>2 DEF ReaderShape
  <1>5. FlagShape
    BY DEF PipeInit, FlagShape
  <1> QED BY <1>2, <1>3, <1>4, <1>5 DEF PipeShape

\* What a step of the writer leaves alone.
LEMMA ReaderShapeKept ==
  ASSUME PipeShape, file' = file, UNCHANGED reader
  PROVE  ReaderShape'
  BY RowsSame DEF PipeShape, ReaderShape, reader

\* A step of the two sides leaves the flags alone.
LEMMA FlagShapeKept ==
  ASSUME PipeShape, UNCHANGED flags
  PROVE  FlagShape'
  BY DEF PipeShape, FlagShape, flags

\* A request that was not filled has no more bytes when the writer goes on.
LEMMA QueueShapeKept ==
  ASSUME PipeShape, file' = file, UNCHANGED <<responses, request>>,
         requests' \in Nat, row' = row \/ row' = row + 1, row' <= Len(file) + 1
  PROVE  QueueShape'
  <1>1. file \in Files /\ row \in 1..Len(file) + 1 /\ Len(file) \in Nat
    BY RowFacts DEF PipeShape, WriterShape
  <1>2. RowEnd[row' - 1] \in Nat /\ RowEnd[row - 1] \in Nat
    <2>1. row - 1 \in 0..Len(file)
      BY <1>1
    <2>2. row' - 1 \in 0..Len(file)
      BY <1>1
    <2> QED BY <1>1, <2>1, <2>2, RowFacts
  <1>3. RowEnd[row - 1] <= RowEnd[row' - 1]
    <2>1. CASE row' = row
      BY <1>2, <2>1
    <2>2. CASE row' = row + 1
      <3>1. row \in 1..Len(file)
        BY <1>1, <2>2
      <3>2. RowEnd[row] = RowEnd[row - 1] + file[row] /\ file[row] \in Nat
        BY <1>1, <3>1, RowFacts
      <3>3. row' - 1 = row
        BY <1>1, <2>2
      <3> QED BY <1>2, <3>2, <3>3
    <2> QED BY <2>1, <2>2
  <1>4. Len(request.bytes) <= RowEnd[row' - 1]
    <2>1. Len(request.bytes) \in Nat /\ Len(request.bytes) <= RowEnd[row - 1]
      BY DEF PipeShape, QueueShape
    <2> QED BY <1>2, <1>3, <2>1
  <1>5. RowEnd' = RowEnd /\ FileSize' = FileSize /\ Bytes' = Bytes
    BY RowsSame
  <1> QED BY <1>4, <1>5 DEF PipeShape, QueueShape

\* The writer waits, comes or goes.
LEMMA WriterShapeKept ==
  ASSUME PipeShape, WriteRow \/ WriteCheck \/ WritePop \/ WriterFails \/ OtherFails
  PROVE  PipeShape'
  <1>0. /\ file' = file /\ UNCHANGED reader /\ UNCHANGED <<responses, request>>
        /\ file \in Files /\ Len(file) \in Nat /\ row \in 1..Len(file) + 1
        /\ requests \in Nat
    BY RowFacts DEF WriteRow, WriteCheck, WritePop, WriterFails, OtherFails, DumperBreaks,
                    PipeShape, WriterShape, QueueShape, pipe
  <1>1. RowEnd' = RowEnd /\ FileSize' = FileSize /\ Bytes' = Bytes
    BY <1>0, RowsSame
  <1>2. ReaderShape'
    BY <1>0, ReaderShapeKept
  <1>3. FlagShape'
    BY FlagShapeKept DEF WriteRow, WriteCheck, WritePop, WriterFails, OtherFails, DumperBreaks,
                         PipeShape, FlagShape, flags
  <1>4. WriterShape' /\ requests' \in Nat /\ (row' = row \/ row' = row + 1)
    <2>1. CASE WriteRow
      <3>1. row \in 1..Len(file) => file[row] \in 0..FileSize
        BY <1>0, RowFacts
      <3> QED BY <1>0, <1>1, <2>1, <3>1
              DEF WriteRow, WriterAt, WriterGoto, PipeShape, WriterShape
    <2>2. CASE WriteCheck
      BY <1>0, <1>1, <2>2
         DEF WriteCheck, WriterAt, WriterGoto, NextRow, pipe, PipeShape, WriterShape
    <2>3. CASE WritePop
      BY <1>0, <1>1, <2>3 DEF WritePop, WriterAt, WriterGoto, PipeShape, WriterShape
    <2>4. CASE WriterFails
      BY <1>0, <1>1, <2>4
         DEF WriterFails, DumperBreaks, WriterAt, WriterGoto, pipe, PipeShape, WriterShape
    <2>5. CASE OtherFails
      BY <1>0, <1>1, <2>5
         DEF OtherFails, DumperBreaks, pipe, writer, PipeShape, WriterShape
    <2> QED BY <2>1, <2>2, <2>3, <2>4, <2>5
  <1>5. row' <= Len(file) + 1
    BY <1>0, <1>4 DEF WriterShape
  <1>6. QueueShape'
    BY <1>0, <1>4, <1>5, QueueShapeKept
  <1> QED BY <1>2, <1>3, <1>4, <1>6 DEF PipeShape

\* What is known of the request.
LEMMA RequestFacts ==
  ASSUME PipeShape
  PROVE  /\ file \in Files /\ Len(file) \in Nat /\ FileSize \in Nat
         /\ row \in 1..Len(file) + 1 /\ row - 1 \in 0..Len(file)
         /\ RowEnd[row - 1] \in Nat /\ RowEnd[row - 1] <= FileSize
         /\ request.length \in Nat /\ request.bytes \in Seq(Bytes)
         /\ Len(request.bytes) \in Nat /\ Len(request.bytes) <= RowEnd[row - 1]
         /\ Len(request.bytes) \in 0..FileSize
         /\ Len(request.bytes) = 0 <=> request.bytes = <<>>
  <1>1. /\ file \in Files /\ Len(file) \in Nat /\ FileSize \in Nat
        /\ row \in 1..Len(file) + 1
    BY RowFacts DEF PipeShape, WriterShape
  <1>2. row - 1 \in 0..Len(file)
    BY <1>1
  <1>3. RowEnd[row - 1] \in Nat /\ RowEnd[row - 1] <= FileSize
    BY <1>1, <1>2, RowFacts
  <1>4. /\ request.length \in Nat /\ request.bytes \in Seq(Bytes)
        /\ Len(request.bytes) <= RowEnd[row - 1]
    BY DEF PipeShape, QueueShape
  <1>5. /\ Len(request.bytes) \in Nat
        /\ Len(request.bytes) = 0 <=> request.bytes = <<>>
    BY <1>4
  <1>6. Len(request.bytes) \in 0..FileSize
    BY <1>1, <1>3, <1>4, <1>5
  <1> QED BY <1>1, <1>2, <1>3, <1>4, <1>5, <1>6

\* The row of a writer that has one.
LEMMA RowOf ==
  ASSUME PipeShape, wpc \in {"check", "pop", "serve"}
  PROVE  /\ row \in 1..Len(file) /\ row + 1 \in 1..Len(file) + 1
         /\ file[row] \in Nat \ {0} /\ file[row] <= FileSize /\ pending = file[row]
         /\ RowEnd[row] = RowEnd[row - 1] + file[row] /\ RowEnd[row] \in Nat
         /\ RowEnd[row] <= FileSize
         /\ RowBytes(row) \in Seq(Bytes) /\ Len(RowBytes(row)) = file[row]
         /\ Run(RowBytes(row), RowEnd[row - 1])
  <1>1. file \in Files /\ Len(file) \in Nat /\ row \in 1..Len(file) + 1
        /\ row <= Len(file) /\ pending = file[row]
    BY RequestFacts DEF PipeShape, WriterShape
  <1>2. row \in 1..Len(file) /\ row \in 0..Len(file) /\ row + 1 \in 1..Len(file) + 1
    BY <1>1
  <1>3. /\ file[row] \in Nat \ {0} /\ file[row] <= FileSize
        /\ RowEnd[row] = RowEnd[row - 1] + file[row] /\ RowEnd[row] \in Nat
        /\ RowEnd[row] <= FileSize
    BY <1>1, <1>2, RowFacts
  <1> QED BY <1>1, <1>2, <1>3, RowRun

\* The answers of the writer.
LEMMA ServeShapeKept ==
  ASSUME PipeShape, ServeTooLong \/ Close
  PROVE  PipeShape'
  <1>0. /\ file' = file /\ UNCHANGED reader /\ UNCHANGED flags /\ row' = row
        /\ UNCHANGED <<request, pending>> /\ wpc' \in {"check", "closed"}
        /\ wpc' = "check" => wpc = "serve"
        /\ wpc' = "closed" => wpc = "close"
    BY DEF ServeTooLong, Close, WriterGoto, WriterAt
  <1>1. RowEnd' = RowEnd /\ FileSize' = FileSize /\ Bytes' = Bytes
    BY <1>0, RowsSame
  <1>2. ReaderShape' /\ FlagShape'
    BY <1>0, ReaderShapeKept, FlagShapeKept
  <1>3. WriterShape'
    BY <1>0, <1>1 DEF PipeShape, WriterShape
  <1>4. PICK n \in 0..FileSize : n = Len(request.bytes)
    BY RequestFacts
  <1>5. requests \in Nat /\ responses \in Seq(-1..FileSize) /\ FileSize \in Nat
    BY RequestFacts DEF PipeShape, QueueShape
  <1>6. responses' \in Seq(-1..FileSize) /\ requests' \in Nat
    <2>1. CASE ServeTooLong
      <3>1. PICK m \in -1..FileSize : responses' = Append(responses, m)
        BY <1>4, <1>5, <2>1 DEF ServeTooLong, Respond
      <3>2. Append(responses, m) \in Seq(-1..FileSize)
        BY <1>5
      <3> QED BY <1>5, <2>1, <3>1, <3>2 DEF ServeTooLong
    <2>2. CASE Close /\ requests > 0
      <3>1. <<0>> \in Seq(-1..FileSize) /\ <<n, 0>> \in Seq(-1..FileSize)
        BY <1>4, <1>5
      <3>2. PICK t \in Seq(-1..FileSize) : responses' = responses \o t
        BY <1>4, <2>2, <3>1 DEF Close
      <3>3. responses \o t \in Seq(-1..FileSize)
        BY <1>5, <3>2
      <3>4. requests' = requests - 1
        BY <2>2 DEF Close
      <3> QED BY <1>5, <2>2, <3>2, <3>3, <3>4
    <2>3. CASE Close /\ ~(requests > 0)
      <3>1. responses' = Append(responses, 0) /\ requests' = requests
        BY <2>3 DEF Close, Respond
      <3>2. 0 \in -1..FileSize
        BY <1>5
      <3>3. Append(responses, 0) \in Seq(-1..FileSize)
        BY <1>5, <3>2
      <3> QED BY <1>5, <3>1, <3>3
    <2> QED BY <2>1, <2>2, <2>3
  <1>7. QueueShape'
    BY <1>0, <1>1, <1>6 DEF PipeShape, QueueShape
  <1> QED BY <1>2, <1>3, <1>7 DEF PipeShape

\* What the copy of a row makes of the request.
LEMMA CopyRequest ==
  ASSUME PipeShape, ServeCopy
  PROVE  /\ request'.length = request.length - file[row]
         /\ request'.bytes = request.bytes \o RowBytes(row)
         /\ request' \in [length : Nat, bytes : Seq(Bytes)]
         /\ Len(request'.bytes) = Len(request.bytes) + file[row]
         /\ Len(request'.bytes) <= RowEnd[row]
         /\ Len(request'.bytes) \in 0..FileSize
         /\ row' = row + 1 /\ wpc' = "row" /\ wpc = "serve" /\ file' = file
  <1>1. /\ request' = [length |-> request.length - file[row],
                       bytes |-> request.bytes \o RowBytes(row)]
        /\ row' = row + 1 /\ wpc' = "row" /\ wpc = "serve" /\ file' = file
        /\ file[row] <= request.length
    BY DEF ServeCopy, NextRow, WriterAt
  <1>2. /\ file[row] \in Nat /\ RowEnd[row] = RowEnd[row - 1] + file[row]
        /\ RowEnd[row] <= FileSize /\ RowEnd[row] \in Nat
        /\ RowBytes(row) \in Seq(Bytes) /\ Len(RowBytes(row)) = file[row]
    BY <1>1, RowOf
  <1>3. /\ request.length \in Nat /\ request.bytes \in Seq(Bytes) /\ FileSize \in Nat
        /\ Len(request.bytes) <= RowEnd[row - 1] /\ RowEnd[row - 1] \in Nat
        /\ Len(request.bytes) \in Nat
    BY RequestFacts
  <1>4. PICK b \in Seq(Bytes) : b = request.bytes \o RowBytes(row)
                                /\ Len(b) = Len(request.bytes) + file[row]
    <2>1. /\ request.bytes \o RowBytes(row) \in Seq(Bytes)
          /\ Len(request.bytes \o RowBytes(row)) = Len(request.bytes) + Len(RowBytes(row))
      <3>1. PICK s \in Seq(Bytes), t \in Seq(Bytes) : s = request.bytes /\ t = RowBytes(row)
        BY <1>2, <1>3
      <3>2. s \o t \in Seq(Bytes) /\ Len(s \o t) = Len(s) + Len(t)
        BY Joined
      <3> QED BY <3>1, <3>2, Zenon
    <2> QED BY <1>2, <2>1
  <1>5. request.length - file[row] \in Nat
    BY <1>1, <1>2, <1>3
  <1>6. request' = [length |-> request.length - file[row], bytes |-> b]
    BY <1>1, <1>4
  <1>7. Len(b) <= RowEnd[row] /\ Len(b) \in 0..FileSize
    BY SMTT(30), <1>2, <1>3, <1>4
  <1>8. request'.length = request.length - file[row] /\ request'.bytes = b
    BY <1>6
  <1>9. request' \in [length : Nat, bytes : Seq(Bytes)]
    BY <1>4, <1>5, <1>6
  <1> QED BY <1>1, <1>4, <1>7, <1>8, <1>9

\* A copied row makes the bytes of the request one row longer, and the rows
\* before that of the writer as well.
LEMMA CopyShapeKept ==
  ASSUME PipeShape, ServeCopy
  PROVE  PipeShape'
  <1>0. /\ file' = file /\ UNCHANGED reader /\ UNCHANGED flags /\ row' = row + 1
        /\ wpc' = "row" /\ pending' = 0 /\ wpc = "serve"
    BY DEF ServeCopy, NextRow, WriterAt
  <1>1. RowEnd' = RowEnd /\ FileSize' = FileSize /\ Bytes' = Bytes
    BY <1>0, RowsSame
  <1>2. ReaderShape' /\ FlagShape'
    BY <1>0, ReaderShapeKept, FlagShapeKept
  <1>3. row + 1 \in 1..Len(file) + 1 /\ row \in Nat /\ file \in Files /\ FileSize \in Nat
        /\ file[row] \in Nat
    BY SMTT(30), <1>0, RowOf, RequestFacts
  <1>4. WriterShape'
    BY <1>0, <1>1, <1>3 DEF WriterShape
  <1>5. request' \in [length : Nat, bytes : Seq(Bytes)]
    BY CopyRequest
  <1>6. Len(request'.bytes) <= RowEnd[row' - 1]
    BY <1>0, <1>3, CopyRequest
  <1>7. request'.length <= FileSize \/ \E n \in BufLens : request'.length <= n
    <2>1. /\ request'.length = request.length - file[row] /\ request.length \in Nat
      BY CopyRequest, RequestFacts
    <2>2. BufLens \subseteq Nat
      BY SizesAssumption
    <2>3. request.length <= FileSize \/ \E n \in BufLens : request.length <= n
      BY DEF PipeShape, QueueShape
    <2>4. request'.length <= request.length /\ request'.length \in Int
      BY <1>3, <2>1
    <2>5. CASE request.length <= FileSize
      BY <1>3, <2>1, <2>4, <2>5
    <2>6. ASSUME NEW n \in BufLens, request.length <= n PROVE request'.length <= n
      BY <2>1, <2>2, <2>4, <2>6
    <2> QED BY <2>3, <2>5, <2>6
  <1>8. responses' \in Seq(-1..FileSize) /\ requests' \in Nat
    <2>1. requests \in Nat /\ responses \in Seq(-1..FileSize)
      BY DEF PipeShape, QueueShape
    <2>2. PICK n \in -1..FileSize : n = Len(request'.bytes)
      BY <1>3, CopyRequest
    <2>3. Append(responses, n) \in Seq(-1..FileSize)
      BY <2>1
    <2>4. \/ responses' = Append(responses, n) /\ requests' = requests
          \/ responses' = responses /\ requests' = requests + 1
      BY <2>2 DEF ServeCopy, Respond
    <2>5. PICK s \in Seq(-1..FileSize) : s = Append(responses, n)
      BY <2>3
    <2>6. requests + 1 \in Nat
      BY <2>1
    <2> QED BY <2>1, <2>4, <2>5, <2>6, Zenon
  <1>9. QueueShape'
    BY <1>1, <1>5, <1>6, <1>7, <1>8 DEF QueueShape
  <1> QED BY <1>2, <1>4, <1>9 DEF PipeShape

\* What a step of the reader leaves alone.
LEMMA WriterSame ==
  ASSUME PipeShape, UNCHANGED <<file, pending, writer>>
  PROVE  WriterShape'
  BY RowsSame DEF PipeShape, WriterShape, writer

\* An answer leaves the request as it is.
LEMMA QueueSame ==
  ASSUME PipeShape, file' = file, row' = row, UNCHANGED <<requests, request>>,
         responses' \in Seq(-1..FileSize)
  PROVE  QueueShape'
  BY RowsSame DEF PipeShape, QueueShape

\* A new request has no bytes and the length that the reader asks for.
LEMMA QueueAsked ==
  ASSUME PipeShape, file' = file, row' = row, NEW n \in Nat, NEW to, Request(n, to),
         n <= FileSize \/ \E m \in BufLens : n <= m,
         responses' \in Seq(-1..FileSize)
  PROVE  QueueShape'
  <1>1. request' = [length |-> n, bytes |-> <<>>] /\ requests' = requests + 1
    BY DEF Request
  <1>2. request' \in [length : Nat, bytes : Seq(Bytes)]
    BY <1>1
  <1>3. request'.length = n /\ request'.bytes = <<>> /\ Len(request'.bytes) = 0
    BY <1>1
  <1>4. requests' \in Nat
    BY <1>1 DEF PipeShape, QueueShape
  <1>5. RowEnd[row - 1] \in Nat
    BY RequestFacts
  <1>6. Len(request'.bytes) <= RowEnd[row - 1]
    BY <1>3, <1>5
  <1> QED BY <1>2, <1>3, <1>4, <1>6, RowsSame DEF QueueShape

\* The answer that the reader takes.
LEMMA Answer ==
  ASSUME PipeShape, responses # <<>>
  PROVE  /\ Head(responses) \in -1..FileSize /\ Head(responses) \in Int
         /\ Tail(responses) \in Seq(-1..FileSize)
         /\ Len(Tail(responses)) = Len(responses) - 1
  <1>1. responses \in Seq(-1..FileSize) /\ FileSize \in Nat
    BY RequestFacts DEF PipeShape, QueueShape
  <1> QED BY <1>1

\* What local_infile_read() does.
LEMMA ReturnFacts ==
  ASSUME PipeShape, NEW b \in Seq(Bytes), Return(b)
  PROVE  /\ sent' \in Seq(Bytes) /\ Len(sent') = Len(sent) + Len(b)
         /\ \A a \in Nat : Run(sent, a) /\ Run(b, a + Len(sent)) => Run(sent', a)
         /\ rpc' \in {"failed", "commit", "call"} /\ buflen' = 0
         /\ loader => rpc' = "failed"
         /\ ~loader /\ b = <<>> => rpc' = "commit"
         /\ ~loader /\ b # <<>> => rpc' = "call"
  <1>1. PICK s \in Seq(Bytes) : s = sent
    BY DEF PipeShape, ReaderShape
  <1>2. /\ s \o b \in Seq(Bytes) /\ Len(s \o b) = Len(s) + Len(b)
        /\ \A a \in Nat : Run(s, a) /\ Run(b, a + Len(s)) => Run(s \o b, a)
    BY Joined
  <1>3. sent' = s \o b
    BY <1>1 DEF Return
  <1>4. /\ rpc' \in {"failed", "commit", "call"} /\ buflen' = 0
        /\ loader => rpc' = "failed"
        /\ ~loader /\ b = <<>> => rpc' = "commit"
        /\ ~loader /\ b # <<>> => rpc' = "call"
    BY DEF Return
  <1> QED BY <1>1, <1>2, <1>3, <1>4, Zenon

\* consume() moves the first k bytes of d to the statement and keeps the rest;
\* it moves something if there is something and room for it.
LEMMA ConsumeFacts ==
  ASSUME PipeShape, NEW d \in Seq(Bytes), NEW n \in Nat, Consume(d, n)
  PROVE  \E k \in 0..Len(d) :
           /\ n # 0 /\ d # <<>> => k > 0
           /\ sent' \in Seq(Bytes) /\ Len(sent') = Len(sent) + k
           /\ \A a \in Nat : Run(sent, a) /\ Run(d, a + Len(sent)) => Run(sent', a)
           /\ data' \in Seq(Bytes) /\ Len(data') = Len(d) - k
           /\ \A a \in Nat : Run(d, a) => Run(data', a + k)
           /\ trx' = trx + k /\ rpc' \in {"failed", "commit", "call"} /\ buflen' = 0
           /\ loader => rpc' = "failed"
           /\ ~loader /\ k > 0 => rpc' = "call"
  <1>0. Len(d) \in Nat /\ (d # <<>> => Len(d) > 0)
    OBVIOUS
  <1>1. PICK k \in 0..Len(d) : k = Shorter(n, Len(d))
    BY <1>0 DEF Shorter
  <1>2. n # 0 /\ d # <<>> => k > 0
    BY <1>0, <1>1 DEF Shorter
  <1>3. PICK b, e : b = SubSeq(d, 1, k) /\ e = SubSeq(d, k + 1, Len(d))
    OBVIOUS
  <1>4. /\ b \in Seq(Bytes) /\ Len(b) = k /\ e \in Seq(Bytes) /\ Len(e) = Len(d) - k
        /\ \A a \in Nat : Run(d, a) => Run(b, a) /\ Run(e, a + k)
    BY <1>3, Parted
  <1>5. Return(b) /\ data' = e /\ trx' = trx + k
    BY <1>1, <1>3 DEF Consume
  <1>6. /\ sent' \in Seq(Bytes) /\ Len(sent') = Len(sent) + k
        /\ \A a \in Nat : Run(sent, a) /\ Run(b, a + Len(sent)) => Run(sent', a)
        /\ rpc' \in {"failed", "commit", "call"} /\ buflen' = 0
        /\ loader => rpc' = "failed"
        /\ ~loader /\ b # <<>> => rpc' = "call"
    BY <1>4, <1>5, ReturnFacts
  <1>7. k > 0 => b # <<>>
    BY <1>4
  <1>8. ASSUME NEW a \in Nat, Run(sent, a), Run(d, a + Len(sent)) PROVE Run(sent', a)
    <2>1. a + Len(sent) \in Nat
      BY DEF PipeShape, ReaderShape
    <2> QED BY <1>4, <1>6, <1>8, <2>1
  <1> QED BY <1>1, <1>2, <1>4, <1>5, <1>6, <1>7, <1>8

\* The reader sends what it has, or waits.
LEMMA ReadShapeKept ==
  ASSUME PipeShape, ReadLocal \/ ReadFull \/ ReadCheck \/ ReadTimeout \/ Commit \/ ReaderFails
  PROVE  PipeShape'
  <1>0. /\ file' = file /\ UNCHANGED <<file, pending, writer>> /\ row' = row
        /\ UNCHANGED <<requests, request>> /\ responses' = responses
    BY DEF ReadLocal, ReadFull, ReadCheck, ReadTimeout, Commit, ReaderFails, pipe, writer
  <1>1. WriterShape' /\ QueueShape'
    <2>1. responses' \in Seq(-1..FileSize)
      BY <1>0 DEF PipeShape, QueueShape
    <2> QED BY <1>0, <2>1, WriterSame, QueueSame
  <1>2. FlagShape'
    <2>1. /\ fs' = fs /\ dumper' = dumper /\ loader' = loader /\ cancelled' = cancelled
          /\ broken' = broken \/ broken' = "loader"
      BY DEF ReadLocal, ReadFull, ReadCheck, ReadTimeout, Commit, ReaderFails, LoaderBreaks, flags
    <2> QED BY <2>1 DEF PipeShape, FlagShape
  <1>3. RowEnd' = RowEnd /\ FileSize' = FileSize /\ Bytes' = Bytes
    BY <1>0, RowsSame
  <1>4. /\ data \in Seq(Bytes) /\ sent \in Seq(Bytes) /\ loaded \in Seq(Bytes)
        /\ trx \in Nat /\ eof \in BOOLEAN /\ buflen \in {0} \union BufLens
        /\ target \in {"buffer", "data"}
        /\ rpc \in {"call", "check", "pop", "commit", "done", "failed"}
    BY DEF PipeShape, ReaderShape
  <1>5. ReaderShape'
    <2>1. CASE ReadLocal
      <3>1. PICK n \in Nat : Consume(data, n)
        BY <2>1, SizesAssumption DEF ReadLocal
      <3>2. /\ sent' \in Seq(Bytes) /\ data' \in Seq(Bytes) /\ trx' \in Nat /\ buflen' = 0
            /\ rpc' \in {"failed", "commit", "call"}
        BY <1>4, <3>1, ConsumeFacts
      <3>3. target' = target /\ eof' = eof /\ loaded' = loaded
        BY <2>1 DEF ReadLocal
      <3> QED BY <1>3, <1>4, <3>2, <3>3 DEF ReaderShape
    <2>2. CASE ReadFull
      <3>1. <<>> \in Seq(Bytes) /\ Return(<<>>)
        BY <2>2 DEF ReadFull
      <3>2. sent' \in Seq(Bytes) /\ buflen' = 0 /\ rpc' \in {"failed", "commit", "call"}
        BY <3>1, ReturnFacts
      <3>3. target' = target /\ eof' = eof /\ loaded' = loaded /\ data' = data /\ trx' = trx
        BY <2>2 DEF ReadFull
      <3> QED BY <1>3, <1>4, <3>2, <3>3 DEF ReaderShape
    <2>3. CASE ReadCheck /\ fs
      <3>1. <<>> \in Seq(Bytes) /\ Return(<<>>)
        BY <2>3 DEF ReadCheck
      <3>2. sent' \in Seq(Bytes) /\ buflen' = 0 /\ rpc' \in {"failed", "commit", "call"}
        BY <3>1, ReturnFacts
      <3>3. /\ target' = target /\ eof' \in BOOLEAN /\ loaded' = loaded /\ data' = data
            /\ trx' = trx
        BY <2>3 DEF ReadCheck
      <3> QED BY <1>3, <1>4, <3>2, <3>3 DEF ReaderShape
    <2>4. CASE ReadCheck /\ ~fs
      <3>1. /\ rpc' = "pop" /\ buflen' = buflen /\ sent' = sent /\ eof' = eof
            /\ target' = target /\ loaded' = loaded /\ data' = data /\ trx' = trx
        BY <2>4 DEF ReadCheck
      <3> QED BY <1>3, <1>4, <3>1 DEF ReaderShape
    <2>5. CASE ReadTimeout
      <3>1. /\ rpc' = "check" /\ buflen' = buflen /\ sent' = sent /\ eof' = eof
            /\ target' = target /\ loaded' = loaded /\ data' = data /\ trx' = trx
        BY <2>5 DEF ReadTimeout
      <3> QED BY <1>3, <1>4, <3>1 DEF ReaderShape
    <2>6. CASE Commit
      <3>1. /\ rpc' \in {"done", "call"} /\ buflen' = buflen /\ sent' = <<>> /\ eof' = eof
            /\ target' = target /\ loaded' = loaded \o sent /\ data' = data /\ trx' = 0
        BY <2>6 DEF Commit
      <3>2. loaded \o sent \in Seq(Bytes) /\ <<>> \in Seq(Bytes)
        BY <1>4
      <3> QED BY <1>3, <1>4, <3>1, <3>2 DEF ReaderShape
    <2>7. CASE ReaderFails
      <3>1. /\ rpc' = "failed" /\ buflen' = buflen /\ sent' = sent /\ eof' = eof
            /\ target' = target /\ loaded' = loaded /\ data' = data /\ trx' = trx
        BY <2>7 DEF ReaderFails, LoaderBreaks
      <3> QED BY <1>3, <1>4, <3>1 DEF ReaderShape
    <2> QED BY <2>1, <2>2, <2>3, <2>4, <2>5, <2>6, <2>7
  <1> QED BY <1>1, <1>2, <1>5 DEF PipeShape

\* The room that a read offers.
LEMMA Offered ==
  ASSUME PipeShape, trx < MaxTrx, NEW n \in BufLens
  PROVE  /\ Shorter(n, MaxTrx - trx) \in Nat \ {0} /\ Shorter(n, MaxTrx - trx) <= n
         /\ trx + Shorter(n, MaxTrx - trx) <= MaxTrx
  BY SizesAssumption DEF Shorter, PipeShape, ReaderShape

\* What the reader asks for is a part of the buffer of the client library.
LEMMA FileShapeKept ==
  ASSUME PipeShape, ReadFile
  PROVE  PipeShape'
  <1>0. /\ file' = file /\ UNCHANGED <<file, pending, writer>> /\ row' = row
        /\ responses' = responses /\ UNCHANGED flags /\ trx < MaxTrx
    BY DEF ReadFile, writer
  <1>1. PICK n \in BufLens : buflen' = n /\ Request(Shorter(n, MaxTrx - trx), "buffer")
    BY DEF ReadFile
  <1>2. Shorter(n, MaxTrx - trx) \in Nat /\ Shorter(n, MaxTrx - trx) <= n
    BY <1>0, Offered
  <1>3. WriterShape' /\ FlagShape'
    BY <1>0, WriterSame, FlagShapeKept
  <1>4. QueueShape'
    <2>1. responses' \in Seq(-1..FileSize)
      BY <1>0 DEF PipeShape, QueueShape
    <2> QED BY <1>0, <1>1, <1>2, <2>1, QueueAsked
  <1>5. ReaderShape'
    <2>1. rpc' = "check" /\ target' = "buffer"
      BY <1>1 DEF Request
    <2>2. data' = data /\ trx' = trx /\ eof' = eof /\ sent' = sent /\ loaded' = loaded
      BY DEF ReadFile
    <2>3. Bytes' = Bytes
      BY <1>0, RowsSame
    <2> QED BY <1>1, <2>1, <2>2, <2>3 DEF PipeShape, ReaderShape
  <1> QED BY <1>3, <1>4, <1>5 DEF PipeShape

\* An answer arrives.
LEMMA ResponseShapeKept ==
  ASSUME PipeShape, ReadResponse \/ ReadRowResponse
  PROVE  PipeShape'
  <1>0. /\ file' = file /\ UNCHANGED <<file, pending, writer>> /\ row' = row
        /\ responses' = Tail(responses) /\ responses # <<>> /\ loaded' = loaded
        /\ UNCHANGED flags \/ LoaderBreaks
    BY DEF ReadResponse, ReadRowResponse, writer
  <1>1. WriterShape' /\ FlagShape'
    <2>1. CASE LoaderBreaks
      BY <1>0, <2>1, WriterSame DEF LoaderBreaks, PipeShape, FlagShape
    <2>2. CASE UNCHANGED flags
      BY <1>0, <2>2, WriterSame, FlagShapeKept
    <2> QED BY <1>0, <2>1, <2>2
  <1>2. responses' \in Seq(-1..FileSize) /\ Head(responses) \in Int
    BY <1>0, Answer
  <1>3. RowEnd' = RowEnd /\ FileSize' = FileSize /\ Bytes' = Bytes
    BY <1>0, RowsSame
  <1>4. /\ data \in Seq(Bytes) /\ sent \in Seq(Bytes) /\ loaded \in Seq(Bytes)
        /\ trx \in Nat /\ eof \in BOOLEAN /\ buflen \in {0} \union BufLens
        /\ target \in {"buffer", "data"} /\ request.bytes \in Seq(Bytes)
        /\ <<>> \in Seq(Bytes)
    BY RequestFacts DEF PipeShape, ReaderShape
  <1>5. ASSUME UNCHANGED <<requests, request, target>>, data' \in Seq(Bytes), trx' \in Nat,
               eof' \in BOOLEAN, NEW b \in Seq(Bytes), Return(b)
        PROVE  PipeShape'
    <2>1. QueueShape'
      BY <1>0, <1>2, <1>5, QueueSame
    <2>2. sent' \in Seq(Bytes) /\ buflen' = 0 /\ rpc' \in {"failed", "commit", "call"}
      BY <1>5, ReturnFacts
    <2>3. target' = target
      BY <1>5
    <2>4. ReaderShape'
      BY <1>0, <1>3, <1>4, <1>5, <2>2, <2>3 DEF ReaderShape
    <2> QED BY <1>1, <2>1, <2>4 DEF PipeShape
  <1>6. CASE ReadResponse /\ Head(responses) = 0
    <2>1. /\ UNCHANGED <<requests, request, target>> /\ data' = data /\ trx' = trx
          /\ eof' = TRUE /\ Return(<<>>)
      BY <1>6 DEF ReadResponse
    <2> QED BY <1>4, <1>5, <2>1
  <1>7. CASE ReadResponse /\ Head(responses) < 0
    <2>0. FetchRow
      BY <1>2, <1>7 DEF ReadResponse
    <2>1. CASE trx > 0
      <3>1. /\ UNCHANGED <<requests, request, target>> /\ data' = data /\ trx' = trx
            /\ eof' = eof /\ Return(<<>>)
        BY <2>0, <2>1 DEF FetchRow
      <3> QED BY <1>4, <1>5, <3>1
    <2>2. CASE ~(trx > 0)
      <3>1. /\ data' = Zeros(pending) /\ Request(pending, "data") /\ buflen' = buflen
            /\ trx' = trx /\ eof' = eof /\ sent' = sent
        BY <2>0, <2>2 DEF FetchRow
      <3>2. pending \in Nat /\ pending <= FileSize
        BY RequestFacts DEF PipeShape, WriterShape
      <3>3. QueueShape'
        BY <1>0, <1>2, <3>1, <3>2, QueueAsked
      <3>4. data' \in Seq(Bytes)
        <4>1. 0 \in Bytes
          BY RequestFacts DEF Bytes
        <4>2. Zeros(pending) \in Seq({0})
          BY <3>2, ZerosAre
        <4>3. Zeros(pending) \in Seq(Bytes)
          BY <4>1, <4>2
        <4> QED BY <3>1, <4>3
      <3>5. rpc' = "check" /\ target' = "data"
        BY <3>1 DEF Request
      <3>6. ReaderShape'
        BY <1>0, <1>3, <1>4, <3>1, <3>4, <3>5 DEF ReaderShape
      <3> QED BY <1>1, <3>3, <3>6 DEF PipeShape
    <2> QED BY <2>1, <2>2
  <1>8. CASE ReadResponse /\ Head(responses) > 0
    <2>1. /\ UNCHANGED <<requests, request, target>> /\ data' = data
          /\ trx' = trx + Head(responses) /\ eof' = eof /\ Return(request.bytes)
      BY <1>2, <1>8 DEF ReadResponse
    <2>2. trx' \in Nat
      BY <1>2, <1>4, <1>8, <2>1
    <2> QED BY <1>4, <1>5, <2>1, <2>2
  <1>9. CASE ReadRowResponse /\ Head(responses) = 0
    <2>1. /\ UNCHANGED <<requests, request, target>> /\ data' = data /\ trx' = trx
          /\ eof' = eof /\ Return(<<>>)
      BY <1>9 DEF ReadRowResponse
    <2> QED BY <1>4, <1>5, <2>1
  <1>11. CASE ReadRowResponse /\ Head(responses) < 0
    <2>1. /\ requests' = requests /\ request' = request /\ target' = target /\ data' = data
          /\ trx' = trx /\ eof' = eof /\ sent' = sent /\ buflen' = buflen /\ rpc' = "failed"
      BY <1>2, <1>11 DEF ReadRowResponse, LoaderBreaks
    <2>2. QueueShape'
      BY <1>0, <1>2, <2>1, QueueSame
    <2>3. ReaderShape'
      BY <1>0, <1>3, <1>4, <2>1 DEF ReaderShape
    <2> QED BY <1>1, <2>2, <2>3 DEF PipeShape
  <1>10. CASE ReadRowResponse /\ Head(responses) > 0
    <2>1. /\ UNCHANGED <<requests, request, target>> /\ eof' = eof
          /\ Consume(request.bytes, buflen)
      BY <1>2, <1>10 DEF ReadRowResponse
    <2>2. buflen \in Nat
      BY <1>4, SizesAssumption
    <2>3. /\ sent' \in Seq(Bytes) /\ data' \in Seq(Bytes) /\ trx' \in Nat
          /\ rpc' \in {"failed", "commit", "call"} /\ buflen' = 0
      BY <1>4, <2>1, <2>2, ConsumeFacts
    <2>4. QueueShape'
      BY <1>0, <1>2, <2>1, QueueSame
    <2>5. target' = target
      BY <2>1
    <2>6. ReaderShape'
      BY <1>0, <1>3, <1>4, <2>1, <2>3, <2>5 DEF ReaderShape
    <2> QED BY <1>1, <2>4, <2>6 DEF PipeShape
  <1> QED BY <1>2, <1>6, <1>7, <1>8, <1>9, <1>10, <1>11

\* The main thread.
LEMMA SignalShapeKept ==
  ASSUME PipeShape, Interrupt \/ Throws \/ Signal \/ UNCHANGED pipeVars
  PROVE  PipeShape'
  <1>0. /\ UNCHANGED <<file, pending, writer>> /\ file' = file /\ row' = row
        /\ UNCHANGED <<requests, request>> /\ responses' = responses /\ UNCHANGED reader
    BY DEF Interrupt, Throws, Signal, pipeVars, pipe, writer
  <1>1. WriterShape' /\ ReaderShape'
    BY <1>0, WriterSame, ReaderShapeKept
  <1>2. QueueShape'
    <2>1. responses' \in Seq(-1..FileSize)
      BY <1>0 DEF PipeShape, QueueShape
    <2> QED BY <1>0, <2>1, QueueSame
  <1>3. FlagShape'
    BY DEF Interrupt, Throws, Signal, pipeVars, flags, PipeShape, FlagShape
  <1> QED BY <1>1, <1>2, <1>3 DEF PipeShape

\* Every step keeps the types.
LEMMA ShapeKept ==
  ASSUME PipeShape, [PipeNext]_pipeVars
  PROVE  PipeShape'
  BY WriterShapeKept, ServeShapeKept, CopyShapeKept, ReadShapeKept, FileShapeKept,
     ResponseShapeKept, SignalShapeKept DEF PipeNext, WriterStep, ReaderStep

-----------------------------------------------------------------------------
(* Flags *)

\* Who has left does not come back.
LEMMA LeftForGood ==
  ASSUME [PipeNext]_pipeVars
  PROVE  /\ WriterDone => WriterDone'
         /\ rpc = "failed" => rpc' = "failed"
  <1>1. CASE WriterStep \/ WriterFails
    <2>1. rpc' = rpc
      BY <1>1 DEF WriterStep, WriteRow, WriteCheck, WritePop, ServeTooLong, ServeCopy, Close,
                  WriterFails, DumperBreaks, reader
    <2>2. ~WriterDone
      BY <1>1 DEF WriterStep, WriteRow, WriteCheck, WritePop, ServeTooLong, ServeCopy, Close,
                  WriterFails, WriterAt, WriterDone
    <2> QED BY <2>1, <2>2
  <1>2. CASE ReaderStep \/ ReaderFails
    <2>1. wpc' = wpc
      BY <1>2 DEF ReaderStep, ReadLocal, ReadFull, ReadFile, ReadCheck, ReadTimeout,
                  ReadResponse, ReadRowResponse, Commit, ReaderFails, writer
    <2>2. rpc # "failed"
      BY <1>2 DEF ReaderStep, ReadLocal, ReadFull, ReadFile, ReadCheck, ReadTimeout,
                  ReadResponse, ReadRowResponse, Commit, ReaderFails, ReaderAt
    <2> QED BY <2>1, <2>2 DEF WriterDone
  <1>3. CASE OtherFails \/ Interrupt \/ Throws \/ Signal \/ UNCHANGED pipeVars
    BY <1>3 DEF OtherFails, DumperBreaks, Interrupt, Throws, Signal, pipeVars, writer, reader,
                WriterDone
  <1> QED BY <1>1, <1>2, <1>3 DEF PipeNext

\* Every step keeps the order of the flags: who left stays away.
LEMMA FlagsKept ==
  ASSUME PipeShape, FlagsOrdered, [PipeNext]_pipeVars
  PROVE  FlagsOrdered'
  <1>0. /\ WriterDone => WriterDone'
        /\ rpc = "failed" => rpc' = "failed"
    BY LeftForGood
  <1>1. ASSUME UNCHANGED flags PROVE FlagsOrdered'
    <2>1. /\ signals' = signals /\ fs' = fs /\ dumper' = dumper /\ loader' = loader
          /\ cancelled' = cancelled /\ broken' = broken
      BY <1>1 DEF flags
    <2>2. (Quiet => Quiet') /\ (Cancelling => Cancelling')
      BY <2>1 DEF Quiet, Cancelling
    <2>3. DumperFailed => DumperFailed'
      BY <1>0, <2>1 DEF DumperFailed
    <2>4. LoaderFailed => LoaderFailed'
      BY <1>0, <2>1 DEF LoaderFailed
    <2> QED BY <2>2, <2>3, <2>4 DEF FlagsOrdered
  <1>2. ASSUME LoaderBreaks PROVE FlagsOrdered'
    <2>1. /\ signals' = signals /\ fs' = fs /\ dumper' = dumper /\ loader' = loader
          /\ cancelled' = cancelled /\ rpc' = "failed"
          /\ broken = "none" => broken' = "loader"
          /\ broken # "none" => broken' = broken
      BY <1>2 DEF LoaderBreaks
    <2>2. Quiet => LoaderFailed'
      BY <2>1 DEF Quiet, LoaderFailed
    <2>3. Cancelling => Cancelling'
      BY <2>1 DEF Cancelling
    <2>4. DumperFailed => DumperFailed'
      BY <1>0, <2>1 DEF DumperFailed
    <2>5. LoaderFailed => LoaderFailed'
      BY <2>1 DEF LoaderFailed
    <2> QED BY <2>2, <2>3, <2>4, <2>5 DEF FlagsOrdered
  <1>3. CASE WriterStep \/ ReaderStep \/ ReaderFails \/ UNCHANGED pipeVars
    <2>1. UNCHANGED flags \/ LoaderBreaks
      BY <1>3 DEF WriterStep, WriteRow, WriteCheck, WritePop, ServeTooLong, ServeCopy, Close,
                  ReaderStep, ReadLocal, ReadFull, ReadFile, ReadCheck, ReadTimeout,
                  ReadResponse, ReadRowResponse, Commit, ReaderFails, pipeVars
    <2> QED BY <1>1, <1>2, <2>1
  <1>4. CASE WriterFails \/ OtherFails \/ Interrupt
    <2>1. broken = "none" /\ ~cancelled
      BY <1>4 DEF WriterFails, OtherFails, DumperBreaks, Interrupt, Sound
    <2>2. Quiet
      BY <2>1 DEF FlagsOrdered, Quiet, Cancelling, DumperFailed, LoaderFailed
    <2>3. CASE WriterFails \/ OtherFails
      <3>1. DumperBreaks
        BY <2>3 DEF WriterFails, OtherFails
      <3>2. DumperFailed'
        BY <2>2, <3>1 DEF DumperBreaks, DumperFailed, Quiet
      <3> QED BY <3>2 DEF FlagsOrdered
    <2>4. CASE Interrupt
      BY <2>2, <2>4 DEF Interrupt, FlagsOrdered, Cancelling, Quiet
    <2> QED BY <1>4, <2>3, <2>4
  <1>5. CASE Throws
    <2>0. /\ fs' = fs /\ dumper' = dumper /\ loader' = loader /\ cancelled' = cancelled
          /\ broken' = broken /\ signals = <<>> /\ ~fs /\ rpc' = rpc
          /\ \/ broken = "dumper" /\ WriterDone /\ signals' = <<"loader", "fs">>
             \/ broken = "loader" /\ signals' = <<"dumper", "fs">>
      BY <1>5 DEF Throws, reader
    <2>1. DumperFailed \/ LoaderFailed
      BY <2>0 DEF FlagsOrdered, Quiet, Cancelling
    <2>2. DumperFailed => DumperFailed'
      BY <1>0, <2>0 DEF DumperFailed
    <2>3. LoaderFailed => LoaderFailed'
      BY <2>0 DEF LoaderFailed
    <2> QED BY <2>1, <2>2, <2>3 DEF FlagsOrdered
  <1>6. CASE Signal
    <2>0. /\ signals' = Tail(signals) /\ signals # <<>> /\ cancelled' = cancelled
          /\ broken' = broken /\ rpc' = rpc
          /\ fs' = (fs \/ Head(signals) = "fs")
          /\ loader' = (loader \/ Head(signals) = "loader")
      BY <1>6 DEF Signal, reader
    <2>1. CASE Cancelling
      <3>1. fs \/ Head(signals) = "fs"
        BY <2>1 DEF Cancelling
      <3>2. fs' /\ cancelled'
        BY <2>0, <2>1, <3>1 DEF Cancelling
      <3> QED BY <3>2 DEF FlagsOrdered, Cancelling
    <2>2. CASE DumperFailed
      <3>0. ~cancelled' /\ broken' = "dumper"
        BY <2>0, <2>2 DEF DumperFailed
      <3>1. CASE WriterDone /\ signals = <<"loader", "fs">> /\ ~fs /\ ~loader
        <4>1. Head(signals) = "loader" /\ Tail(signals) = <<"fs">>
          BY <3>1
        <4>2. signals' = <<"fs">> /\ ~fs' /\ loader' /\ WriterDone'
          BY <1>0, <2>0, <3>1, <4>1
        <4> QED BY <3>0, <4>2 DEF FlagsOrdered, DumperFailed
      <3>2. CASE WriterDone /\ signals = <<"fs">> /\ ~fs /\ loader
        <4>1. Head(signals) = "fs" /\ Tail(signals) = <<>>
          BY <3>2
        <4>2. signals' = <<>> /\ fs' /\ loader' /\ WriterDone'
          BY <1>0, <2>0, <3>2, <4>1
        <4> QED BY <3>0, <4>2 DEF FlagsOrdered, DumperFailed
      <3> QED BY <2>0, <2>2, <3>1, <3>2 DEF DumperFailed
    <2>3. CASE LoaderFailed
      <3>0. ~cancelled' /\ broken' = "loader" /\ rpc' = "failed"
        BY <2>0, <2>3 DEF LoaderFailed
      <3>1. CASE signals = <<"dumper", "fs">> /\ ~fs
        <4>1. Head(signals) = "dumper" /\ Tail(signals) = <<"fs">>
          BY <3>1
        <4>2. signals' = <<"fs">> /\ ~fs' /\ ~loader'
          BY <2>0, <2>3, <3>1, <4>1 DEF LoaderFailed
        <4> QED BY <3>0, <4>2 DEF FlagsOrdered, LoaderFailed
      <3>2. CASE signals = <<"fs">> /\ ~fs
        <4>1. Head(signals) = "fs" /\ Tail(signals) = <<>>
          BY <3>2
        <4>2. signals' = <<>> /\ ~loader'
          BY <2>0, <2>3, <3>2, <4>1 DEF LoaderFailed
        <4> QED BY <3>0, <4>2 DEF FlagsOrdered, LoaderFailed
      <3> QED BY <2>0, <2>3, <3>1, <3>2 DEF LoaderFailed
    <2> QED BY <2>0, <2>1, <2>2, <2>3 DEF FlagsOrdered, Quiet
  <1> QED BY <1>3, <1>4, <1>5, <1>6 DEF PipeNext

\* What the flags tell, until ^C has reached the pipe.
LEMMA FlagsTell ==
  ASSUME FlagsOrdered, Live
  PROVE  /\ fs => (WriterDone /\ loader) \/ rpc = "failed"
         /\ loader => WriterDone
  BY DEF FlagsOrdered, Live, Quiet, Cancelling, DumperFailed, LoaderFailed

\* Once ^C has interrupted the file system it stays interrupted.
LEMMA LiveBefore ==
  ASSUME PipeShape, FlagsOrdered, [PipeNext]_pipeVars, Live'
  PROVE  Live
  <1>1. CASE Signal
    BY <1>1 DEF Signal, Live
  <1>2. CASE Interrupt
    BY <1>2 DEF Interrupt, Live
  <1>3. CASE WriterStep \/ WriterFails \/ OtherFails \/ ReaderStep \/ ReaderFails \/ Throws
             \/ UNCHANGED pipeVars
    <2>1. cancelled' = cancelled /\ fs' = fs
      BY <1>3 DEF WriterStep, WriteRow, WriteCheck, WritePop, ServeTooLong, ServeCopy, Close,
                  WriterFails, OtherFails, DumperBreaks, ReaderStep, ReadLocal, ReadFull,
                  ReadFile, ReadCheck, ReadTimeout, ReadResponse, ReadRowResponse, Commit,
                  ReaderFails, LoaderBreaks, Throws, pipeVars, flags
    <2> QED BY <2>1 DEF Live
  <1> QED BY <1>1, <1>2, <1>3 DEF PipeNext

-----------------------------------------------------------------------------
(* The hand-over: the writer *)

Base == PipeShape /\ FlagsOrdered /\ Live /\ Stream /\ HandOver

\* Two answers at most.
LEMMA Lengths ==
  ASSUME NEW s, NEW n, s = <<>> \/ s = <<n>> \/ s = <<n, 0>> \/ s = << 0 >>
  PROVE  Len(s) <= 2
  <1>1. CASE s = <<>>
    <2>1. Len(s) = 0
      BY <1>1
    <2> QED BY <2>1
  <1>2. CASE s = <<n>> \/ s = <<0>>
    <2>1. Len(s) = 1
      BY <1>2
    <2> QED BY <2>1
  <1>3. CASE s = <<n, 0>>
    <2>1. Len(s) = 2
      BY <1>3
    <2> QED BY <2>1
  <1> QED BY <1>1, <1>2, <1>3

\* Only a step that sends or commits changes what the target has.
LEMMA StreamSame ==
  ASSUME Stream, file' = file, UNCHANGED <<sent, loaded, trx>>
  PROVE  Stream'
  BY RowsSame DEF Stream, Received, Run

\* Where nothing is sent, asked or handed over, the rows ahead are the same.
LEMMA AheadSame ==
  ASSUME Ahead, file' = file, row' = row, UNCHANGED <<sent, loaded, data, request>>,
         Waiting' <=> Waiting
  PROVE  Ahead'
  <1>1. Held' = Held /\ Received' = Received
    BY DEF Held, Received
  <1>2. RowEnd' = RowEnd
    BY RowsSame
  <1> QED BY <1>1, <1>2 DEF Ahead, Run

\* The writer goes from one place to the next without touching the request.
LEMMA WriterMoves ==
  ASSUME Base, file' = file, row' = row, UNCHANGED <<requests, responses, request>>,
         UNCHANGED reader,
         \/ wpc = "row" /\ wpc' \in {"check", "close", "gone"}
         \/ wpc = "check" /\ wpc' = "pop"
         \/ wpc = "pop" /\ wpc' = "check"
  PROVE  Stream' /\ HandOver'
  <1>0. /\ rpc' = rpc /\ target' = target /\ buflen' = buflen /\ data' = data /\ trx' = trx
        /\ eof' = eof /\ sent' = sent /\ loaded' = loaded
    BY DEF reader
  <1>1. Stream'
    BY <1>0, StreamSame DEF Base
  <1>2. RowEnd' = RowEnd
    BY RowsSame
  <1>3. ASSUME Ahead PROVE Ahead'
    BY <1>0, <1>3, AheadSame DEF Waiting
  <1>4. Open /\ Open'
    BY DEF Open
  <1>5. wpc # "serve" /\ wpc # "closed" /\ wpc' # "serve" /\ wpc' # "closed"
    OBVIOUS
  <1>6. Asked => Asked'
    BY <1>4, <1>5 DEF Asked
  <1>7. Answered => Answered'
    BY <1>4, <1>5 DEF Answered
  <1>8. Refused => Refused'
    BY DEF Refused
  <1>9. ~Ended
    BY <1>5 DEF Ended
  <1>10. CASE Waiting
    <2>1. Ahead /\ WaitingOK
      BY <1>10 DEF Base, HandOver
    <2>2. target = "buffer" => ForBuffer'
      BY <1>0, <1>6, <1>7, <1>8, <1>9, <2>1 DEF WaitingOK, ForBuffer
    <2>3. target = "data" => ForRow'
      BY <1>0, <1>2, <1>6, <1>7, <2>1 DEF WaitingOK, ForRow
    <2>4. WaitingOK'
      BY <1>0, <2>1, <2>2, <2>3 DEF WaitingOK
    <2> QED BY <1>0, <1>1, <1>3, <1>10, <2>1, <2>4 DEF HandOver, Waiting
  <1>11. CASE rpc \in {"call", "commit", "done"}
    <2>1. Ahead /\ IdleOK
      BY <1>11 DEF Base, HandOver
    <2>2. IdleOK'
      BY <1>0, <1>2, <1>4, <1>5, <2>1 DEF IdleOK
    <2> QED BY <1>0, <1>1, <1>3, <1>11, <2>1, <2>2 DEF HandOver, Waiting
  <1>12. CASE rpc = "failed"
    <2>1. FailedOK
      BY <1>12 DEF Base, HandOver
    <2>2. FailedOK'
      BY <2>1 DEF FailedOK
    <2> QED BY <1>0, <1>1, <1>12, <2>2 DEF HandOver, Waiting
  <1> QED BY <1>10, <1>11, <1>12 DEF Base, PipeShape, ReaderShape, Waiting

\* The writer takes its next row, leaves or goes on to close().
LEMMA WriteRowKeeps ==
  ASSUME Base, WriteRow \/ WriterFails
  PROVE  Stream' /\ HandOver'
  BY WriterMoves DEF WriteRow, WriterFails, DumperBreaks, WriterAt, WriterGoto, pipe

\* A write is given up only when the reader has left.
LEMMA WriteCheckKeeps ==
  ASSUME Base, WriteCheck
  PROVE  Stream' /\ HandOver'
  <1>1. CASE ~fs
    BY <1>1, WriterMoves DEF WriteCheck, WriterAt, WriterGoto, pipe
  <1>2. CASE fs
    <2>1. wpc = "check" /\ wpc' = "row" /\ UNCHANGED pipe /\ UNCHANGED reader /\ file' = file
      BY <1>2 DEF WriteCheck, WriterAt, NextRow
    <2>2. rpc = "failed" /\ rpc' = "failed"
      BY <1>2, <2>1, FlagsTell DEF Base, reader, WriterDone
    <2>3. Stream'
      BY <2>1, StreamSame DEF Base, reader
    <2>4. FailedOK'
      BY <2>1, <2>2 DEF Base, HandOver, FailedOK, pipe
    <2> QED BY <2>2, <2>3, <2>4 DEF HandOver, Waiting
  <1> QED BY <1>1, <1>2

\* Where a request is served, the reader waits for it.
LEMMA Served ==
  ASSUME Base, wpc = "serve"
  PROVE  Waiting /\ Ahead /\ WaitingOK /\ Asked /\ requests = 0 /\ responses = <<>>
  <1>1. ~Open
    BY DEF Open
  <1>2. Waiting
    BY <1>1 DEF Base, HandOver, IdleOK, FailedOK, PipeShape, ReaderShape, Waiting
  <1>3. Ahead /\ WaitingOK
    BY <1>2 DEF Base, HandOver
  <1>4. Asked
    BY <1>1, <1>3 DEF WaitingOK, ForBuffer, ForRow, Asked, Answered, Refused, Ended, Base,
                      PipeShape, ReaderShape
  <1> QED BY <1>1, <1>2, <1>3, <1>4 DEF Asked

\* The writer takes the only request out of the queue: the reader waits.
LEMMA WritePopKeeps ==
  ASSUME Base, WritePop
  PROVE  Stream' /\ HandOver'
  <1>0. /\ wpc = "pop" /\ file' = file /\ row' = row /\ UNCHANGED reader
        /\ UNCHANGED <<responses, request>> /\ requests \in Nat
    BY DEF WritePop, WriterAt, WriterGoto, Base, PipeShape, QueueShape
  <1>1. CASE ~(requests > 0)
    BY <1>0, <1>1, WriterMoves DEF WritePop, WriterGoto
  <1>2. CASE requests > 0
    <2>0. /\ rpc' = rpc /\ target' = target /\ buflen' = buflen /\ data' = data /\ trx' = trx
          /\ eof' = eof /\ sent' = sent /\ loaded' = loaded
      BY <1>0 DEF reader
    <2>1. wpc' = "serve" /\ requests' = requests - 1
      BY <1>2 DEF WritePop, WriterGoto
    <2>2. Stream'
      BY <1>0, <2>0, StreamSame DEF Base
    <2>3. Waiting /\ Waiting'
      BY <1>0, <1>2, <2>0
         DEF Base, HandOver, IdleOK, FailedOK, PipeShape, ReaderShape, Waiting
    <2>4. Ahead /\ WaitingOK
      BY <2>3 DEF Base, HandOver
    <2>5. ~Answered /\ ~Refused /\ ~Ended
      BY <1>0, <1>2 DEF Answered, Refused, Ended
    <2>6. Asked
      BY <2>4, <2>5 DEF WaitingOK, ForBuffer, ForRow, Base, PipeShape, ReaderShape
    <2>7. Asked'
      BY <1>0, <1>2, <2>1, <2>6 DEF Asked
    <2>8. Ahead'
      BY <1>0, <2>0, <2>3, <2>4, AheadSame
    <2>9. target = "buffer" => ForBuffer'
      BY <1>0, <2>0, <2>4, <2>7 DEF WaitingOK, ForBuffer
    <2>10. target = "data" => ForRow'
      BY <1>0, <2>0, <2>1, <2>4, <2>5, <2>7 DEF WaitingOK, ForRow
    <2>11. WaitingOK'
      BY <2>0, <2>4, <2>9, <2>10 DEF WaitingOK
    <2> QED BY <2>2, <2>3, <2>8, <2>11 DEF HandOver, Waiting
  <1> QED BY <1>1, <1>2

\* The request goes back without the row, as an answer or as a refusal.
LEMMA ServeTooLongKeeps ==
  ASSUME Base, ServeTooLong
  PROVE  Stream' /\ HandOver'
  <1>0. /\ wpc = "serve" /\ wpc' = "check" /\ file' = file /\ row' = row
        /\ UNCHANGED reader /\ UNCHANGED <<requests, request, pending>>
        /\ file[row] > request.length
    BY DEF ServeTooLong, WriterAt, WriterGoto
  <1>1. /\ rpc' = rpc /\ target' = target /\ buflen' = buflen /\ data' = data /\ trx' = trx
        /\ eof' = eof /\ sent' = sent /\ loaded' = loaded
    BY <1>0 DEF reader
  <1>2. Waiting /\ Ahead /\ WaitingOK /\ Asked /\ requests = 0 /\ responses = <<>>
    BY <1>0, Served
  <1>3. Stream'
    BY <1>0, <1>1, StreamSame DEF Base
  <1>4. Ahead' /\ Waiting'
    BY <1>0, <1>1, <1>2, AheadSame DEF Waiting
  <1>5. PipeShape /\ request.length \in Nat /\ file[row] \in Nat
    BY <1>0, RequestFacts, RowOf DEF Base
  <1>6. target = "buffer"
    <2>1. ~Answered
      BY <1>2 DEF Answered, Asked
    <2>2. CASE target = "data"
      BY <1>0, <1>2, <1>5, <2>1, <2>2 DEF WaitingOK, ForRow
    <2> QED BY <1>5, <2>2 DEF PipeShape, ReaderShape
  <1>7. ForBuffer
    BY <1>2, <1>6 DEF WaitingOK
  <1>8. Answered' \/ Refused'
    <2>1. CASE request.bytes = <<>>
      <3>1. responses' = Append(<<>>, -1)
        BY <1>2, <2>1 DEF ServeTooLong, Respond
      <3>2. responses' = <<-1>>
        BY <3>1
      <3> QED BY <1>0, <1>2, <2>1, <3>2 DEF Refused
    <2>2. CASE request.bytes # <<>>
      <3>1. responses' = Append(<<>>, Len(request.bytes))
        BY <1>2, <2>2 DEF ServeTooLong, Respond
      <3>2. responses' = <<Len(request.bytes)>>
        BY <3>1
      <3> QED BY <1>0, <1>2, <2>2, <3>2 DEF Answered, Open
    <2> QED BY <2>1, <2>2
  <1>9. ForBuffer'
    BY <1>0, <1>1, <1>7, <1>8 DEF ForBuffer
  <1>10. WaitingOK'
    BY <1>1, <1>2, <1>6, <1>9 DEF WaitingOK
  <1> QED BY <1>3, <1>4, <1>10 DEF HandOver, Waiting

\* The rows in the buffer, with one more.
LEMMA CopyAhead ==
  ASSUME Base, ServeCopy
  PROVE  Ahead'
  <1>0. /\ file' = file /\ row' = row + 1 /\ wpc = "serve" /\ UNCHANGED reader
    BY DEF ServeCopy, NextRow, WriterAt
  <1>1. Waiting /\ Ahead
    BY <1>0, Served
  <1>2. /\ PipeShape /\ request.bytes \in Seq(Bytes) /\ Len(request.bytes) \in Nat
        /\ RowEnd[row - 1] \in Nat
    BY RequestFacts DEF Base
  <1>3. /\ RowBytes(row) \in Seq(Bytes) /\ Len(RowBytes(row)) = file[row]
        /\ Run(RowBytes(row), RowEnd[row - 1]) /\ file[row] \in Nat
        /\ RowEnd[row] = RowEnd[row - 1] + file[row] /\ row \in Nat
    BY <1>0, <1>2, RowOf
  <1>4. PICK s \in Seq(Bytes) : s = request.bytes
    BY <1>2
  <1>5. PICK t \in Seq(Bytes) : t = RowBytes(row)
    BY <1>3
  <1>6. PICK a \in Nat : a = Received
    BY <1>2 DEF Received, PipeShape, ReaderShape
  <1>7. Run(s, a) /\ a + Len(s) = RowEnd[row - 1]
    BY <1>1, <1>4, <1>6 DEF Ahead, Held
  <1>8. Run(t, a + Len(s)) /\ Len(t) = file[row]
    BY <1>3, <1>5, <1>7
  <1>9. Run(s \o t, a) /\ Len(s \o t) = Len(s) + Len(t)
    BY <1>7, <1>8, Joined
  <1>10. Held' = s \o t /\ Received' = a /\ RowEnd'[row' - 1] = RowEnd[row]
    <2>1. Held' = s \o t
      BY <1>0, <1>1, <1>2, <1>4, <1>5, CopyRequest DEF Held, Waiting, reader
    <2>2. Received' = a
      BY <1>0, <1>6 DEF Received, reader
    <2>3. RowEnd'[row' - 1] = RowEnd[row]
      BY <1>0, <1>3, RowsSame
    <2> QED BY <2>1, <2>2, <2>3
  <1>11. a + Len(s \o t) = RowEnd[row]
    <2>1. PICK n \in Nat, m \in Nat : n = Len(s) /\ m = Len(t)
      OBVIOUS
    <2>2. PICK e \in Nat : e = RowEnd[row - 1]
      BY <1>2
    <2>3. a + n = e /\ Len(s \o t) = n + m /\ RowEnd[row] = e + m
      BY <1>3, <1>7, <1>8, <1>9, <2>1, <2>2
    <2>4. a + (n + m) = e + m
      BY <2>3
    <2> QED BY <2>3, <2>4
  <1>12. Run(Held', Received') /\ Received' + Len(Held') = RowEnd'[row' - 1]
    BY <1>9, <1>10, <1>11
  <1> QED BY <1>12 DEF Ahead, Run

\* The bytes handed over grow by the row that the writer leaves behind.
LEMMA ServeCopyKeeps ==
  ASSUME Base, ServeCopy
  PROVE  Stream' /\ HandOver'
  <1>0. /\ wpc = "serve" /\ wpc' = "row" /\ file' = file /\ row' = row + 1
        /\ UNCHANGED reader
    BY DEF ServeCopy, WriterAt, NextRow
  <1>1. /\ rpc' = rpc /\ target' = target /\ buflen' = buflen /\ data' = data /\ trx' = trx
        /\ eof' = eof /\ sent' = sent /\ loaded' = loaded
    BY <1>0 DEF reader
  <1>2. Waiting /\ Ahead /\ WaitingOK /\ Asked /\ requests = 0 /\ responses = <<>>
    BY <1>0, Served
  <1>3. Stream'
    BY <1>0, <1>1, StreamSame DEF Base
  <1>4. Ahead' /\ Waiting'
    BY <1>1, <1>2, CopyAhead DEF Waiting
  <1>5. /\ request'.length = request.length - file[row]
        /\ request' \in [length : Nat, bytes : Seq(Bytes)]
        /\ Len(request'.bytes) = Len(request.bytes) + file[row]
    BY CopyRequest DEF Base
  <1>6. /\ PipeShape /\ request.length \in Nat /\ Len(request.bytes) \in Nat
        /\ file[row] \in Nat \ {0} /\ row \in 1..Len(file) /\ Len(sent) \in Nat
    BY <1>0, RequestFacts, RowOf DEF Base, PipeShape, ReaderShape
  <1>7. request'.bytes # <<>>
    <2>1. Len(request'.bytes) # 0
      BY <1>5, <1>6
    <2> QED BY <2>1
  <1>8. \/ request'.length = 0 /\ Answered'
        \/ request'.length # 0 /\ Asked'
    <2>1. CASE request'.length = 0
      <3>1. responses' = Append(<<>>, Len(request'.bytes)) /\ requests' = requests
        BY <1>2, <2>1 DEF ServeCopy, Respond
      <3>2. responses' = <<Len(request'.bytes)>>
        BY <3>1
      <3> QED BY <1>0, <1>2, <1>7, <2>1, <3>1, <3>2 DEF Answered, Open
    <2>2. CASE request'.length # 0
      <3>1. responses' = responses /\ requests' = requests + 1
        BY <2>2 DEF ServeCopy
      <3>2. request'.length > 0
        BY <1>5, <2>2
      <3> QED BY <1>0, <1>2, <2>2, <3>1, <3>2 DEF Asked, Open
    <2> QED BY <2>1, <2>2
  <1>9. CASE target = "buffer"
    <2>1. data = <<>> /\ Len(sent) + Len(request.bytes) + request.length <= MaxTrx
      BY <1>2, <1>9 DEF WaitingOK, ForBuffer
    <2>2. Len(sent) + Len(request'.bytes) + request'.length <= MaxTrx
      <3>1. PICK a \in Nat, b \in Nat, n \in Nat, m \in Nat :
              /\ a = Len(sent) /\ b = Len(request.bytes) /\ n = request.length
              /\ m = file[row]
        BY <1>6
      <3>2. Len(request'.bytes) = b + m /\ request'.length = n - m
        BY <1>5, <3>1
      <3>3. a + b + n <= MaxTrx
        BY <2>1, <3>1
      <3>4. a + (b + m) + (n - m) <= MaxTrx
        BY <3>3, SizesAssumption
      <3> QED BY <3>1, <3>2, <3>4
    <2>3. ForBuffer'
      BY <1>1, <1>8, <2>1, <2>2 DEF ForBuffer
    <2>4. WaitingOK'
      BY <1>1, <1>2, <1>9, <2>3 DEF WaitingOK
    <2> QED BY <1>3, <1>4, <2>4 DEF HandOver, Waiting
  <1>10. CASE target = "data"
    <2>1. /\ sent = <<>> /\ request.bytes = <<>> /\ request.length = file[row]
      <3>1. ~Answered
        BY <1>2 DEF Answered, Asked
      <3> QED BY <1>2, <1>10, <3>1 DEF WaitingOK, ForRow
    <2>2. request'.length = 0
      BY <1>5, <1>6, <2>1
    <2>3. Answered'
      BY <1>8, <2>2
    <2>4. row' >= 2 /\ row' - 2 = row - 1
      BY <1>0, <1>6
    <2>5. Len(loaded) = RowEnd[row - 1]
      <3>1. Len(loaded) \in Nat /\ Len(sent) = 0 /\ Len(request.bytes) = 0
        BY <1>6, <2>1 DEF PipeShape, ReaderShape
      <3>2. Len(loaded) + Len(sent) + Len(request.bytes) = RowEnd[row - 1]
        BY <1>2 DEF Ahead, Held, Received
      <3> QED BY <3>1, <3>2
    <2>6. Len(loaded') = RowEnd'[row' - 2]
      BY <1>0, <1>1, <2>4, <2>5, RowsSame
    <2>7. ForRow'
      BY <1>1, <2>1, <2>3, <2>4, <2>6 DEF ForRow
    <2>8. WaitingOK'
      BY <1>1, <1>2, <1>10, <2>7 DEF WaitingOK
    <2> QED BY <1>3, <1>4, <2>8 DEF HandOver, Waiting
  <1> QED BY <1>6, <1>9, <1>10 DEF PipeShape, ReaderShape

\* Two answers, one after the other.
LEMMA AppendPair ==
  ASSUME NEW n \in Int, NEW m \in Int
  PROVE  Append(<<n>>, m) = <<n, m>>
  <1>1. PICK s : s = Append(<<n>>, m)
    OBVIOUS
  <1>2. <<n>> \in Seq(Int)
    OBVIOUS
  <1>3. s \in Seq(Int) /\ Len(s) = 2 /\ s[1] = n /\ s[2] = m
    BY <1>1, <1>2
  <1>4. PICK t : t = <<n, m>>
    OBVIOUS
  <1>5. t \in Seq(Int) /\ Len(t) = 2 /\ t[1] = n /\ t[2] = m
    BY <1>4
  <1>6. \A k \in 1..Len(s) : s[k] = t[k]
    BY <1>3, <1>5
  <1>7. s = t
    BY <1>3, <1>5, <1>6, SeqEqual
  <1> QED BY <1>1, <1>4, <1>7

\* close() answers with 0 when all rows were handed over.
LEMMA CloseKeeps ==
  ASSUME Base, Close
  PROVE  Stream' /\ HandOver'
  <1>0. /\ wpc = "close" /\ wpc' = "closed" /\ file' = file /\ row' = row
        /\ UNCHANGED reader /\ UNCHANGED <<request, pending>>
    BY DEF Close, WriterAt, WriterGoto
  <1>1. /\ rpc' = rpc /\ target' = target /\ buflen' = buflen /\ data' = data /\ trx' = trx
        /\ eof' = eof /\ sent' = sent /\ loaded' = loaded
    BY <1>0 DEF reader
  <1>2. Stream'
    BY <1>0, <1>1, StreamSame DEF Base
  <1>3. ASSUME Ahead PROVE Ahead'
    BY <1>0, <1>1, <1>3, AheadSame DEF Waiting
  <1>4. RowEnd' = RowEnd
    BY <1>0, RowsSame
  <1>5. CASE Waiting
    <2>1. Ahead /\ WaitingOK
      BY <1>5 DEF Base, HandOver
    <2>2. ~Refused /\ ~Ended
      BY <1>0 DEF Refused, Ended
    <2>3. Asked => Answered' \/ Ended'
      <3> SUFFICES ASSUME Asked PROVE Answered' \/ Ended'
        OBVIOUS
      <3>1. requests = 1 /\ responses = <<>>
        BY <1>0 DEF Asked
      <3>2. CASE request.bytes = <<>>
        <4>1. responses' = <<>> \o <<0>> /\ requests' = requests - 1
          BY <3>1, <3>2 DEF Close
        <4>2. responses' = <<0>> /\ requests' = 0
          BY <3>1, <4>1
        <4> QED BY <1>0, <3>2, <4>2 DEF Ended
      <3>3. CASE request.bytes # <<>>
        <4>1. responses' = <<>> \o <<Len(request.bytes), 0>> /\ requests' = requests - 1
          BY <3>1, <3>3 DEF Close
        <4>2. responses' = <<Len(request.bytes), 0>> /\ requests' = 0
          BY <3>1, <4>1
        <4> QED BY <1>0, <3>3, <4>2 DEF Answered
      <3> QED BY <3>2, <3>3
    <2>4. Answered => Answered'
      <3> SUFFICES ASSUME Answered PROVE Answered'
        OBVIOUS
      <3>1. requests = 0 /\ responses = <<Len(request.bytes)>> /\ request.bytes # <<>>
        BY <1>0 DEF Answered
      <3>2. responses' = Append(responses, 0) /\ requests' = requests
        BY <3>1 DEF Close, Respond
      <3>3. responses' = <<Len(request.bytes), 0>>
        <4>1. PICK n \in Nat : n = Len(request.bytes)
          BY RequestFacts DEF Base
        <4>2. Append(<<n>>, 0) = <<n, 0>>
          BY AppendPair
        <4> QED BY <3>1, <3>2, <4>1, <4>2
      <3> QED BY <1>0, <3>1, <3>2, <3>3 DEF Answered
    <2>5. target = "buffer" => ForBuffer'
      BY <1>0, <1>1, <2>1, <2>2, <2>3, <2>4 DEF WaitingOK, ForBuffer
    <2>6. target = "data" => ForRow'
      BY <1>0, <1>1, <1>4, <2>1, <2>4 DEF WaitingOK, ForRow
    <2>7. WaitingOK'
      BY <1>1, <2>1, <2>5, <2>6 DEF WaitingOK
    <2> QED BY <1>1, <1>2, <1>3, <1>5, <2>1, <2>7 DEF HandOver, Waiting
  <1>6. CASE rpc \in {"call", "commit", "done"}
    <2>1. Ahead /\ IdleOK
      BY <1>6 DEF Base, HandOver
    <2>2. requests = 0 /\ responses = <<>> /\ ~eof
      BY <1>0, <2>1 DEF IdleOK
    <2>3. responses' = Append(<<>>, 0) /\ requests' = 0
      BY <2>2 DEF Close, Respond
    <2>4. responses' = <<0>>
      BY <2>3
    <2>5. IdleOK'
      BY <1>0, <1>1, <1>4, <2>1, <2>2, <2>3, <2>4 DEF IdleOK
    <2> QED BY <1>1, <1>2, <1>3, <1>6, <2>1, <2>5 DEF HandOver, Waiting
  <1>7. CASE rpc = "failed"
    <2>1. requests = 0 /\ responses = <<>>
      BY <1>0, <1>7 DEF Base, HandOver, FailedOK
    <2>2. responses' = Append(<<>>, 0) /\ requests' = 0
      BY <2>1 DEF Close, Respond
    <2>3. Len(responses') = 1
      BY <2>2
    <2>4. FailedOK'
      BY <1>0, <2>2, <2>3 DEF FailedOK
    <2> QED BY <1>1, <1>2, <1>7, <2>4 DEF HandOver, Waiting
  <1> QED BY <1>5, <1>6, <1>7 DEF Base, PipeShape, ReaderShape, Waiting

-----------------------------------------------------------------------------
(* The hand-over: the reader *)

\* A part of a row that is alone in its transaction is sent.
LEMMA ConsumeKeeps ==
  ASSUME Base, NEW d \in Seq(Bytes), NEW n \in Nat \ {0}, Consume(d, n), d # <<>>,
         Run(d, Received), Received + Len(d) = RowEnd[row - 1],
         row >= 2, Len(loaded) = RowEnd[row - 2],
         file' = file, row' = row, loaded' = loaded
  PROVE  /\ Stream' /\ buflen' = 0
         /\ rpc' = "call" \/ (rpc' = "failed" /\ loader)
         /\ rpc' = "call" => Ahead'
         /\ RowEnd' = RowEnd
  <1>0. PipeShape /\ Stream /\ loader \in BOOLEAN
    BY DEF Base, PipeShape, FlagShape
  <1>1. PICK k \in 0..Len(d) :
          /\ k > 0
          /\ sent' \in Seq(Bytes) /\ Len(sent') = Len(sent) + k
          /\ \A a \in Nat : Run(sent, a) /\ Run(d, a + Len(sent)) => Run(sent', a)
          /\ data' \in Seq(Bytes) /\ Len(data') = Len(d) - k
          /\ \A a \in Nat : Run(d, a) => Run(data', a + k)
          /\ trx' = trx + k /\ rpc' \in {"failed", "commit", "call"} /\ buflen' = 0
          /\ loader => rpc' = "failed"
          /\ ~loader => rpc' = "call"
    BY <1>0, ConsumeFacts
  <1>2. PICK l \in Nat, s \in Nat, m \in Nat :
          l = Len(loaded) /\ s = Len(sent) /\ m = Len(d)
    BY <1>0 DEF PipeShape, ReaderShape
  <1>3. Received = l + s
    BY <1>2 DEF Received
  <1>4. RowEnd' = RowEnd
    BY RowsSame
  <1>5. Received' = l + (s + k)
    BY <1>1, <1>2 DEF Received
  <1>6. /\ row - 1 \in 1..Len(file) /\ (row - 1) - 1 = row - 2
        /\ RowEnd[row - 1] \in Nat /\ Len(file) \in Nat
    BY SMTT(30), <1>0, RequestFacts
  <1>7. Stream'
    <2>1. Run(loaded, 0) /\ Run(sent, l) /\ trx = s
          /\ \E q \in 0..Len(file) : Len(loaded) = RowEnd[q]
      BY <1>0, <1>2 DEF Stream
    <2>2. Run(sent', l)
      BY <1>1, <1>2, <1>3, <2>1
    <2>3. trx' = Len(sent')
      BY <1>1, <1>2, <2>1
    <2>4. Len(loaded) = RowEnd[(row - 1) - 1] /\ Received' <= RowEnd[row - 1]
      <3>1. l + s + m = RowEnd[row - 1] /\ k <= m /\ k \in Nat
        BY <1>1, <1>2, <1>3
      <3>2. l + (s + k) <= RowEnd[row - 1]
        BY SMTT(30), <1>2, <1>6, <3>1
      <3> QED BY <1>5, <1>6, <3>2
    <2>5. \E q \in 1..Len(file) : Len(loaded) = RowEnd[q - 1] /\ Received' <= RowEnd[q]
      BY <1>6, <2>4
    <2>6. /\ Run(loaded, 0)' /\ Run(sent, Len(loaded))'
      BY <1>2, <2>1, <2>2 DEF Run
    <2>7. (\E q \in 0..Len(file) : Len(loaded) = RowEnd[q])'
      BY <1>4, <2>1
    <2>8. (\E q \in 1..Len(file) : Len(loaded) = RowEnd[q - 1] /\ Received <= RowEnd[q])'
      BY <1>4, <2>5
    <2> QED BY <2>3, <2>6, <2>7, <2>8 DEF Stream
  <1>8. ASSUME rpc' = "call" PROVE Ahead'
    <2>1. Held' = data'
      BY <1>8 DEF Held, Waiting
    <2>2. Run(data', (l + s) + k)
      <3>1. PICK z \in Nat : z = l + s
        BY <1>2
      <3>2. Run(d, z)
        BY <1>3, <3>1
      <3>3. Run(data', z + k)
        BY <1>1, <3>1, <3>2, Zenon
      <3> QED BY <3>1, <3>3
    <2>k. k \in Nat /\ l \in Nat /\ s \in Nat /\ m \in Nat
      BY <1>1, <1>2
    <2>3. (l + s) + k = l + (s + k) /\ l + (s + k) + (m - k) = l + s + m
      BY <2>k
    <2>4. Run(data', Received') /\ Received' + Len(data') = RowEnd[row - 1]
      BY <1>1, <1>2, <1>3, <1>5, <2>2, <2>3
    <2>5. Run(Held', Received') /\ Received' + Len(Held') = RowEnd'[row' - 1]
      BY <1>4, <2>1, <2>4
    <2> QED BY <2>5 DEF Ahead, Run
  <1>9. rpc' = "call" \/ (rpc' = "failed" /\ loader)
    BY <1>0, <1>1
  <1> QED BY <1>1, <1>4, <1>7, <1>8, <1>9

\* A reader that ends its statement has sent whole rows.
LEMMA EndKeeps ==
  ASSUME Base, Return(<<>>), trx' = trx, file' = file, row' = row, loaded' = loaded,
         data' = data
  PROVE  /\ Stream' /\ sent' = sent /\ RowEnd' = RowEnd
         /\ rpc' = "commit" \/ (rpc' = "failed" /\ loader)
  <1>1. sent \in Seq(Bytes) /\ <<>> \in Seq(Bytes) /\ PipeShape /\ loader \in BOOLEAN
    BY DEF Base, PipeShape, ReaderShape, FlagShape
  <1>2. sent' = sent \o <<>>
    BY DEF Return
  <1>3. sent \o <<>> = sent
    BY <1>1
  <1>4. rpc' = "commit" \/ (rpc' = "failed" /\ loader)
    BY <1>1, ReturnFacts
  <1>5. Stream'
    BY <1>2, <1>3, StreamSame DEF Base
  <1> QED BY <1>2, <1>3, <1>4, <1>5, RowsSame

\* A reader that leaves between two reads leaves no request behind.
LEMMA IdleLeaves ==
  ASSUME IdleOK, UNCHANGED pipe, wpc' = wpc
  PROVE  FailedOK'
  <1>1. /\ requests <= 1 /\ (responses = <<>> \/ (responses = <<0>> /\ wpc = "closed"))
        /\ wpc = "closed" \/ (Open /\ requests = 0 /\ responses = <<>>)
    BY DEF IdleOK
  <1>2. Len(responses) <= 2
    <2>1. Len(responses) \in {0, 1}
      BY <1>1
    <2> QED BY <2>1
  <1> QED BY <1>1, <1>2 DEF FailedOK, Open, pipe

\* A read of what is left of a long row: no request is made.
LEMMA ReadLocalKeeps ==
  ASSUME Base, ReadLocal
  PROVE  Stream' /\ HandOver'
  <1>0. /\ rpc = "call" /\ data # <<>> /\ UNCHANGED pipe /\ UNCHANGED writer
        /\ file' = file /\ row' = row /\ loaded' = loaded /\ eof' = eof /\ wpc' = wpc
    BY DEF ReadLocal, ReaderAt, writer
  <1>1. PICK n \in Nat \ {0} : Consume(data, n)
    BY SizesAssumption DEF ReadLocal
  <1>2. Ahead /\ IdleOK
    BY <1>0 DEF Base, HandOver
  <1>3. Run(data, Received) /\ Received + Len(data) = RowEnd[row - 1]
    BY <1>0, <1>2 DEF Ahead, Held, Waiting
  <1>4. row >= 2 /\ Len(loaded) = RowEnd[row - 2] /\ data \in Seq(Bytes)
    BY <1>0, <1>2 DEF IdleOK, Base, PipeShape, ReaderShape
  <1>5. /\ Stream' /\ (rpc' = "call" \/ (rpc' = "failed" /\ loader))
        /\ rpc' = "call" => Ahead'
        /\ RowEnd' = RowEnd
    BY <1>0, <1>1, <1>3, <1>4, ConsumeKeeps
  <1>6. CASE rpc' = "call"
    <2>1. IdleOK'
      BY <1>0, <1>2, <1>4, <1>5, <1>6 DEF IdleOK, Open, pipe
    <2> QED BY <1>5, <1>6, <2>1 DEF HandOver, Waiting
  <1>7. CASE rpc' = "failed" /\ loader
    <2>1. FailedOK'
      BY <1>0, <1>2, <1>7, IdleLeaves
    <2> QED BY <1>5, <1>7, <2>1 DEF HandOver, Waiting
  <1> QED BY <1>5, <1>6, <1>7

\* A full transaction ends its statement with nothing left to send.
LEMMA ReadFullKeeps ==
  ASSUME Base, ReadFull
  PROVE  Stream' /\ HandOver'
  <1>0. /\ rpc = "call" /\ data = <<>> /\ UNCHANGED pipe /\ UNCHANGED writer /\ trx' = trx
        /\ file' = file /\ row' = row /\ loaded' = loaded /\ eof' = eof /\ wpc' = wpc
        /\ Return(<<>>) /\ data' = data
    BY DEF ReadFull, ReaderAt, writer
  <1>1. /\ Stream' /\ sent' = sent /\ RowEnd' = RowEnd
        /\ rpc' = "commit" \/ (rpc' = "failed" /\ loader)
    BY <1>0, EndKeeps
  <1>2. Ahead /\ IdleOK
    BY <1>0 DEF Base, HandOver
  <1>3. CASE rpc' = "commit"
    <2>1. IdleOK'
      BY <1>0, <1>2, <1>3 DEF IdleOK, Open, pipe
    <2>2. Ahead'
      BY <1>0, <1>1, <1>2, <1>3, AheadSame DEF Waiting, pipe
    <2> QED BY <1>1, <1>3, <2>1, <2>2 DEF HandOver, Waiting
  <1>4. CASE rpc' = "failed" /\ loader
    <2>1. FailedOK'
      BY <1>0, <1>2, <1>4, IdleLeaves
    <2> QED BY <1>1, <1>4, <2>1 DEF HandOver, Waiting
  <1> QED BY <1>1, <1>3, <1>4

\* The request of the reader is the only one, and fits the transaction.
LEMMA ReadFileKeeps ==
  ASSUME Base, ReadFile
  PROVE  Stream' /\ HandOver'
  <1>0. /\ rpc = "call" /\ data = <<>> /\ responses' = responses /\ UNCHANGED writer
        /\ trx' = trx /\ sent' = sent /\ file' = file /\ row' = row /\ loaded' = loaded
        /\ eof' = eof /\ wpc' = wpc /\ data' = data /\ trx < MaxTrx
    BY DEF ReadFile, ReaderAt, writer
  <1>1. PICK n \in BufLens : buflen' = n /\ Request(Shorter(n, MaxTrx - trx), "buffer")
    BY DEF ReadFile
  <1>2. PICK l \in Nat \ {0} : l = Shorter(n, MaxTrx - trx) /\ trx + l <= MaxTrx
    BY <1>0, Offered DEF Base
  <1>3. /\ request' = [length |-> l, bytes |-> <<>>] /\ requests' = requests + 1
        /\ rpc' = "check" /\ target' = "buffer"
    BY <1>1, <1>2 DEF Request
  <1>4. request'.length = l /\ request'.bytes = <<>> /\ Len(request'.bytes) = 0
    BY <1>3
  <1>5. Ahead /\ IdleOK
    BY <1>0 DEF Base, HandOver
  <1>6. Stream'
    BY <1>0, StreamSame DEF Base
  <1>7. Ahead'
    <2>1. Held' = <<>> /\ Held = <<>> /\ Received' = Received /\ RowEnd' = RowEnd
      BY <1>0, <1>3, <1>4, RowsSame DEF Held, Waiting, Received
    <2> QED BY <1>0, <1>5, <2>1 DEF Ahead, Run
  <1>8. requests = 0 /\ ~eof /\ ((responses = <<>> /\ Open) \/ (responses = <<0>> /\ wpc = "closed"))
    BY <1>0, <1>5 DEF IdleOK
  <1>9. Asked' \/ Ended'
    <2>1. CASE responses = <<>> /\ Open
      BY <1>0, <1>2, <1>3, <1>4, <1>8, <2>1 DEF Asked, Open
    <2>2. CASE responses = <<0>> /\ wpc = "closed"
      BY <1>0, <1>3, <1>4, <1>8, <2>2 DEF Ended
    <2> QED BY <1>8, <2>1, <2>2
  <1>10. Len(sent) + 0 + l <= MaxTrx
    <2>1. trx = Len(sent) /\ trx \in Nat
      BY DEF Base, Stream, PipeShape, ReaderShape
    <2> QED BY <1>2, <2>1
  <1>11. ForBuffer'
    BY <1>0, <1>4, <1>9, <1>10 DEF ForBuffer
  <1>12. WaitingOK'
    <2>1. buflen' # 0
      BY <1>1, SizesAssumption
    <2> QED BY <1>0, <1>3, <1>8, <1>11, <2>1 DEF WaitingOK
  <1> QED BY <1>3, <1>6, <1>7, <1>12 DEF HandOver, Waiting

\* The reader turns in its loop.
LEMMA ReadTurns ==
  ASSUME Base, rpc \in {"check", "pop"}, rpc' \in {"check", "pop"}, file' = file,
         UNCHANGED pipe, UNCHANGED writer,
         UNCHANGED <<target, buflen, data, trx, eof, sent, loaded>>
  PROVE  Stream' /\ HandOver'
  <1>0. /\ row' = row /\ wpc' = wpc /\ requests' = requests /\ responses' = responses
        /\ request' = request /\ RowEnd' = RowEnd
    BY RowsSame DEF writer, pipe
  <1>1. Waiting /\ Waiting' /\ Ahead /\ WaitingOK
    BY DEF Base, HandOver, Waiting
  <1>2. Stream'
    BY StreamSame DEF Base
  <1>3. Ahead'
    BY <1>0, <1>1, AheadSame
  <1>4. (Asked => Asked') /\ (Answered => Answered') /\ (Refused => Refused') /\ (Ended => Ended')
    BY <1>0 DEF Asked, Answered, Refused, Ended, Open
  <1>5. target = "buffer" => ForBuffer'
    BY <1>0, <1>1, <1>4 DEF WaitingOK, ForBuffer
  <1>6. target = "data" => ForRow'
    BY <1>0, <1>1, <1>4 DEF WaitingOK, ForRow
  <1>7. WaitingOK'
    BY <1>1, <1>5, <1>6 DEF WaitingOK
  <1> QED BY <1>1, <1>2, <1>3, <1>7 DEF HandOver, Waiting

\* A reader that is interrupted without ^C has lost its writer.
LEMMA ReadCheckKeeps ==
  ASSUME Base, ReadCheck \/ ReadTimeout
  PROVE  Stream' /\ HandOver'
  <1>1. CASE ReadTimeout
    BY <1>1, ReadTurns DEF ReadTimeout, ReaderAt
  <1>2. CASE ReadCheck /\ ~fs
    BY <1>2, ReadTurns DEF ReadCheck, ReaderAt
  <1>3. CASE ReadCheck /\ fs
    <2>0. /\ rpc = "check" /\ UNCHANGED pipe /\ UNCHANGED writer /\ trx' = trx
          /\ file' = file /\ row' = row /\ loaded' = loaded /\ wpc' = wpc
          /\ Return(<<>>) /\ data' = data
      BY <1>3 DEF ReadCheck, ReaderAt, writer
    <2>1. wpc \in {"closed", "gone"} /\ loader
      BY <1>3, <2>0, FlagsTell DEF Base, WriterDone
    <2>2. Stream'
      BY <2>0, EndKeeps
    <2>3. rpc' = "failed"
      BY <2>0, <2>1 DEF Return
    <2>4. WaitingOK
      BY <2>0 DEF Base, HandOver, Waiting
    <2>5. requests <= 1 /\ Len(responses) <= 2
      <3>1. Asked \/ Answered \/ Ended
        BY <2>1, <2>4 DEF WaitingOK, ForBuffer, ForRow, Refused, Base, PipeShape,
                          ReaderShape
      <3>2. requests <= 1
        BY <3>1 DEF Asked, Answered, Ended
      <3>3. \/ responses = <<>> \/ responses = <<Len(request.bytes)>>
            \/ responses = <<Len(request.bytes), 0>> \/ responses = <<0>>
        BY <3>1 DEF Asked, Answered, Ended
      <3>4. Len(responses) <= 2
        BY <3>3, Lengths
      <3> QED BY <3>2, <3>4
    <2>6. FailedOK'
      BY <2>0, <2>1, <2>5 DEF FailedOK, pipe
    <2> QED BY <2>2, <2>3, <2>6 DEF HandOver, Waiting
  <1> QED BY <1>1, <1>2, <1>3

\* What the answer says.
LEMMA HeadTells ==
  ASSUME Base, rpc = "pop", responses # <<>>
  PROVE  /\ Ahead /\ WaitingOK
         /\ \/ /\ Answered /\ Head(responses) = Len(request.bytes) /\ Head(responses) > 0
               /\ \/ Tail(responses) = <<>> /\ Open
                  \/ Tail(responses) = <<0>> /\ wpc = "closed"
            \/ /\ Refused /\ Head(responses) = -1 /\ Tail(responses) = <<>>
               /\ target = "buffer"
            \/ /\ Ended /\ Head(responses) = 0 /\ Tail(responses) = <<>>
               /\ target = "buffer"
  <1>1. Ahead /\ WaitingOK
    BY DEF Base, HandOver, Waiting
  <1>2. target \in {"buffer", "data"} /\ Len(request.bytes) \in Nat
        /\ (Len(request.bytes) = 0 <=> request.bytes = <<>>)
    BY RequestFacts DEF Base, PipeShape, ReaderShape
  <1>3. ~Asked
    BY DEF Asked
  <1>4. Answered \/ (Refused /\ target = "buffer") \/ (Ended /\ target = "buffer")
    BY <1>1, <1>2, <1>3 DEF WaitingOK, ForBuffer, ForRow
  <1>5. PICK n \in Nat : n = Len(request.bytes)
    BY <1>2
  <1>6. CASE Answered
    <2>1. n > 0
      BY <1>2, <1>5, <1>6 DEF Answered
    <2>2. CASE responses = <<n>> /\ Open
      <3>1. Head(responses) = n /\ Tail(responses) = <<>>
        BY <2>2
      <3> QED BY <1>1, <1>5, <1>6, <2>1, <2>2, <3>1
    <2>3. CASE responses = <<n, 0>> /\ wpc = "closed"
      <3>1. Head(responses) = n /\ Tail(responses) = <<0>>
        BY <2>3
      <3> QED BY <1>1, <1>5, <1>6, <2>1, <2>3, <3>1
    <2> QED BY <1>5, <1>6, <2>2, <2>3 DEF Answered
  <1>7. CASE Refused /\ target = "buffer"
    <2>1. responses = <<-1>>
      BY <1>7 DEF Refused
    <2>2. Head(responses) = -1 /\ Tail(responses) = <<>>
      BY <2>1
    <2> QED BY <1>1, <1>7, <2>2
  <1>8. CASE Ended /\ target = "buffer"
    <2>1. responses = <<0>>
      BY <1>8 DEF Ended
    <2>2. Head(responses) = 0 /\ Tail(responses) = <<>>
      BY <2>1
    <2> QED BY <1>1, <1>8, <2>2
  <1> QED BY <1>4, <1>6, <1>7, <1>8

\* Rows arrive in the buffer of the client library.
LEMMA RowsArrive ==
  ASSUME Base, ReadResponse, Head(responses) > 0
  PROVE  Stream' /\ HandOver'
  <1>0. /\ rpc = "pop" /\ target = "buffer" /\ responses # <<>>
        /\ responses' = Tail(responses) /\ file' = file /\ UNCHANGED writer
        /\ row' = row /\ wpc' = wpc /\ loaded' = loaded
    BY DEF ReadResponse, ReaderAt, writer
  <1>1. Head(responses) \in Int /\ PipeShape
    BY <1>0, Answer DEF Base
  <1>2. /\ Return(request.bytes) /\ trx' = trx + Head(responses)
        /\ requests' = requests /\ request' = request /\ data' = data /\ eof' = eof
    BY <1>1 DEF ReadResponse
  <1>3. /\ Ahead /\ WaitingOK /\ Answered /\ Head(responses) = Len(request.bytes)
        /\ (Tail(responses) = <<>> /\ Open) \/ (Tail(responses) = <<0>> /\ wpc = "closed")
    BY <1>0, <1>1, HeadTells
  <1>4. /\ ~eof /\ data = <<>> /\ request.bytes # <<>> /\ requests = 0
        /\ Len(sent) + Len(request.bytes) + request.length <= MaxTrx
    BY <1>0, <1>3 DEF WaitingOK, ForBuffer, Answered
  <1>5. PICK l \in Nat, s \in Nat, b \in Nat :
          l = Len(loaded) /\ s = Len(sent) /\ b = Len(request.bytes)
    BY <1>1, RequestFacts DEF PipeShape, ReaderShape
  <1>6. /\ Run(request.bytes, l + s) /\ l + s + b = RowEnd[row - 1]
    BY <1>0, <1>3, <1>5 DEF Ahead, Held, Waiting, Received
  <1>7. /\ sent' \in Seq(Bytes) /\ Len(sent') = s + b
        /\ \A a \in Nat : Run(sent, a) /\ Run(request.bytes, a + s) => Run(sent', a)
        /\ loader => rpc' = "failed"
        /\ ~loader => rpc' = "call"
    BY <1>1, <1>2, <1>4, <1>5, RequestFacts, ReturnFacts
  <1>8. RowEnd' = RowEnd
    BY <1>0, RowsSame
  <1>9. Stream'
    <2>1. Run(loaded, 0) /\ Run(sent, l) /\ trx = s
          /\ \E q \in 0..Len(file) : Len(loaded) = RowEnd[q]
      BY <1>5 DEF Base, Stream
    <2>2. Run(sent', l)
      BY <1>5, <1>6, <1>7, <2>1
    <2>3. trx' = Len(sent')
      BY <1>2, <1>3, <1>5, <1>7, <2>1
    <2>4. Len(sent') <= MaxTrx
      <3>1. s + b + request.length <= MaxTrx /\ request.length \in Nat /\ MaxTrx \in Nat
        BY <1>1, <1>4, <1>5, RequestFacts, SizesAssumption
      <3>2. s + b <= MaxTrx
        BY <1>5, <3>1
      <3> QED BY <1>7, <3>2
    <2>5. Run(loaded, 0)' /\ Run(sent, Len(loaded))'
      BY <1>0, <1>5, <2>1, <2>2 DEF Run
    <2>6. (\E q \in 0..Len(file) : Len(loaded) = RowEnd[q])'
      BY <1>0, <1>8, <2>1
    <2> QED BY <2>3, <2>4, <2>5, <2>6 DEF Stream
  <1>10. CASE loader
    <2>1. rpc' = "failed" /\ wpc \in {"closed", "gone"}
      BY <1>7, <1>10, FlagsTell DEF Base, WriterDone
    <2>2. responses' = <<>> \/ responses' = <<0>>
      BY <1>0, <1>3, <2>1
    <2>3. Len(responses') <= 2
      BY <2>2, Lengths
    <2>4. requests' = 0 /\ wpc' = wpc
      BY <1>0, <1>2, <1>4, <2>1
    <2>5. FailedOK'
      BY <2>1, <2>3, <2>4 DEF FailedOK
    <2> QED BY <1>9, <2>1, <2>5 DEF HandOver, Waiting
  <1>11. CASE ~loader
    <2>1. rpc' = "call"
      BY <1>7, <1>11
    <2>2. Held' = <<>> /\ Len(Held') = 0
      BY <1>2, <1>4, <2>1 DEF Held, Waiting
    <2>3. Received' = l + (s + b)
      BY <1>0, <1>5, <1>7 DEF Received
    <2>k. l \in Nat /\ s \in Nat /\ b \in Nat
      BY <1>5
    <2>4. l + (s + b) + 0 = l + s + b
      BY <2>k
    <2>5. Received' + Len(Held') = RowEnd'[row' - 1]
      BY <1>0, <1>6, <1>8, <2>2, <2>3, <2>4
    <2>6. Ahead'
      BY <2>2, <2>5 DEF Ahead, Run
    <2>7. IdleOK'
      BY <1>0, <1>2, <1>3, <1>4, <2>1 DEF IdleOK, Open
    <2> QED BY <1>9, <2>1, <2>6, <2>7 DEF HandOver, Waiting
  <1> QED BY <1>10, <1>11

\* The end of the file.
LEMMA EndArrives ==
  ASSUME Base, ReadResponse, Head(responses) = 0
  PROVE  Stream' /\ HandOver'
  <1>0. /\ rpc = "pop" /\ target = "buffer" /\ responses # <<>>
        /\ responses' = Tail(responses) /\ file' = file /\ UNCHANGED writer
        /\ row' = row /\ wpc' = wpc /\ loaded' = loaded
        /\ Return(<<>>) /\ trx' = trx /\ requests' = requests /\ request' = request
        /\ data' = data /\ eof' = TRUE
    BY DEF ReadResponse, ReaderAt, writer
  <1>1. Ahead /\ WaitingOK /\ Ended /\ Tail(responses) = <<>>
    BY <1>0, HeadTells
  <1>2. /\ Stream' /\ sent' = sent /\ RowEnd' = RowEnd
        /\ rpc' = "commit" \/ (rpc' = "failed" /\ loader)
    BY <1>0, EndKeeps
  <1>3. wpc = "closed" /\ requests <= 1 /\ data = <<>> /\ request.bytes = <<>>
    BY <1>0, <1>1 DEF Ended, WaitingOK, ForBuffer
  <1>4. CASE rpc' = "commit"
    <2>1. Held' = <<>> /\ Held = <<>> /\ Received' = Received
      BY <1>0, <1>2, <1>3, <1>4 DEF Held, Waiting, Received
    <2>2. Ahead'
      BY <1>0, <1>1, <1>2, <2>1 DEF Ahead, Run
    <2>3. IdleOK'
      BY <1>0, <1>1, <1>3, <1>4 DEF IdleOK
    <2> QED BY <1>2, <1>4, <2>2, <2>3 DEF HandOver, Waiting
  <1>5. CASE rpc' = "failed"
    <2>1. responses' = <<>> /\ wpc' = "closed" /\ requests' <= 1
      BY <1>0, <1>1, <1>3
    <2>2. Len(responses') <= 2
      BY <2>1, Lengths
    <2>3. FailedOK'
      BY <2>1, <2>2 DEF FailedOK
    <2> QED BY <1>2, <1>5, <2>3 DEF HandOver, Waiting
  <1> QED BY <1>2, <1>4, <1>5

\* The row does not fit.
LEMMA RefusalArrives ==
  ASSUME Base, ReadResponse, Head(responses) < 0
  PROVE  Stream' /\ HandOver'
  <1>0. /\ rpc = "pop" /\ target = "buffer" /\ responses # <<>>
        /\ responses' = Tail(responses) /\ file' = file /\ UNCHANGED writer
        /\ row' = row /\ wpc' = wpc /\ loaded' = loaded
    BY DEF ReadResponse, ReaderAt, writer
  <1>1. Head(responses) \in Int /\ PipeShape /\ loader \in BOOLEAN
    BY <1>0, Answer DEF Base, PipeShape, FlagShape
  <1>2. FetchRow
    BY <1>1 DEF ReadResponse
  <1>3. Ahead /\ WaitingOK /\ Refused /\ Tail(responses) = <<>>
    <2>1. Len(request.bytes) \in Nat
      BY <1>1, RequestFacts
    <2> QED BY <1>0, <1>1, <2>1, HeadTells
  <1>4. /\ wpc \in {"check", "pop"} /\ requests = 0 /\ data = <<>> /\ request.bytes = <<>>
        /\ ~eof /\ buflen # 0
    BY <1>0, <1>3 DEF Refused, WaitingOK, ForBuffer
  <1>5. ~loader
    BY <1>4, FlagsTell DEF Base, WriterDone
  <1>6. CASE trx > 0
    <2>0. /\ Return(<<>>) /\ trx' = trx /\ requests' = requests /\ request' = request
          /\ data' = data /\ eof' = eof
      BY <1>2, <1>6 DEF FetchRow
    <2>1. /\ Stream' /\ sent' = sent /\ RowEnd' = RowEnd
          /\ rpc' = "commit" \/ (rpc' = "failed" /\ loader)
      BY <1>0, <2>0, EndKeeps
    <2>2. rpc' = "commit"
      BY <1>5, <2>1
    <2>3. Held' = <<>> /\ Held = <<>> /\ Received' = Received
      BY <1>0, <1>4, <2>0, <2>1, <2>2 DEF Held, Waiting, Received
    <2>4. Ahead'
      BY <1>0, <1>3, <2>1, <2>3 DEF Ahead, Run
    <2>5. IdleOK'
      BY <1>0, <1>3, <1>4, <2>0, <2>2 DEF IdleOK, Open
    <2> QED BY <2>1, <2>2, <2>4, <2>5 DEF HandOver, Waiting
  <1>7. CASE ~(trx > 0)
    <2>0. /\ Request(pending, "data") /\ buflen' = buflen /\ trx' = trx /\ eof' = eof
          /\ sent' = sent
      BY <1>2, <1>7 DEF FetchRow
    <2>1. pending = file[row] /\ file[row] \in Nat \ {0}
      BY <1>1, <1>4, RowOf
    <2>2. /\ request' = [length |-> file[row], bytes |-> <<>>] /\ requests' = requests + 1
          /\ rpc' = "check" /\ target' = "data"
      BY <2>0, <2>1 DEF Request
    <2>3. request'.length = file[row] /\ request'.bytes = <<>>
      BY <2>2
    <2>4. Stream'
      BY <1>0, <2>0, StreamSame DEF Base
    <2>5. Held' = <<>> /\ Held = <<>> /\ Received' = Received /\ RowEnd' = RowEnd
      BY <1>0, <1>4, <2>0, <2>2, <2>3, RowsSame DEF Held, Waiting, Received
    <2>6. Ahead'
      BY <1>0, <1>3, <2>5 DEF Ahead, Run
    <2>7. sent = <<>>
      <3>1. trx = Len(sent) /\ trx \in Nat /\ sent \in Seq(Bytes)
        BY DEF Base, Stream, PipeShape, ReaderShape
      <3>2. Len(sent) = 0
        BY <1>7, <3>1
      <3> QED BY <3>1, <3>2
    <2>8. Asked' /\ wpc' \in {"check", "pop", "serve"}
      BY <1>0, <1>3, <1>4, <2>1, <2>2, <2>3 DEF Asked, Open
    <2>9. ForRow'
      BY <1>0, <2>0, <2>3, <2>7, <2>8 DEF ForRow
    <2>10. WaitingOK'
      BY <1>4, <2>0, <2>2, <2>9 DEF WaitingOK
    <2> QED BY <2>2, <2>4, <2>6, <2>10 DEF HandOver, Waiting
  <1> QED BY <1>6, <1>7

\* An answer ends the wait: bytes, a row that is too long, or the end.
LEMMA ReadResponseKeeps ==
  ASSUME Base, ReadResponse
  PROVE  Stream' /\ HandOver'
  <1>1. Head(responses) \in Int
    BY Answer DEF ReadResponse, Base
  <1> QED BY <1>1, RowsArrive, EndArrives, RefusalArrives

\* The row that did not fit arrives.
LEMMA ReadRowResponseKeeps ==
  ASSUME Base, ReadRowResponse
  PROVE  Stream' /\ HandOver'
  <1>0. /\ rpc = "pop" /\ target = "data" /\ responses # <<>>
        /\ responses' = Tail(responses) /\ file' = file /\ UNCHANGED writer
        /\ row' = row /\ wpc' = wpc /\ loaded' = loaded /\ requests' = requests /\ eof' = eof
    BY DEF ReadRowResponse, ReaderAt, writer
  <1>1. PipeShape /\ request.bytes \in Seq(Bytes) /\ Len(request.bytes) \in Nat
    BY RequestFacts DEF Base
  <1>2. /\ Ahead /\ WaitingOK /\ Answered /\ Head(responses) = Len(request.bytes)
        /\ Head(responses) > 0
        /\ (Tail(responses) = <<>> /\ Open) \/ (Tail(responses) = <<0>> /\ wpc = "closed")
    BY <1>0, HeadTells
  <1>3. Consume(request.bytes, buflen)
    BY <1>1, <1>2 DEF ReadRowResponse
  <1>4. /\ requests = 0 /\ request.bytes # <<>> /\ buflen # 0 /\ ~eof
        /\ row >= 2 /\ Len(loaded) = RowEnd[row - 2]
    <2>1. ~Asked
      BY <1>0 DEF Asked
    <2> QED BY <1>0, <1>2, <2>1 DEF WaitingOK, ForRow, Answered
  <1>5. Run(request.bytes, Received) /\ Received + Len(request.bytes) = RowEnd[row - 1]
    BY <1>0, <1>2 DEF Ahead, Held, Waiting
  <1>6. buflen \in Nat \ {0}
    BY <1>1, <1>4, SizesAssumption DEF PipeShape, ReaderShape
  <1>7. /\ Stream' /\ (rpc' = "call" \/ (rpc' = "failed" /\ loader))
        /\ rpc' = "call" => Ahead'
        /\ RowEnd' = RowEnd
    BY <1>0, <1>1, <1>3, <1>4, <1>5, <1>6, ConsumeKeeps
  <1>8. CASE rpc' = "call"
    <2>1. IdleOK'
      BY <1>0, <1>2, <1>4, <1>7, <1>8 DEF IdleOK, Open
    <2> QED BY <1>7, <1>8, <2>1 DEF HandOver, Waiting
  <1>9. CASE rpc' = "failed" /\ loader
    <2>1. wpc \in {"closed", "gone"}
      BY <1>9, FlagsTell DEF Base, WriterDone
    <2>2. responses' = <<>> \/ responses' = <<0>>
      BY <1>0, <1>2
    <2>3. Len(responses') <= 2
      BY <2>2, Lengths
    <2>4. FailedOK'
      BY <1>0, <1>4, <2>1, <2>3 DEF FailedOK
    <2> QED BY <1>7, <1>9, <2>4 DEF HandOver, Waiting
  <1> QED BY <1>7, <1>8, <1>9

\* A statement commits rows that are complete.
LEMMA CommitKeeps ==
  ASSUME Base, Commit
  PROVE  Stream' /\ HandOver'
  <1>0. /\ rpc = "commit" /\ loaded' = loaded \o sent /\ sent' = <<>> /\ trx' = 0
        /\ rpc' = (IF eof /\ data = <<>> THEN "done" ELSE "call")
        /\ file' = file /\ UNCHANGED pipe /\ UNCHANGED writer /\ data' = data /\ eof' = eof
        /\ wpc' = wpc /\ row' = row
    BY DEF Commit, ReaderAt, writer
  <1>1. Ahead /\ IdleOK
    BY <1>0 DEF Base, HandOver
  <1>2. data = <<>>
    BY <1>0, <1>1 DEF IdleOK
  <1>3. loaded \in Seq(Bytes) /\ sent \in Seq(Bytes) /\ PipeShape
    BY DEF Base, PipeShape, ReaderShape
  <1>4. /\ loaded \o sent \in Seq(Bytes) /\ Len(loaded \o sent) = Len(loaded) + Len(sent)
        /\ \A a \in Nat : Run(loaded, a) /\ Run(sent, a + Len(loaded)) => Run(loaded \o sent, a)
    BY <1>3, Joined
  <1>5. PICK l \in Nat, s \in Nat : l = Len(loaded) /\ s = Len(sent)
    BY <1>3
  <1>6. Held = <<>> /\ Len(Held) = 0
    BY <1>0, <1>2 DEF Held, Waiting
  <1>7. l + s = RowEnd[row - 1] /\ Len(loaded') = l + s
    <2>1. l + s + 0 = RowEnd[row - 1]
      BY <1>1, <1>5, <1>6 DEF Ahead, Received
    <2>2. l + s + 0 = l + s
      BY <1>5
    <2> QED BY <1>0, <1>4, <1>5, <2>1, <2>2
  <1>8. RowEnd' = RowEnd
    BY <1>0, RowsSame
  <1>9. Stream'
    <2>1. Run(loaded', 0)
      <3>1. Run(loaded, 0) /\ Run(sent, 0 + l)
        BY <1>5 DEF Base, Stream
      <3> QED BY <1>0, <1>4, <1>5, <3>1
    <2>2. Len(sent') = 0 /\ Run(sent', Len(loaded'))
      BY <1>0 DEF Run
    <2>3. row - 1 \in 0..Len(file) /\ Len(loaded') = RowEnd'[row - 1]
      BY <1>3, <1>7, <1>8, RequestFacts
    <2>4. (\E q \in 0..Len(file) : Len(loaded) = RowEnd[q])'
      BY <1>0, <2>3
    <2>5. Run(loaded, 0)' /\ Run(sent, Len(loaded))'
      BY <2>1, <2>2 DEF Run
    <2>6. trx' = Len(sent') /\ Len(sent') <= MaxTrx
      BY <1>0, <2>2, SizesAssumption
    <2> QED BY <2>4, <2>5, <2>6 DEF Stream
  <1>10. Ahead'
    <2>1. Held' = <<>> /\ Len(Held') = 0
      BY <1>0, <1>2 DEF Held, Waiting
    <2>2. Len(sent') = 0
      BY <1>0
    <2>3. Received' = l + s + 0
      BY <1>7, <2>2 DEF Received
    <2>4. l + s + 0 + 0 = l + s
      BY <1>5
    <2>5. Received' + Len(Held') = RowEnd'[row' - 1]
      BY <1>0, <1>7, <1>8, <2>1, <2>3, <2>4
    <2> QED BY <2>1, <2>5 DEF Ahead, Run
  <1>11. rpc' \in {"call", "done"} /\ (rpc' = "done" <=> eof)
    BY <1>0, <1>2
  <1>12. IdleOK'
    BY <1>0, <1>1, <1>2, <1>11 DEF IdleOK, Open, pipe
  <1> QED BY <1>9, <1>10, <1>11, <1>12 DEF HandOver, Waiting

\* A statement fails at its end or between two reads.
LEMMA ReaderFailsKeeps ==
  ASSUME Base, ReaderFails
  PROVE  Stream' /\ HandOver'
  <1>0. /\ rpc \in {"call", "commit"} /\ rpc' = "failed" /\ file' = file /\ UNCHANGED pipe
        /\ wpc' = wpc /\ sent' = sent /\ loaded' = loaded /\ trx' = trx
    BY DEF ReaderFails, LoaderBreaks, writer
  <1>1. Stream'
    BY <1>0, StreamSame DEF Base
  <1>2. IdleOK
    BY <1>0 DEF Base, HandOver
  <1>3. FailedOK'
    BY <1>0, <1>2, IdleLeaves
  <1> QED BY <1>0, <1>1, <1>3 DEF HandOver, Waiting

\* ^C, a failure elsewhere and the flags leave the pipe alone.
LEMMA SignalKeeps ==
  ASSUME Base, OtherFails \/ Interrupt \/ Throws \/ Signal \/ UNCHANGED pipeVars
  PROVE  Stream' /\ HandOver'
  <1>0. /\ file' = file /\ requests' = requests /\ responses' = responses
        /\ request' = request /\ wpc' = wpc /\ row' = row /\ rpc' = rpc /\ target' = target
        /\ buflen' = buflen /\ data' = data /\ trx' = trx /\ eof' = eof /\ sent' = sent
        /\ loaded' = loaded
    BY DEF OtherFails, DumperBreaks, Interrupt, Throws, Signal, pipeVars, pipe, writer, reader
  <1>1. RowEnd' = RowEnd
    BY <1>0, RowsSame
  <1>2. Stream'
    BY <1>0, StreamSame DEF Base
  <1>3. ASSUME Ahead PROVE Ahead'
    BY <1>0, <1>3, AheadSame DEF Waiting
  <1>4. CASE Waiting
    <2>1. rpc \in {"check", "pop"} /\ rpc' \in {"check", "pop"}
      BY <1>0, <1>4 DEF Waiting
    <2>2. UNCHANGED pipe /\ UNCHANGED writer
      BY DEF OtherFails, DumperBreaks, Interrupt, Throws, Signal, pipeVars
    <2>3. UNCHANGED <<target, buflen, data, trx, eof, sent, loaded>>
      BY <1>0
    <2> QED BY <1>0, <2>1, <2>2, <2>3, ReadTurns
  <1>5. CASE rpc \in {"call", "commit", "done"}
    <2>1. Ahead /\ IdleOK
      BY <1>5 DEF Base, HandOver
    <2>2. IdleOK'
      BY <1>0, <1>1, <2>1 DEF IdleOK, Open
    <2> QED BY <1>0, <1>2, <1>3, <1>5, <2>1, <2>2 DEF HandOver, Waiting
  <1>6. CASE rpc = "failed"
    <2>1. FailedOK'
      BY <1>0, <1>6 DEF Base, HandOver, FailedOK
    <2> QED BY <1>0, <1>2, <1>6, <2>1 DEF HandOver, Waiting
  <1> QED BY <1>4, <1>5, <1>6 DEF Base, PipeShape, ReaderShape, Waiting

\* Every step before ^C takes effect keeps the request in one place.
LEMMA HandOverKept ==
  ASSUME Base, [PipeNext]_pipeVars
  PROVE  Stream' /\ HandOver'
  BY WriteRowKeeps, WriteCheckKeeps, WritePopKeeps, ServeTooLongKeeps, ServeCopyKeeps,
     CloseKeeps, ReadLocalKeeps, ReadFullKeeps, ReadFileKeeps, ReadCheckKeeps,
     ReadResponseKeeps, ReadRowResponseKeeps, CommitKeeps, ReaderFailsKeeps, SignalKeeps
     DEF PipeNext, WriterStep, ReaderStep

-----------------------------------------------------------------------------
(* Theorems *)

\* The invariant holds at the beginning.
LEMMA PipeInvInit == PipeInit => PipeInv
  <1> SUFFICES ASSUME PipeInit PROVE PipeInv
    OBVIOUS
  <1>1. PipeShape
    BY ShapeInit
  <1>2. FlagsOrdered
    BY DEF PipeInit, FlagsOrdered, Quiet
  <1>3. /\ file \in Files /\ Len(file) \in Nat /\ RowEnd[0] = 0 /\ row - 1 = 0
        /\ loaded = <<>> /\ sent = <<>> /\ data = <<>> /\ trx = 0 /\ rpc = "call"
    BY RowFacts DEF PipeInit
  <1>4. Len(loaded) = 0 /\ Len(sent) = 0
    BY <1>3
  <1>5. Stream
    BY <1>3, <1>4, SizesAssumption DEF Stream, Run
  <1>6. Ahead
    BY <1>3, <1>4 DEF Ahead, Held, Waiting, Received, Run
  <1>7. IdleOK
    BY <1>3 DEF PipeInit, IdleOK, Open
  <1>8. HandOver
    BY <1>3, <1>6, <1>7 DEF HandOver, Waiting
  <1> QED BY <1>1, <1>2, <1>5, <1>8 DEF PipeInv

\* The invariant of the pipe: types, the order of the flags, the bytes that the
\* target has, the bytes that were handed over, and where the request is.
THEOREM PipeInductive == PipeSpec => []PipeInv
  <1>1. PipeInit => PipeInv
    BY PipeInvInit
  <1>2. PipeInv /\ [PipeNext]_pipeVars => PipeInv'
    <2> SUFFICES ASSUME PipeInv, [PipeNext]_pipeVars PROVE PipeInv'
      OBVIOUS
    <2>1. PipeShape /\ FlagsOrdered
      BY DEF PipeInv
    <2>2. PipeShape' /\ FlagsOrdered'
      BY <2>1, ShapeKept, FlagsKept
    <2>3. ASSUME Live' PROVE Stream' /\ HandOver'
      <3>1. Live
        BY <2>1, <2>3, LiveBefore
      <3>2. Base
        BY <2>1, <3>1 DEF PipeInv, Base
      <3> QED BY <3>2, HandOverKept
    <2> QED BY <2>2, <2>3 DEF PipeInv
  <1> QED BY <1>1, <1>2, PTL DEF PipeSpec

\* Bytes in their order are the beginning of the file.
LEMMA RunIsPrefix ==
  ASSUME NEW S, NEW s \in Seq(S), Run(s, 0)
  PROVE  s = [k \in 1..Len(s) |-> k]
  <1>1. \A k \in 1..Len(s) : s[k] = k
    BY DEF Run
  <1>2. s = [k \in 1..Len(s) |-> s[k]]
    OBVIOUS
  <1> QED BY <1>1, <1>2

\* The target receives every byte once, in order and nothing else; a statement
\* ends with a row and keeps to the limit of a transaction unless it is a single
\* row; and a chunk that the loader has finished is complete.
THEOREM CopyCorrect == PipeSpec => []CopyExact
  <1>1. PipeInv => CopyExact
    <2> SUFFICES ASSUME PipeInv PROVE CopyExact
      OBVIOUS
    <2>1. PipeShape /\ loaded \in Seq(Bytes) /\ sent \in Seq(Bytes)
          /\ Len(loaded) \in Nat /\ Len(sent) \in Nat
      BY DEF PipeInv, PipeShape, ReaderShape
    <2>2. ~cancelled => Stream
      BY DEF PipeInv, Live
    <2>3. StreamIntact
      <3> SUFFICES ASSUME ~cancelled
                   PROVE  loaded \o sent = [k \in 1..Len(loaded \o sent) |-> k]
        BY DEF StreamIntact
      <3>1. Run(loaded, 0) /\ Run(sent, 0 + Len(loaded))
        BY <2>1, <2>2 DEF Stream
      <3>2. loaded \o sent \in Seq(Bytes) /\ Run(loaded \o sent, 0)
        BY <2>1, <3>1, Joined
      <3> QED BY <3>2, RunIsPrefix
    <2>4. WholeRows
      BY <2>2 DEF WholeRows, Stream
    <2>5. TrxWithinLimit
      <3> SUFFICES ASSUME ~cancelled, Len(sent) > MaxTrx
                   PROVE  \E n \in 1..Len(file) : Len(loaded) = RowEnd[n - 1]
                                                  /\ Len(loaded) + Len(sent) <= RowEnd[n]
        BY DEF TrxWithinLimit
      <3>1. ~(Len(sent) <= MaxTrx)
        BY <2>1, SizesAssumption
      <3> QED BY <2>2, <3>1 DEF Stream, Received
    <2>6. DoneMeansCopied
      <3> SUFFICES ASSUME rpc = "done", ~fs PROVE Len(loaded) = FileSize
        BY DEF DoneMeansCopied
      <3>1. Ahead /\ IdleOK
        BY DEF PipeInv, Live, HandOver
      <3>2. data = <<>> /\ sent = <<>> /\ wpc = "closed"
        BY <3>1 DEF IdleOK
      <3>3. row - 1 = Len(file)
        BY <2>1, <3>2, RequestFacts DEF PipeShape, WriterShape
      <3>4. Len(loaded) + Len(sent) + Len(data) = RowEnd[row - 1]
        BY <3>1 DEF Ahead, Held, Waiting, Received
      <3>5. Len(sent) = 0 /\ Len(data) = 0
        BY <3>2
      <3>6. Len(loaded) + Len(sent) + Len(data) = Len(loaded)
        BY <2>1, <3>5
      <3> QED BY <3>3, <3>4, <3>6 DEF FileSize
    <2> QED BY <2>3, <2>4, <2>5, <2>6 DEF CopyExact
  <1> QED BY <1>1, PipeInductive, PTL

\* The types; and until ^C is pressed, there is one request, and only one of the
\* two sides uses it.
THEOREM RequestSafe == PipeSpec => []RequestProtected
  <1>1. PipeInv => RequestProtected
    <2> SUFFICES ASSUME PipeInv PROVE RequestProtected
      OBVIOUS
    <2>0. PipeShape
      BY DEF PipeInv
    <2>1. PipeTypeOK
      <3>1. request.length \in Nat /\ request.bytes \in Seq(Bytes) /\ FileSize \in Nat
        BY <2>0, RequestFacts
      <3>2. pending \in Nat
        BY <2>0, <3>1 DEF PipeShape, WriterShape
      <3> QED BY <2>0, <3>1, <3>2
              DEF PipeTypeOK, PipeShape, WriterShape, QueueShape, ReaderShape, FlagShape
    <2>2. ASSUME ~cancelled
          PROVE  /\ requests <= 1 /\ Len(responses) <= 2
                 /\ wpc = "serve" => rpc \in {"check", "pop"} /\ requests = 0
      <3>1. Base
        BY <2>2 DEF PipeInv, Base, Live
      <3>2. CASE Waiting
        <4>1. WaitingOK
          BY <3>1, <3>2 DEF Base, HandOver
        <4>2. Asked \/ Answered \/ Refused \/ Ended
          BY <2>0, <4>1 DEF WaitingOK, ForBuffer, ForRow, PipeShape, ReaderShape
        <4>3. requests <= 1
          BY <4>2 DEF Asked, Answered, Refused, Ended
        <4>4. \/ responses = <<>> \/ responses = <<Len(request.bytes)>>
              \/ responses = <<Len(request.bytes), 0>> \/ responses = <<-1>>
              \/ responses = <<0>>
          BY <4>2 DEF Asked, Answered, Refused, Ended
        <4>5. Len(responses) = 0 \/ Len(responses) = 1 \/ Len(responses) = 2
          BY <4>4
        <4>6. wpc = "serve" => requests = 0
          BY <3>1, Served
        <4>7. Len(responses) <= 2
          <5>1. CASE Len(responses) = 0
            BY <5>1
          <5>2. CASE Len(responses) = 1
            BY <5>2
          <5>3. CASE Len(responses) = 2
            BY <5>3
          <5> QED BY <4>5, <5>1, <5>2, <5>3
        <4> QED BY <3>2, <4>3, <4>7, <4>6 DEF Waiting
      <3>3. CASE rpc \in {"call", "commit", "done"}
        <4>1. IdleOK
          BY <3>1, <3>3 DEF Base, HandOver
        <4>2. requests <= 1 /\ (responses = <<>> \/ responses = <<0>>) /\ wpc # "serve"
          BY <4>1 DEF IdleOK, Open
        <4>3. Len(responses) \in {0, 1}
          BY <4>2
        <4>4. Len(responses) <= 2
          BY <4>3
        <4> QED BY <4>2, <4>4
      <3>4. CASE rpc = "failed"
        <4>1. FailedOK
          BY <3>1, <3>4 DEF Base, HandOver
        <4>2. requests <= 1 /\ wpc # "serve" /\ (Len(responses) <= 2 \/ responses = <<>>)
          BY <4>1 DEF FailedOK
        <4>3. responses = <<>> => Len(responses) = 0
          OBVIOUS
        <4> QED BY <4>2, <4>3
      <3> QED BY <2>0, <3>2, <3>3, <3>4 DEF PipeShape, ReaderShape, Waiting
    <2> QED BY <2>1, <2>2 DEF RequestProtected
  <1> QED BY <1>1, PipeInductive, PTL

=============================================================================
