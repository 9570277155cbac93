------------------------- MODULE LoadScheduler_proofs -------------------------
(***************************************************************************)
(* Proofs about LoadScheduler, for any pool, any dump and any options:      *)
(*   - the type invariant, and the priority queue's position is that of its *)
(*     heaviest task;                                                       *)
(*   - the main thread replaces the task of a worker only while that worker *)
(*     is blocked and nothing about its old task is queued; hence a queued  *)
(*     *_START or *_END event is about the task its worker still holds;     *)
(*   - m_current_weight is the weight of what the workers hold;             *)
(*   - no piece of work is executed twice, chunks of a Serial part are not  *)
(*     loaded together, and the stages of a table are executed in order;    *)
(*   - success means that all the work of the dump was executed.            *)
(* The first two need only the handshake between the threads (IInv), the    *)
(* others the whole account of the work (SchedInv).                         *)
(***************************************************************************)
EXTENDS LoadScheduler, SequenceTheorems, FiniteSetTheorems, WellFoundedInduction,
        TLAPS

----------------------------------------------------------------------------
(* The inductive invariant of the handshake between the main thread and the *)
(* workers.  A worker that has posted READY is blocked, with nothing to do, *)
(* and stands in exactly one place: in the queue, among the idle workers or *)
(* being handled.  After join_workers() told all workers to stop, nothing   *)
(* is handled any more, and only EventTaskMatch remains.                    *)

Stopping == mpc \in {"joining", "stopped"}

Scheduling == mpc \in {"schedule", "indexes", "analyze", "checksum", "assign"}

\* The worker is blocked on m_work_ready and was given nothing.
Free(w) == wpc[w] = "wait" /\ work[w] = <<>>

\* No event of the worker is queued.
Quiet(w) == \A i \in 1..Len(queue) : queue[i].worker # w

\* READY is the last event of its worker, and there is one of them at most.
ReadyLast ==
  \A i, j \in 1..Len(queue) :
    queue[i].type = "READY" /\ queue[j].worker = queue[i].worker => j <= i

ReadyFree ==
  \A i \in 1..Len(queue) : queue[i].type = "READY" => Free(queue[i].worker)

IdleDistinct == \A i, j \in 1..Len(idle) : idle[i] = idle[j] => i = j

IdleFree == \A i \in 1..Len(idle) : Free(idle[i]) /\ Quiet(idle[i])

CurFree ==
  Scheduling => /\ Free(cur) /\ Quiet(cur)
                /\ \A i \in 1..Len(idle) : idle[i] # cur

\* A worker is given at most one task before it takes it.
WorkGiven ==
  \A w \in Workers : /\ work[w] \in {<<>>, <<TRUE>>}
                     /\ wpc[w] # "wait" => work[w] = <<>>

Handshake ==
  ~Stopping => /\ ReadyLast /\ ReadyFree /\ IdleDistinct /\ IdleFree /\ CurFree
               /\ WorkGiven

\* TopIsHeaviest, and what it takes to keep it: the position goes back to the
\* first one when the queue gets empty.
TopPosition ==
  /\ top = 1 \/ pending[top] # <<>>
  /\ \A w \in top + 1 .. threads_count : pending[w] = <<>>

IInv == TypeOK /\ TopPosition /\ Handshake /\ EventTaskMatch

----------------------------------------------------------------------------
(* Lemmas about the operators of the model.                                 *)

\* The size of the pool is a positive number.
LEMMA PoolSize == threads_count \in Nat /\ threads_count > 0
  BY SchedulerAssumption

\* The larger of two numbers.
LEMMA MaxOfTwo ==
  ASSUME NEW a \in Int, NEW b \in Int
  PROVE  /\ Max({a, b}) \in {a, b}
         /\ Max({a, b}) >= a /\ Max({a, b}) >= b
  <1>1. \E x \in {a, b} : \A y \in {a, b} : x >= y
    OBVIOUS
  <1> QED BY <1>1 DEF Max

\* The smaller of two numbers.
LEMMA MinOfTwo ==
  ASSUME NEW a \in Int, NEW b \in Int
  PROVE  /\ Min({a, b}) \in {a, b}
         /\ Min({a, b}) <= a /\ Min({a, b}) <= b
  <1>1. \E x \in {a, b} : \A y \in {a, b} : x <= y
    OBVIOUS
  <1> QED BY <1>1 DEF Min

\* A function updated anywhere keeps its type.
LEMMA Update ==
  ASSUME NEW S, NEW T, NEW f \in [S -> T], NEW x, NEW v \in T
  PROVE  [f EXCEPT ![x] = v] \in [S -> T]
  OBVIOUS

\* push_pending_task() cuts the weight of a task to the size of the pool.
LEMMA CutType == ASSUME NEW w \in Nat \ {0} PROVE Cut(w) \in 1..threads_count
  BY PoolSize, MinOfTwo DEF Cut

\* What the position means.
LEMMA TopMeaning == TypeOK /\ TopPosition => TopIsHeaviest
  BY PoolSize DEF TypeOK, TopPosition, TopIsHeaviest, PendingEmpty

\* The pending tasks and the position, after a task was queued.
LEMMA EmplaceStep ==
  ASSUME TypeOK, TopPosition, NEW t \in Tasks, t.weight \in 1..threads_count,
         Emplace(t)
  PROVE  /\ pending' \in [1..threads_count -> Seq(Tasks)]
         /\ top' \in 1..threads_count
         /\ TopPosition'
  <1>1. top \in 1..threads_count /\ pending \in [1..threads_count -> Seq(Tasks)]
    BY DEF TypeOK
  <1>2. top' \in {top, t.weight} /\ top' >= top /\ top' >= t.weight
    <2> DEFINE m == t.weight
    <2>1. top \in Int /\ m \in Int
      BY <1>1, PoolSize
    <2>2. top' = Max({top, m})
      BY DEF Emplace
    <2> HIDE DEF m
    <2>3. top' \in {top, m} /\ top' >= top /\ top' >= m
      BY <2>1, <2>2, MaxOfTwo
    <2> QED BY <2>3 DEF m
  <1>3. pending' \in [1..threads_count -> Seq(Tasks)]
    BY <1>1 DEF Emplace
  <1>4. /\ pending'[t.weight] # <<>>
        /\ \A w \in 1..threads_count : w # t.weight => pending'[w] = pending[w]
    BY <1>1 DEF Emplace
  <1>5. TopPosition'
    <2> DEFINE m == t.weight
    <2>1. m \in 1..threads_count /\ top' \in {top, m} /\ top' >= top /\ top' >= m
      BY <1>2
    <2>2. /\ pending'[m] # <<>>
          /\ \A w \in 1..threads_count : w # m => pending'[w] = pending[w]
      BY <1>4
    <2> HIDE DEF m
    <2>3. top' = 1 \/ pending'[top'] # <<>>
      BY <1>1, <2>1, <2>2 DEF TopPosition
    <2>4. \A w \in top' + 1 .. threads_count : pending'[w] = <<>>
      <3>0. top' \in Int /\ top' >= 1
        BY <1>1, <2>1, PoolSize
      <3>1. SUFFICES ASSUME NEW w \in 1..threads_count, w > top'
                     PROVE  pending'[w] = <<>>
        BY <3>0, PoolSize
      <3>2. w # m /\ w \in top + 1 .. threads_count
        BY <1>1, <2>1, <3>0, <3>1, PoolSize
      <3>3. pending[w] = <<>>
        BY <3>2 DEF TopPosition
      <3> QED BY <2>2, <3>2, <3>3
    <2> QED BY <2>3, <2>4 DEF TopPosition
  <1> QED BY <1>1, <1>2, <1>3, <1>5, PoolSize

\* The pending tasks and the position, after the heaviest task was taken.
LEMMA PopTopStep ==
  ASSUME TypeOK, TopPosition, ~PendingEmpty, PopTop
  PROVE  /\ pending' \in [1..threads_count -> Seq(Tasks)]
         /\ top' \in 1..threads_count
         /\ TopPosition'
         /\ TopTask \in Tasks
  <1>1. top \in 1..threads_count /\ pending \in [1..threads_count -> Seq(Tasks)]
    BY DEF TypeOK
  <1>2. pending[top] # <<>> /\ \A w \in top + 1 .. threads_count : pending[w] = <<>>
    BY <1>1, PoolSize DEF TopPosition, PendingEmpty
  <1>3. /\ pending' \in [1..threads_count -> Seq(Tasks)]
        /\ TopTask \in Tasks
    BY <1>1, <1>2 DEF PopTop, TopTask
  <1>4. PICK w \in 1..top : /\ top' = w
                            /\ \A v \in (w + 1)..top : pending'[v] = <<>>
                            /\ w > 1 => pending'[w] # <<>>
    BY DEF PopTop
  <1>5. \A v \in 1..threads_count : v # top => pending'[v] = pending[v]
    BY <1>1 DEF PopTop
  <1>6. \A v \in (w + 1)..threads_count : pending'[v] = <<>>
    BY <1>1, <1>2, <1>4, <1>5, PoolSize
  <1>7. TopPosition'
    BY <1>1, <1>3, <1>4, <1>6, PoolSize DEF TopPosition
  <1> QED BY <1>1, <1>3, <1>4, <1>7, PoolSize

\* A task pushed by schedule_next(), of any kind.
LEMMA PushStep ==
  ASSUME TypeOK, TopPosition, NEW kind \in Kinds, NEW of \in Tables \cup Parts,
         NEW index \in Nat, NEW w \in Nat \ {0}, Push(kind, of, index, w)
  PROVE  /\ pending' \in [1..threads_count -> Seq(Tasks)]
         /\ top' \in 1..threads_count
         /\ TopPosition'
         /\ mpc' = "assign" /\ weight' = weight
  <1> DEFINE t == Task(kind, of, index, Cut(w))
  <1>1. t \in Tasks /\ t.weight \in 1..threads_count
    BY CutType, PoolSize DEF Task, Tasks
  <1>2. Emplace(t) /\ mpc' = "assign" /\ weight' = weight
    BY DEF Push
  <1> HIDE DEF t
  <1> QED BY <1>1, <1>2, EmplaceStep

\* An event is posted with the types it should have.
LEMMA EventType ==
  ASSUME TypeOK, NEW w \in Workers
  PROVE  /\ \A type \in {"CONNECTED", "START", "END", "EXIT", "FATAL_ERROR"} :
              Event(type, w) \in Events
         /\ Ready(w) \in Events
  BY DEF TypeOK, Event, Ready, Events, Tasks

\* The entry of the part that a chunk task leaves.
LEMMA LeaveType ==
  ASSUME TypeOK, NEW w \in Workers, Leave(w)
  PROVE  inflight' \in [Parts -> Int]
  <1>1. inflight \in [Parts -> Int]
    BY DEF TypeOK
  <1>2. CASE task[w].kind = "chunk"
    <2> DEFINE x == task[w].of
    <2>1. inflight' = [inflight EXCEPT ![x] = inflight[x] - 1]
      BY <1>2 DEF Leave
    <2> HIDE DEF x
    <2>2. CASE x \in Parts
      BY <1>1, <2>1, <2>2
    <2>3. CASE x \notin Parts
      BY <1>1, <2>1, <2>3
    <2> QED BY <2>2, <2>3
  <1>3. CASE task[w].kind # "chunk"
    BY <1>1, <1>3 DEF Leave
  <1> QED BY <1>2, <1>3

\* A worker takes what it was given from m_work_ready.
LEMMA WorkTaken ==
  ASSUME TypeOK, NEW w \in Workers, work[w] # <<>>,
         work' = [work EXCEPT ![w] = Tail(@)]
  PROVE  work' \in [Workers -> Seq(BOOLEAN)]
  <1>1. work \in [Workers -> Seq(BOOLEAN)]
    BY DEF TypeOK
  <1>2. Tail(work[w]) \in Seq(BOOLEAN)
    BY <1>1
  <1> QED BY <1>1, <1>2

----------------------------------------------------------------------------
(* The type invariant and the position of the priority queue.               *)

\* The initial states.
LEMMA TypeInit == Init => TypeOK /\ TopPosition
  <1> SUFFICES ASSUME Init PROVE TypeOK /\ TopPosition
    OBVIOUS
  <1>1. \E w \in Workers : TRUE
    BY SchedulerAssumption, FS_EmptySet DEF threads_count
  <1>2. cur \in Workers
    BY <1>1 DEF Init
  <1>3. NoTask \in Tasks
    BY PoolSize DEF NoTask, Task, Tasks
  <1>4. pending \in [1..threads_count -> Seq(Tasks)] /\ top \in 1..threads_count
    BY PoolSize DEF Init
  <1>5. TopPosition
    BY PoolSize DEF Init, TopPosition
  <1>6. /\ idle \in Seq(Workers) /\ queue \in Seq(Events)
        /\ work \in [Workers -> Seq(BOOLEAN)]
    BY DEF Init
  <1>7. /\ analyze \in [Tables -> {"todo", "scheduled", "finished"}]
        /\ checksum \in [Parts -> {"none", "todo", "scheduled", "verified"}]
    BY DEF Init
  <1>8. /\ phase \in {"ddl", "data"} /\ live \subseteq Workers
        /\ result \in {"none", "ok", "error"} /\ weight \in Int
    BY DEF Init
  <1> QED BY <1>2, <1>3, <1>4, <1>5, <1>6, <1>7, <1>8 DEF Init, TypeOK

\* The steps of the workers.
LEMMA TypeWorker ==
  ASSUME TypeOK, TopPosition, NEW w \in Workers, WorkerStep(w)
  PROVE  TypeOK' /\ TopPosition'
  <1> DEFINE Places == {"connect", "ready", "wait", "exec", "run", "end", "exited"}
  <1>1. ASSUME UNCHANGED <<dumpVars, mainVars, task>>,
               queue' = queue \/ \E e \in Events : queue' = Append(queue, e),
               \E to \in Places : wpc' = [wpc EXCEPT ![w] = to],
               work' \in [Workers -> Seq(BOOLEAN)],
               inflight' \in [Parts -> Int], interrupt' \in BOOLEAN
        PROVE  TypeOK' /\ TopPosition'
    <2>1. queue' \in Seq(Events)
      <3>1. queue \in Seq(Events)
        BY DEF TypeOK
      <3>2. \A e \in Events : Append(queue, e) \in Seq(Events)
        BY <3>1
      <3> QED BY <1>1, <3>1, <3>2, Zenon
    <2>2. wpc' \in [Workers -> Places]
      BY <1>1, Update DEF TypeOK
    <2> QED BY <1>1, <2>1, <2>2
            DEF TypeOK, TopPosition, dumpVars, dataVars, stageVars, readerVars,
                poolVars, mainVars
  <1>2. /\ work \in [Workers -> Seq(BOOLEAN)] /\ inflight \in [Parts -> Int]
        /\ interrupt \in BOOLEAN
    BY DEF TypeOK
  <1>3. CASE WConnect(w) \/ WReady(w) \/ WStart(w) \/ WEnd(w)
    <2>1. \E e \in Events : queue' = Append(queue, e)
      BY <1>3, EventType DEF WConnect, WReady, WStart, WEnd
    <2>2. /\ \E to \in Places : wpc' = [wpc EXCEPT ![w] = to]
          /\ UNCHANGED <<dumpVars, mainVars, task, work, inflight, interrupt>>
      BY <1>3 DEF WConnect, WReady, WStart, WEnd
    <2> QED BY <1>1, <1>2, <2>1, <2>2
  <1>4. CASE WPop(w)
    <2>1. /\ work[w] # <<>> /\ work' = [work EXCEPT ![w] = Tail(@)]
          /\ wpc' = [wpc EXCEPT ![w] = "exec"]
          /\ UNCHANGED <<dumpVars, mainVars, inflight, interrupt, queue, task>>
      BY <1>4 DEF WPop
    <2> QED BY <1>1, <1>2, <2>1, WorkTaken
  <1>5. CASE WExit(w)
    <2>1. /\ work[w] # <<>> /\ work' = [work EXCEPT ![w] = Tail(@)]
          /\ wpc' = [wpc EXCEPT ![w] = "exited"]
          /\ queue' = Append(queue, Event("EXIT", w))
          /\ UNCHANGED <<dumpVars, mainVars, inflight, interrupt, task>>
      BY <1>5 DEF WExit
    <2>2. work' \in [Workers -> Seq(BOOLEAN)] /\ Event("EXIT", w) \in Events
      BY <2>1, WorkTaken, EventType
    <2> QED BY <1>1, <1>2, <2>1, <2>2
  <1>6. CASE WRun(w)
    <2>1. /\ wpc' = [wpc EXCEPT ![w] = "end"] /\ Leave(w)
          /\ UNCHANGED <<dumpVars, mainVars, interrupt, queue, work, task>>
      BY <1>6 DEF WRun
    <2> QED BY <1>1, <1>2, <2>1, LeaveType
  <1>7. CASE WFail(w)
    <2>1. /\ wpc' = [wpc EXCEPT ![w] = "exited"] /\ interrupt' = TRUE
          /\ queue' = Append(queue, Event("FATAL_ERROR", w))
          /\ UNCHANGED <<dumpVars, mainVars, work, task>>
      BY <1>7 DEF WFail
    <2>2. inflight' \in [Parts -> Int]
      BY <1>2, <1>7, LeaveType DEF WFail
    <2>3. Event("FATAL_ERROR", w) \in Events
      BY EventType
    <2> QED BY <1>1, <1>2, <2>1, <2>2, <2>3
  <1> QED BY <1>3, <1>4, <1>5, <1>6, <1>7 DEF WorkerStep

\* READY is posted again for some of the idle workers.
LEMMA WakeType ==
  ASSUME TypeOK, NEW n \in Nat, n <= Len(idle)
  PROVE  /\ queue \o [i \in 1..n |-> Ready(idle[i])] \in Seq(Events)
         /\ SubSeq(idle, n + 1, Len(idle)) \in Seq(Workers)
  <1>1. idle \in Seq(Workers) /\ queue \in Seq(Events)
    BY DEF TypeOK
  <1>2. \A i \in 1..n : Ready(idle[i]) \in Events
    BY <1>1, EventType
  <1>3. [i \in 1..n |-> Ready(idle[i])] \in Seq(Events)
    BY <1>2
  <1>4. queue \o [i \in 1..n |-> Ready(idle[i])] \in Seq(Events)
    BY <1>1, <1>3, ConcatProperties
  <1>5. SubSeq(idle, n + 1, Len(idle)) \in Seq(Workers)
    BY <1>1
  <1> QED BY <1>4, <1>5

\* The steps of handle_worker_events().
LEMMA TypeEvents ==
  ASSUME TypeOK, TopPosition,
         \/ HandleOther \/ HandleEnd \/ HandleReady \/ HandleExit \/ LeaveEvents
  PROVE  TypeOK' /\ TopPosition'
  <1> USE DEF dumpVars, dataVars, stageVars, readerVars, poolVars, workerVars,
              mainVars
  <1>1. ASSUME NEW type, Handling(type)
        PROVE  /\ queue' \in Seq(Events)
               /\ Head(queue).worker \in Workers
    <2>1. queue \in Seq(Events) /\ queue # <<>> /\ queue' = Tail(queue)
      BY <1>1 DEF Handling, TypeOK
    <2>2. queue' \in Seq(Events) /\ Head(queue) \in Events
      BY <2>1
    <2> QED BY <2>2 DEF Events
  <1>2. CASE HandleOther
    BY <1>1, <1>2 DEF TypeOK, HandleOther, TopPosition
  <1>3. CASE HandleEnd
    <2> DEFINE k == Head(queue).kind
               x == task[Head(queue).worker].of
    <2>1. loaded' = IF k = "chunk" THEN [loaded EXCEPT ![x] = loaded[x] + 1]
                    ELSE loaded
      BY <1>3 DEF HandleEnd
    <2>2. indexes' \in {indexes, [indexes EXCEPT ![x] = "todo"],
                        [indexes EXCEPT ![x] = "created"]}
      BY <1>3 DEF HandleEnd
    <2>3. /\ analyze' \in {analyze, [analyze EXCEPT ![x] = "finished"]}
          /\ checksum' \in {checksum, [checksum EXCEPT ![x] = "verified"]}
      BY <1>3 DEF HandleEnd
    <2>4. /\ queue' \in Seq(Events)
          /\ UNCHANGED <<dumpVars, available, complete, consumed, ddlTodo, mpc,
                 phase, cur, scanned, idle, poolVars, live, result, inflight,
                 interrupt, workerVars>>
      BY <1>1, <1>3 DEF HandleEnd
    <2> HIDE DEF k, x
    <2>5. loaded' \in [Parts -> Nat]
      <3>1. loaded \in [Parts -> Nat]
        BY DEF TypeOK
      <3>2. CASE x \in Parts
        BY <2>1, <3>1, <3>2
      <3>3. CASE x \notin Parts
        BY <2>1, <3>1, <3>3
      <3> QED BY <3>2, <3>3
    <2>6. indexes' \in [Tables -> {"none", "todo", "scheduled", "created"}]
      BY <2>2, Update DEF TypeOK
    <2>7. /\ analyze' \in [Tables -> {"todo", "scheduled", "finished"}]
          /\ checksum' \in [Parts -> {"none", "todo", "scheduled", "verified"}]
      BY <2>3, Update DEF TypeOK
    <2> QED BY <2>4, <2>5, <2>6, <2>7 DEF TypeOK, TopPosition
  <1>4. CASE HandleReady
    <2> DEFINE w == Head(queue).worker
    <2>1. queue' \in Seq(Events) /\ w \in Workers
      BY <1>1, <1>4 DEF HandleReady
    <2>2. task[w] \in Tasks
      BY <2>1 DEF TypeOK
    <2>3. weight' \in Int
      BY <1>4, <2>2, PoolSize DEF HandleReady, TypeOK, Tasks
    <2>4. task' \in [Workers -> Tasks]
      <3>1. task' = [task EXCEPT ![w] = [task[w] EXCEPT !.weight = 0]]
        BY <1>4 DEF HandleReady
      <3>2. [task[w] EXCEPT !.weight = 0] \in Tasks
        BY <2>2, PoolSize DEF Tasks
      <3> QED BY <3>1, <3>2 DEF TypeOK
    <2>5. /\ idle' \in Seq(Workers) /\ cur' \in Workers /\ scanned' \in BOOLEAN
          /\ mpc' \in {mpc, "schedule"}
      <3>1. idle \in Seq(Workers) /\ cur \in Workers /\ scanned \in BOOLEAN
        BY DEF TypeOK
      <3>2. /\ idle' \in {idle, Append(idle, w)} /\ cur' \in {cur, w}
            /\ scanned' \in {scanned, FALSE} /\ mpc' \in {mpc, "schedule"}
        BY <1>4 DEF HandleReady
      <3>3. Append(idle, w) \in Seq(Workers)
        BY <2>1, <3>1
      <3> QED BY <2>1, <3>1, <3>2, <3>3
    <2>6. UNCHANGED <<dumpVars, readerVars, phase, pending, top, live, result,
                      inflight, interrupt, wpc, work>>
      BY <1>4 DEF HandleReady
    <2>7. TypeOK'
      <3> HIDE DEF w
      <3> QED BY <2>1, <2>3, <2>4, <2>5, <2>6 DEF TypeOK
    <2>8. TopPosition'
      BY <2>6 DEF TopPosition
    <2> QED BY <2>7, <2>8
  <1>5. CASE HandleExit
    BY <1>1, <1>5 DEF TypeOK, HandleExit, TopPosition
  <1>6. CASE LeaveEvents
    <2>1. idle \in Seq(Workers) /\ DOMAIN idle = 1..Len(idle) /\ Len(idle) \in Nat
      BY DEF TypeOK
    <2>2. queue' \in Seq(Events)
      BY <1>6, <2>1, WakeType DEF LeaveEvents
    <2>3. mpc' \in {"scan", "check"} /\ phase' \in {"ddl", "data"}
      BY <1>6 DEF LeaveEvents, TypeOK
    <2>4. idle' \in Seq(Workers)
      BY <1>6 DEF LeaveEvents
    <2>5. UNCHANGED <<dumpVars, readerVars, cur, scanned, poolVars, live, result,
                      inflight, interrupt, workerVars>>
      BY <1>6 DEF LeaveEvents
    <2> QED BY <2>2, <2>3, <2>4, <2>5 DEF TypeOK, TopPosition
  <1> QED BY <1>2, <1>3, <1>4, <1>5, <1>6

\* The steps of schedule_next() that do not hand out a task.
LEMMA TypeSchedule ==
  ASSUME TypeOK, TopPosition,
         \/ NextTableDdl \/ NextChunk \/ NoChunk \/ NextIndex \/ NextAnalyze
         \/ NextChecksum
  PROVE  TypeOK' /\ TopPosition'
  <1> USE DEF dumpVars, dataVars, stageVars, readerVars, poolVars, workerVars,
              restVars
  <1> DEFINE Pool == /\ pending' \in [1..threads_count -> Seq(Tasks)]
                     /\ top' \in 1..threads_count
                     /\ TopPosition'
                     /\ mpc' \in {mpc, "indexes", "analyze", "checksum", "assign"}
                     /\ weight' = weight
  <1>1. ASSUME UNCHANGED poolVars,
               mpc' \in {mpc, "indexes", "analyze", "checksum", "assign"}
        PROVE  Pool
    BY <1>1 DEF TypeOK, TopPosition
  <1>2. ASSUME NEW kind \in Kinds, NEW of \in Tables \cup Parts,
               NEW index \in Nat, NEW w \in Nat \ {0}, Push(kind, of, index, w)
        PROVE  Pool
    BY <1>2, PushStep
  <1>3. CASE NextTableDdl
    <2>1. Pool
      <3>1. CASE \E t \in ddlTodo : Push("ddl", t, 0, 1)
        BY <1>2, <3>1 DEF Kinds, TypeOK
      <3>2. CASE mpc' = "assign" /\ UNCHANGED poolVars
        BY <1>1, <3>2
      <3> QED BY <1>3, <3>1, <3>2 DEF NextTableDdl
    <2>2. ddlTodo' \subseteq Tables
      BY <1>3 DEF NextTableDdl, TypeOK
    <2>3. UNCHANGED <<restVars, dataVars, indexes, analyze, checksum, scanned,
                      inflight>>
      BY <1>3 DEF NextTableDdl
    <2> QED BY <2>1, <2>2, <2>3 DEF TypeOK
  <1>4. CASE NextChunk
    <2>1. PICK p \in Candidates :
            /\ consumed' = [consumed EXCEPT ![p] = @ + 1]
            /\ \/ /\ loaded' = [loaded EXCEPT ![p] = @ + 1]
                  /\ UNCHANGED <<mpc, inflight, poolVars>>
               \/ /\ inflight' = [inflight EXCEPT ![p] = @ + 1]
                  /\ Push("chunk", p, consumed[p], 1)
                  /\ UNCHANGED loaded
      BY <1>4 DEF NextChunk
    <2>2. p \in Parts
      BY <2>1 DEF Candidates, tables_with_data
    <2>3. consumed[p] \in Nat
      BY <2>2 DEF TypeOK
    <2>4. Pool
      BY <1>1, <1>2, <2>1, <2>2, <2>3 DEF Kinds
    <2>5. consumed' \in [Parts -> Nat] /\ loaded' \in [Parts -> Nat]
      <3>1. /\ consumed \in [Parts -> Nat] /\ consumed[p] + 1 \in Nat
            /\ loaded \in [Parts -> Nat] /\ loaded[p] + 1 \in Nat
        BY <2>2 DEF TypeOK
      <3>2. /\ consumed' = [consumed EXCEPT ![p] = consumed[p] + 1]
            /\ loaded' \in {loaded, [loaded EXCEPT ![p] = loaded[p] + 1]}
        BY <2>1
      <3> QED BY <3>1, <3>2, Update
    <2>6. inflight' \in [Parts -> Int]
      <3>1. inflight \in [Parts -> Int] /\ inflight[p] + 1 \in Int
        BY <2>2 DEF TypeOK
      <3>2. inflight' \in {inflight, [inflight EXCEPT ![p] = inflight[p] + 1]}
        BY <2>1
      <3> QED BY <3>1, <3>2, Update
    <2>7. UNCHANGED <<restVars, available, complete, stageVars, scanned>>
      BY <1>4 DEF NextChunk
    <2> QED BY <2>4, <2>5, <2>6, <2>7 DEF TypeOK
  <1>5. CASE NoChunk
    <2>1. Pool
      BY <1>1, <1>5 DEF NoChunk
    <2>2. /\ available' \in [Parts -> Nat] /\ complete' \in BOOLEAN
          /\ scanned' \in BOOLEAN
      BY <1>5 DEF NoChunk, Rescan, TypeOK
    <2>3. UNCHANGED <<restVars, consumed, loaded, stageVars, inflight>>
      BY <1>5 DEF NoChunk
    <2> QED BY <2>1, <2>2, <2>3 DEF TypeOK
  <1>6. CASE NextIndex
    <2>1. Pool
      <3>1. CASE \E t \in Tables : Push("index", t, 0, IndexWeight[t])
        BY <1>2, <3>1, SchedulerAssumption DEF Kinds
      <3>2. CASE mpc' = "analyze" /\ UNCHANGED poolVars
        BY <1>1, <3>2
      <3> QED BY <1>6, <3>1, <3>2 DEF NextIndex
    <2>2. indexes' \in [Tables -> {"none", "todo", "scheduled", "created"}]
      BY <1>6, Update DEF NextIndex, TypeOK
    <2>3. UNCHANGED <<restVars, dataVars, analyze, checksum, ddlTodo, scanned,
                      inflight>>
      BY <1>6 DEF NextIndex
    <2> QED BY <2>1, <2>2, <2>3 DEF TypeOK
  <1>7. CASE NextAnalyze
    <2>1. Pool
      <3>1. CASE \E t \in Tables : Push("analyze", t, 0, 1)
        BY <1>2, <3>1 DEF Kinds
      <3>2. CASE mpc' \in {mpc, "checksum"} /\ UNCHANGED poolVars
        BY <1>1, <3>2
      <3> QED BY <1>7, <3>1, <3>2 DEF NextAnalyze
    <2>2. analyze' \in [Tables -> {"todo", "scheduled", "finished"}]
      BY <1>7, Update DEF NextAnalyze, TypeOK
    <2>3. UNCHANGED <<restVars, dataVars, indexes, checksum, ddlTodo, scanned,
                      inflight>>
      BY <1>7 DEF NextAnalyze
    <2> QED BY <2>1, <2>2, <2>3 DEF TypeOK
  <1>8. CASE NextChecksum
    <2>1. Pool
      <3>1. CASE \E p \in Parts : Push("checksum", p, 0, 1)
        BY <1>2, <3>1 DEF Kinds
      <3>2. CASE mpc' \in {mpc, "assign"} /\ UNCHANGED poolVars
        BY <1>1, <3>2
      <3> QED BY <1>8, <3>1, <3>2 DEF NextChecksum
    <2>2. checksum' \in [Parts -> {"none", "todo", "scheduled", "verified"}]
      <3>1. \/ checksum' = checksum
            \/ \E p \in Parts : checksum' = [checksum EXCEPT ![p] = "verified"]
            \/ \E p \in Parts : checksum' = [checksum EXCEPT ![p] = "scheduled"]
        BY <1>8 DEF NextChecksum
      <3> QED BY <3>1, Update DEF TypeOK
    <2>3. UNCHANGED <<restVars, dataVars, indexes, analyze, ddlTodo, scanned,
                      inflight>>
      BY <1>8 DEF NextChecksum
    <2> QED BY <2>1, <2>2, <2>3 DEF TypeOK
  <1> QED BY <1>3, <1>4, <1>5, <1>6, <1>7, <1>8

\* A task is handed out only if it fits into the pool.
LEMMA AssignFits ==
  ASSUME TypeOK, TopPosition, AssignTask
  PROVE  /\ ~PendingEmpty /\ PopTop /\ TopTask \in Tasks
         /\ weight' \in Int /\ weight' <= threads_count
  <1>1. ~PendingEmpty /\ ~(weight + TopTask.weight > threads_count) /\ PopTop
    BY DEF AssignTask, MustWait
  <1>2. TopTask \in Tasks
    BY <1>1, PopTopStep
  <1>3. weight' = weight + TopTask.weight /\ weight \in Int
    BY DEF AssignTask, TypeOK
  <1>4. TopTask.weight \in Int
    BY <1>2, PoolSize DEF Tasks
  <1> QED BY <1>1, <1>2, <1>3, <1>4, PoolSize

\* Hence the weight left is a number, and no more workers than are idle are
\* told to try again.
LEMMA AssignWakes ==
  ASSUME TypeOK, TopPosition, AssignTask
  PROVE  \E n \in Nat : /\ n <= Len(idle)
                        /\ queue' = queue \o [i \in 1..n |-> Ready(idle[i])]
                        /\ idle' = SubSeq(idle, n + 1, Len(idle))
  <1> DEFINE a == threads_count - weight'
             l == Len(idle)
             n == Min({a, l})
  <1>1. a \in Nat
    <2>1. \A x, y \in Int : x <= y => y - x \in Nat
      OBVIOUS
    <2>2. threads_count \in Int
      BY PoolSize
    <2>3. weight' \in Int /\ weight' <= threads_count
      BY AssignFits
    <2> QED BY <2>1, <2>2, <2>3, Zenon
  <1>2. l \in Nat
    BY DEF TypeOK
  <1>3. /\ queue' = queue \o [i \in 1..n |-> Ready(idle[i])]
        /\ idle' = SubSeq(idle, n + 1, Len(idle))
    BY DEF AssignTask
  <1> HIDE DEF a, l
  <1>4. n \in Nat /\ n <= l
    BY <1>1, <1>2, MinOfTwo
  <1> HIDE DEF n
  <1> QED BY <1>3, <1>4 DEF l

\* The steps that hand out the heaviest pending task, or find none that fits.
LEMMA TypeAssign ==
  ASSUME TypeOK, TopPosition, AssignIdle \/ AssignTask
  PROVE  TypeOK' /\ TopPosition'
  <1> USE DEF dumpVars, dataVars, stageVars, readerVars, poolVars, workerVars
  <1>1. CASE AssignIdle
    <2>1. idle' \in Seq(Workers)
      BY <1>1 DEF AssignIdle, TypeOK
    <2>2. /\ mpc' = "events"
          /\ UNCHANGED <<dumpVars, readerVars, phase, cur, scanned, poolVars,
                         live, result, inflight, interrupt, queue, workerVars>>
      BY <1>1 DEF AssignIdle
    <2> QED BY <2>1, <2>2 DEF TypeOK, TopPosition
  <1>2. CASE AssignTask
    <2>1. ~PendingEmpty /\ PopTop /\ weight' \in Int
      BY <1>2, AssignFits
    <2>2. /\ pending' \in [1..threads_count -> Seq(Tasks)]
          /\ top' \in 1..threads_count
          /\ TopPosition'
          /\ TopTask \in Tasks
      BY <2>1, PopTopStep
    <2>4. task' \in [Workers -> Tasks]
      BY <1>2, <2>2 DEF AssignTask, TypeOK
    <2>5. work' \in [Workers -> Seq(BOOLEAN)]
      <3>1. work \in [Workers -> Seq(BOOLEAN)] /\ cur \in Workers
        BY DEF TypeOK
      <3>2. Append(work[cur], TRUE) \in Seq(BOOLEAN)
        BY <3>1
      <3>3. work' = [work EXCEPT ![cur] = Append(work[cur], TRUE)]
        BY <1>2 DEF AssignTask
      <3> QED BY <3>1, <3>2, <3>3
    <2>6. queue' \in Seq(Events) /\ idle' \in Seq(Workers)
      BY <1>2, AssignWakes, WakeType
    <2>7. /\ mpc' = "events"
          /\ UNCHANGED <<dumpVars, readerVars, phase, cur, scanned, live, result,
                         inflight, interrupt, wpc>>
      BY <1>2 DEF AssignTask
    <2> QED BY <2>1, <2>2, <2>4, <2>5, <2>6, <2>7 DEF TypeOK
  <1> QED BY <1>1, <1>2

\* The steps of the loop, of the dump process and of the user.
LEMMA TypeLoop ==
  ASSUME TypeOK, TopPosition,
         \/ StartTasks \/ Scan \/ Check \/ StopWorkers \/ JoinWorkers
         \/ MainFail \/ FetchFail \/ Interrupt \/ DumpStep
  PROVE  TypeOK' /\ TopPosition'
  <1> USE DEF dumpVars, dataVars, stageVars, readerVars, poolVars, workerVars,
              mainVars
  <1>1. CASE StartTasks
    BY <1>1 DEF StartTasks, TypeOK, TopPosition
  <1>2. CASE Scan
    BY <1>2 DEF Scan, Rescan, TypeOK, TopPosition
  <1>3. CASE Check
    <2>1. /\ mpc' \in {"join", "scan"} /\ result' \in {result, "ok", "error"}
          /\ UNCHANGED <<dumpVars, readerVars, phase, cur, scanned, idle,
                poolVars, live, inflight, interrupt, queue, workerVars>>
      BY <1>3 DEF Check
    <2> QED BY <2>1 DEF TypeOK, TopPosition
  <1>4. CASE StopWorkers
    <2>1. work' \in [Workers -> Seq(BOOLEAN)]
      <3>1. work \in [Workers -> Seq(BOOLEAN)]
        BY DEF TypeOK
      <3>2. \A w \in Workers : Append(work[w], FALSE) \in Seq(BOOLEAN)
        BY <3>1
      <3> QED BY <1>4, <3>1, <3>2 DEF StopWorkers
    <2> QED BY <1>4, <2>1 DEF StopWorkers, TypeOK, TopPosition
  <1>5. CASE JoinWorkers
    BY <1>5 DEF JoinWorkers, TypeOK, TopPosition
  <1>6. CASE MainFail
    BY <1>6 DEF MainFail, TypeOK, TopPosition
  <1>7. CASE FetchFail
    BY <1>7 DEF FetchFail, TypeOK, TopPosition
  <1>8. CASE Interrupt
    BY <1>8 DEF Interrupt, TypeOK, TopPosition
  <1>9. CASE DumpStep
    <2>1. written' \in [Parts -> Nat] /\ dumpDone' \in BOOLEAN
      <3>1. CASE FinishDump
        BY <3>1 DEF FinishDump, TypeOK
      <3>2. ASSUME NEW p \in Parts, WriteChunk(p)
            PROVE  written' \in [Parts -> Nat] /\ dumpDone' \in BOOLEAN
        BY <3>2 DEF WriteChunk, TypeOK
      <3> QED BY <1>9, <3>1, <3>2 DEF DumpStep
    <2>2. UNCHANGED <<readerVars, mpc, phase, cur, scanned, idle, poolVars, live,
                      result, inflight, interrupt, queue, workerVars>>
      BY <1>9 DEF DumpStep, FinishDump, WriteChunk
    <2> QED BY <2>1, <2>2 DEF TypeOK, TopPosition
  <1> QED BY <1>1, <1>2, <1>3, <1>4, <1>5, <1>6, <1>7, <1>8, <1>9

\* Every step keeps the types and the position.
LEMMA TypeNext == TypeOK /\ TopPosition /\ [Next]_vars => TypeOK' /\ TopPosition'
  <1> SUFFICES ASSUME TypeOK, TopPosition, [Next]_vars
               PROVE  TypeOK' /\ TopPosition'
    OBVIOUS
  <1>1. CASE UNCHANGED vars
    BY <1>1 DEF vars, dumpVars, dataVars, stageVars, readerVars, poolVars,
                workerVars, TypeOK, TopPosition
  <1> QED BY <1>1, TypeWorker, TypeEvents, TypeSchedule, TypeAssign, TypeLoop
          DEF Next, MainStep, Done

----------------------------------------------------------------------------
(* The handshake.  First what posting, taking and reposting events does to  *)
(* the queue, by position.                                                  *)

\* A worker's push to m_worker_events adds the event at the end.
LEMMA Posted ==
  ASSUME TypeOK, NEW e, queue' = Append(queue, e)
  PROVE  /\ Len(queue) \in Nat /\ Len(queue') = Len(queue) + 1
         /\ \A i \in 1..Len(queue) : queue'[i] = queue[i]
         /\ queue'[Len(queue) + 1] = e
  BY DEF TypeOK

\* handle_worker_events() pops the first event.
LEMMA Taken ==
  ASSUME TypeOK, queue # <<>>, queue' = Tail(queue)
  PROVE  /\ Len(queue) \in Nat /\ Len(queue) > 0 /\ Head(queue) = queue[1]
         /\ Len(queue') = Len(queue) - 1
         /\ \A i \in 1..Len(queue') : queue'[i] = queue[i + 1]
  BY DEF TypeOK

\* READY is pushed again for the first n idle workers, which are idle no more.
LEMMA Reposted ==
  ASSUME TypeOK, NEW n \in Nat, n <= Len(idle),
         queue' = queue \o [i \in 1..n |-> Ready(idle[i])],
         idle' = SubSeq(idle, n + 1, Len(idle))
  PROVE  /\ Len(queue) \in Nat /\ Len(idle) \in Nat
         /\ Len(queue') = Len(queue) + n
         /\ \A i \in 1..Len(queue) : queue'[i] = queue[i]
         /\ \A i \in 1..n : queue'[Len(queue) + i] = Ready(idle[i])
         /\ Len(idle') = Len(idle) - n
         /\ \A i \in 1..Len(idle') : idle'[i] = idle[n + i]
  <1> DEFINE s == [i \in 1..n |-> Ready(idle[i])]
  <1>1. idle \in Seq(Workers) /\ queue \in Seq(Events)
    BY DEF TypeOK
  <1>2. \A i \in 1..n : Ready(idle[i]) \in Events
    BY <1>1, EventType
  <1>3. s \in Seq(Events) /\ Len(s) = n /\ \A i \in 1..n : s[i] = Ready(idle[i])
    BY <1>2
  <1>4. queue' = queue \o s
    OBVIOUS
  <1> HIDE DEF s
  <1>5. /\ Len(queue') = Len(queue) + n
        /\ \A i \in 1..Len(queue) : queue'[i] = queue[i]
        /\ \A i \in 1..n : queue'[Len(queue) + i] = s[i]
    BY <1>1, <1>3, <1>4
  <1>6. /\ Len(idle') = Len(idle) - n
        /\ \A i \in 1..Len(idle') : idle'[i] = idle[n + i]
    BY <1>1
  <1> QED BY <1>1, <1>3, <1>5, <1>6

\* The workers that the main thread knows of.
LEMMA Members ==
  ASSUME TypeOK
  PROVE  /\ \A i \in 1..Len(queue) : queue[i].worker \in Workers
         /\ \A i \in 1..Len(idle) : idle[i] \in Workers
         /\ cur \in Workers
  <1>1. queue \in Seq(Events) /\ idle \in Seq(Workers) /\ cur \in Workers
    BY DEF TypeOK
  <1>2. \A i \in 1..Len(queue) : queue[i] \in Events
    BY <1>1
  <1>3. \A e \in Events : e.worker \in Workers
    BY DEF Events
  <1>4. \A i \in 1..Len(idle) : idle[i] \in Workers
    BY <1>1
  <1> QED BY <1>1, <1>2, <1>3, <1>4

\* Steps that touch neither the queue nor the workers.
LEMMA HandshakeFrame ==
  ASSUME Handshake, UNCHANGED <<queue, idle, wpc, work, cur>>,
         Scheduling' => Scheduling, Stopping => Stopping'
  PROVE  Handshake'
  BY DEF Handshake, ReadyLast, ReadyFree, IdleDistinct, IdleFree, CurFree,
         WorkGiven, Free, Quiet

\* A worker that is not free posts an event, or only moves on.
LEMMA HandshakePost ==
  ASSUME TypeOK, Handshake, NEW w \in Workers, ~Free(w),
         NEW e, e.worker = w, queue' = Append(queue, e) \/ queue' = queue,
         e.type = "READY" => Free(w)',
         \A v \in Workers \ {w} : wpc'[v] = wpc[v] /\ work'[v] = work[v],
         ~Stopping => /\ work'[w] \in {<<>>, <<TRUE>>}
                      /\ wpc'[w] # "wait" => work'[w] = <<>>,
         UNCHANGED <<idle, cur, mpc>>
  PROVE  Handshake'
  <1> SUFFICES ASSUME ~Stopping
               PROVE  /\ ReadyLast' /\ ReadyFree' /\ IdleDistinct' /\ IdleFree'
                      /\ CurFree' /\ WorkGiven'
    BY DEF Handshake, Stopping
  <1> USE DEF Free, Quiet
  <1>1. ReadyLast /\ ReadyFree /\ IdleDistinct /\ IdleFree /\ CurFree /\ WorkGiven
    BY DEF Handshake
  <1>2. /\ \A i \in 1..Len(queue) : queue[i].worker \in Workers
        /\ \A i \in 1..Len(idle) : idle[i] \in Workers
        /\ cur \in Workers
    BY Members
  <1>3. CASE queue' = queue
    <2>1. ReadyLast' /\ IdleDistinct'
      BY <1>1, <1>3 DEF ReadyLast, IdleDistinct
    <2>2. ReadyFree'
      BY <1>1, <1>2, <1>3 DEF ReadyFree
    <2>3. IdleFree'
      BY <1>1, <1>2, <1>3 DEF IdleFree
    <2>4. CurFree'
      BY <1>1, <1>2, <1>3 DEF CurFree, Scheduling
    <2> QED BY <1>1, <2>1, <2>2, <2>3, <2>4 DEF WorkGiven
  <1>4. CASE queue' = Append(queue, e)
    <2> DEFINE l == Len(queue)
    <2>1. /\ l \in Nat /\ Len(queue') = l + 1
          /\ \A i \in 1..l : queue'[i] = queue[i]
          /\ queue'[l + 1] = e
      BY <1>4, Posted
    <2>2. \A i \in 1..l : queue[i].type = "READY" => queue[i].worker # w
      BY <1>1 DEF ReadyFree
    <2> HIDE DEF l
    <2>3. ReadyLast'
      BY <1>1, <2>1, <2>2 DEF ReadyLast, l
    <2>4. ReadyFree'
      BY <1>1, <1>2, <2>1, <2>2 DEF ReadyFree, l
    <2>5. IdleDistinct'
      BY <1>1 DEF IdleDistinct
    <2>6. \A i \in 1..Len(idle) : idle[i] # w
      BY <1>1 DEF IdleFree
    <2>7. IdleFree'
      BY <1>1, <1>2, <2>1, <2>6 DEF IdleFree, l
    <2>8. CurFree'
      BY <1>1, <1>2, <2>1 DEF CurFree, Scheduling, l
    <2> QED BY <1>1, <2>3, <2>4, <2>5, <2>7, <2>8 DEF WorkGiven
  <1> QED BY <1>3, <1>4

\* The steps of the workers keep the handshake.
LEMMA HandshakeWorker ==
  ASSUME TypeOK, Handshake, NEW w \in Workers, WorkerStep(w)
  PROVE  Handshake'
  <1> USE DEF mainVars
  <1>1. wpc \in [Workers -> {"connect", "ready", "wait", "exec", "run", "end",
                             "exited"}]
        /\ work \in [Workers -> Seq(BOOLEAN)]
    BY DEF TypeOK
  <1>2. ~Stopping => /\ work[w] \in {<<>>, <<TRUE>>}
                     /\ wpc[w] # "wait" => work[w] = <<>>
    BY DEF Handshake, WorkGiven
  <1>3. \A type : Event(type, w).worker = w /\ Event(type, w).type = type
    BY DEF Event
  <1>4. Ready(w).worker = w /\ Ready(w).type = "READY"
    BY DEF Ready
  <1>5. CASE WReady(w)
    <2>1. /\ ~Free(w) /\ queue' = Append(queue, Ready(w)) /\ work' = work
          /\ wpc' = [wpc EXCEPT ![w] = "wait"] /\ UNCHANGED <<idle, cur, mpc>>
          /\ wpc[w] = "ready"
      BY <1>5 DEF WReady, Free
    <2>2. CASE Stopping
      BY <2>1, <2>2 DEF Handshake, Stopping
    <2>3. CASE ~Stopping
      <3>1. Free(w)'
        BY <1>1, <1>2, <2>1, <2>3 DEF Free
      <3> QED BY <1>1, <1>2, <1>4, <2>1, <2>3, <3>1, HandshakePost
    <2> QED BY <2>2, <2>3
  <1>6. ASSUME NEW type \in {"CONNECTED", "START", "END", "EXIT", "FATAL_ERROR"},
               queue' = Append(queue, Event(type, w)) \/ queue' = queue,
               ~Free(w), NEW to, to # "wait", wpc' = [wpc EXCEPT ![w] = to],
               \/ work' = work /\ wpc[w] # "wait"
               \/ work[w] # <<>> /\ work' = [work EXCEPT ![w] = Tail(@)],
               UNCHANGED <<idle, cur, mpc>>
        PROVE  Handshake'
    <2>1. ~Stopping => work'[w] = <<>>
      <3>1. CASE work' = work /\ wpc[w] # "wait"
        BY <1>2, <3>1
      <3>2. CASE work[w] # <<>> /\ work' = [work EXCEPT ![w] = Tail(@)]
        <4>1. Tail(<<TRUE>>) = <<>>
          OBVIOUS
        <4> QED BY <1>1, <1>2, <3>2, <4>1
      <3> QED BY <1>6, <3>1, <3>2
    <2>2. \A v \in Workers \ {w} : wpc'[v] = wpc[v] /\ work'[v] = work[v]
      BY <1>1, <1>6
    <2>3. Event(type, w).worker = w /\ Event(type, w).type # "READY"
      BY <1>3
    <2> QED BY <1>6, <2>1, <2>2, <2>3, HandshakePost
  <1>7. CASE WConnect(w) \/ WStart(w) \/ WEnd(w)
    <2>1. /\ wpc[w] # "wait" /\ ~Free(w) /\ UNCHANGED <<work, idle, cur, mpc>>
          /\ \E to \in {"ready", "run"} : wpc' = [wpc EXCEPT ![w] = to]
          /\ \E type \in {"CONNECTED", "START", "END"} :
                queue' = Append(queue, Event(type, w))
      BY <1>7 DEF WConnect, WStart, WEnd, Free
    <2>2. PICK to \in {"ready", "run"} : wpc' = [wpc EXCEPT ![w] = to]
      BY <2>1
    <2>3. PICK type \in {"CONNECTED", "START", "END"} :
            queue' = Append(queue, Event(type, w))
      BY <2>1
    <2> QED BY <1>6, <2>1, <2>2, <2>3
  <1>8. CASE WPop(w)
    <2>1. /\ work[w] # <<>> /\ work' = [work EXCEPT ![w] = Tail(@)]
          /\ wpc' = [wpc EXCEPT ![w] = "exec"]
          /\ UNCHANGED <<queue, idle, cur, mpc>>
      BY <1>8 DEF WPop
    <2> QED BY <1>6, <2>1 DEF Free
  <1>9. CASE WExit(w)
    <2>1. /\ work[w] # <<>> /\ work' = [work EXCEPT ![w] = Tail(@)]
          /\ wpc' = [wpc EXCEPT ![w] = "exited"]
          /\ queue' = Append(queue, Event("EXIT", w))
          /\ UNCHANGED <<idle, cur, mpc>>
      BY <1>9 DEF WExit
    <2> QED BY <1>6, <2>1 DEF Free
  <1>10. CASE WRun(w)
    <2>1. /\ wpc[w] # "wait" /\ ~Free(w) /\ wpc' = [wpc EXCEPT ![w] = "end"]
          /\ queue' = queue /\ work' = work /\ UNCHANGED <<idle, cur, mpc>>
      BY <1>10 DEF WRun, Free
    <2> QED BY <1>6, <2>1
  <1>11. CASE WFail(w)
    <2>1. /\ wpc[w] # "wait" /\ ~Free(w) /\ wpc' = [wpc EXCEPT ![w] = "exited"]
          /\ queue' = Append(queue, Event("FATAL_ERROR", w))
          /\ work' = work /\ UNCHANGED <<idle, cur, mpc>>
      BY <1>11 DEF WFail, Free
    <2> QED BY <1>6, <2>1
  <1> QED BY <1>5, <1>7, <1>8, <1>9, <1>10, <1>11 DEF WorkerStep

\* READY is still the last event of its worker when one was taken.
LEMMA ReadyLastTaken ==
  ASSUME TypeOK, ReadyLast, queue # <<>>, queue' = Tail(queue)
  PROVE  ReadyLast'
  <1>1. /\ Len(queue) \in Nat /\ Len(queue') = Len(queue) - 1
        /\ \A i \in 1..Len(queue') : queue'[i] = queue[i + 1]
    BY Taken
  <1> SUFFICES ASSUME NEW i \in 1..Len(queue'), NEW j \in 1..Len(queue'),
                      queue'[i].type = "READY",
                      queue'[j].worker = queue'[i].worker
               PROVE  j <= i
    BY DEF ReadyLast
  <1>2. queue'[i] = queue[i + 1] /\ queue'[j] = queue[j + 1]
    BY <1>1
  <1>3. i \in Nat /\ j \in Nat /\ i + 1 \in 1..Len(queue) /\ j + 1 \in 1..Len(queue)
    BY <1>1
  <1>4. j + 1 <= i + 1
    BY <1>2, <1>3 DEF ReadyLast
  <1> QED BY <1>3, <1>4

\* Taking an event from the queue, without making its worker idle or current.
LEMMA HandshakeTake ==
  ASSUME TypeOK, Handshake, ~Scheduling', queue # <<>>, queue' = Tail(queue),
         UNCHANGED <<mpc, idle, wpc, work>>
  PROVE  Handshake'
  <1> DEFINE l == Len(queue')
  <1>1. /\ l \in Nat /\ Len(queue) = l + 1
        /\ \A i \in 1..l : queue'[i] = queue[i + 1]
    BY Taken
  <1> HIDE DEF l
  <1> SUFFICES ASSUME ~Stopping
               PROVE  /\ ReadyLast' /\ ReadyFree' /\ IdleDistinct' /\ IdleFree'
                      /\ CurFree' /\ WorkGiven'
    BY DEF Handshake, Stopping
  <1>2. ReadyLast /\ ReadyFree /\ IdleDistinct /\ IdleFree /\ WorkGiven
    BY DEF Handshake
  <1>3. ReadyLast'
    BY <1>2, ReadyLastTaken
  <1>4. ReadyFree'
    BY <1>1, <1>2 DEF ReadyFree, Free, l
  <1>5. IdleFree'
    BY <1>1, <1>2 DEF IdleFree, Free, Quiet, l
  <1> QED BY <1>2, <1>3, <1>4, <1>5 DEF IdleDistinct, CurFree, WorkGiven

\* READY is posted again for the first n idle workers; the current worker may
\* have been given a task.
LEMMA HandshakeWake ==
  ASSUME TypeOK, Handshake, ~Stopping, ~Scheduling',
         NEW n \in Nat, n <= Len(idle),
         queue' = queue \o [i \in 1..n |-> Ready(idle[i])],
         idle' = SubSeq(idle, n + 1, Len(idle)),
         wpc' = wpc, WorkGiven',
         \A v \in Workers : (Scheduling => v # cur) => work'[v] = work[v]
  PROVE  Handshake'
  <1> DEFINE l == Len(queue)
             m == Len(idle)
             FreeNow(v) == wpc'[v] = "wait" /\ work'[v] = <<>>
  <1>1. /\ l \in Nat /\ m \in Nat
        /\ Len(queue') = l + n
        /\ \A i \in 1..l : queue'[i] = queue[i]
        /\ \A i \in 1..n : queue'[l + i] = Ready(idle[i])
        /\ Len(idle') = m - n
        /\ \A i \in 1..(m - n) : idle'[i] = idle[n + i]
    BY Reposted
  <1>2. ReadyLast /\ ReadyFree /\ IdleDistinct /\ IdleFree /\ CurFree /\ WorkGiven
    BY DEF Handshake
  <1>3. /\ \A i \in 1..l : queue[i].worker \in Workers
        /\ \A i \in 1..m : idle[i] \in Workers
    BY Members
  <1>4. \A i \in 1..l : Scheduling => queue[i].worker # cur
    BY <1>2 DEF CurFree, Quiet
  <1>5. \A i \in 1..m : Scheduling => idle[i] # cur
    BY <1>2 DEF CurFree
  <1>6. \A i \in 1..m : \A j \in 1..l : queue[j].worker # idle[i]
    BY <1>2 DEF IdleFree, Quiet
  <1>7. \A i \in 1..n : Ready(idle[i]).worker = idle[i]
    BY DEF Ready
  <1>8. \A i \in 1..l : queue[i].type = "READY" => FreeNow(queue[i].worker)
    BY <1>2, <1>3, <1>4 DEF ReadyFree, Free
  <1>9. \A i \in 1..m : FreeNow(idle[i])
    BY <1>2, <1>3, <1>5 DEF IdleFree, Free
  <1>10. l \in Nat /\ m \in Nat /\ n \in Nat /\ n <= m
    BY <1>1
  <1>11. /\ \A i, j \in 1..l : queue[i].type = "READY"
               /\ queue[j].worker = queue[i].worker => j <= i
         /\ \A i, j \in 1..m : idle[i] = idle[j] => i = j
    BY <1>2 DEF ReadyLast, IdleDistinct
  <1> HIDE DEF l, m
  <1>12. \A k \in 1..(l + n) :
           \/ k \in 1..l /\ queue'[k] = queue[k]
           \/ \E i \in 1..n : k = l + i /\ queue'[k] = Ready(idle[i])
                              /\ queue'[k].worker = idle[i] /\ i \in 1..m
    <2> SUFFICES ASSUME NEW k \in 1..(l + n), k \notin 1..l
                 PROVE  \E i \in 1..n : k = l + i /\ queue'[k] = Ready(idle[i])
                              /\ queue'[k].worker = idle[i] /\ i \in 1..m
      BY <1>1
    <2>1. k - l \in 1..n /\ k = l + (k - l) /\ k - l \in 1..m
      BY <1>1, <1>10
    <2> QED BY <1>1, <1>7, <2>1
  <1>13. ReadyLast'
    <2> SUFFICES ASSUME NEW i \in 1..(l + n), NEW j \in 1..(l + n),
                        queue'[i].type = "READY",
                        queue'[j].worker = queue'[i].worker
                 PROVE  j <= i
      BY <1>1 DEF ReadyLast
    <2>1. CASE i \in 1..l /\ queue'[i] = queue[i]
      <3>1. j \in 1..l /\ queue'[j] = queue[j]
        BY <1>6, <1>12, <2>1
      <3> QED BY <1>11, <2>1, <3>1
    <2>2. CASE \E x \in 1..n : /\ i = l + x /\ queue'[i] = Ready(idle[x])
                               /\ queue'[i].worker = idle[x] /\ x \in 1..m
      <3>1. PICK x \in 1..n : /\ i = l + x /\ x \in 1..m
                              /\ queue'[i].worker = idle[x]
        BY <2>2
      <3>2. CASE j \in 1..l
        BY <1>10, <3>1, <3>2
      <3>3. CASE \E y \in 1..n : j = l + y /\ queue'[j].worker = idle[y]
                                  /\ y \in 1..m
        <4>1. PICK y \in 1..n : j = l + y /\ queue'[j].worker = idle[y]
                               /\ y \in 1..m
          BY <3>3
        <4>2. x = y
          BY <1>11, <3>1, <4>1
        <4>3. j = i
          BY <3>1, <4>1, <4>2
        <4> QED BY <1>10, <4>3
      <3> QED BY <1>12, <3>2, <3>3
    <2> QED BY <1>12, <2>1, <2>2
  <1>14. ReadyFree'
    <2> SUFFICES ASSUME NEW i \in 1..(l + n), queue'[i].type = "READY"
                 PROVE  FreeNow(queue'[i].worker)
      BY <1>1 DEF ReadyFree, Free
    <2> HIDE DEF FreeNow
    <2> QED BY <1>8, <1>9, <1>12
  <1>15. IdleDistinct'
    <2> SUFFICES ASSUME NEW i \in 1..(m - n), NEW j \in 1..(m - n),
                        idle'[i] = idle'[j]
                 PROVE  i = j
      BY <1>1 DEF IdleDistinct
    <2>1. n + i \in 1..m /\ n + j \in 1..m
      BY <1>10
    <2> QED BY <1>1, <1>11, <2>1
  <1>16. IdleFree'
    <2> SUFFICES ASSUME NEW i \in 1..(m - n)
                 PROVE  /\ FreeNow(idle'[i])
                        /\ \A k \in 1..(l + n) : queue'[k].worker # idle'[i]
      BY <1>1 DEF IdleFree, Free, Quiet
    <2>1. n + i \in 1..m /\ idle'[i] = idle[n + i] /\ i \in Nat /\ i > 0
      BY <1>1, <1>10
    <2>2. \A k \in 1..(l + n) : queue'[k].worker # idle[n + i]
      <3> SUFFICES ASSUME NEW k \in 1..(l + n), queue'[k].worker = idle[n + i]
                   PROVE  FALSE
        OBVIOUS
      <3>1. CASE k \in 1..l /\ queue'[k] = queue[k]
        BY <1>6, <2>1, <3>1
      <3>2. CASE \E x \in 1..n : queue'[k].worker = idle[x] /\ x \in 1..m
        BY <1>1, <1>11, <2>1, <3>2
      <3> QED BY <1>12, <3>1, <3>2
    <2> QED BY <1>9, <2>1, <2>2
  <1> QED BY <1>13, <1>14, <1>15, <1>16 DEF Handshake, CurFree

\* The steps of the main thread keep the handshake.
LEMMA HandshakeMain ==
  ASSUME TypeOK, TopPosition, Handshake, MainStep
  PROVE  Handshake'
  <1> USE DEF mainVars, restVars, workerVars
  <1>1. CASE HandleOther
    BY <1>1, HandshakeTake DEF HandleOther, Handling, Scheduling
  <1>2. CASE HandleEnd
    BY <1>2, HandshakeTake DEF HandleEnd, Handling, Scheduling
  <1>3. CASE HandleExit
    BY <1>3, HandshakeTake DEF HandleExit, Handling, Scheduling
  <1>4. CASE HandleReady
    <2> DEFINE w == Head(queue).worker
               l == Len(queue')
    <2>1. /\ mpc = "events" /\ queue # <<>> /\ queue' = Tail(queue)
          /\ UNCHANGED <<wpc, work>> /\ Head(queue).type = "READY"
      BY <1>4 DEF HandleReady, Handling
    <2>2. \/ idle' = Append(idle, w) /\ UNCHANGED mpc
          \/ mpc' = "schedule" /\ cur' = w /\ idle' = idle
      BY <1>4 DEF HandleReady
    <2>3. ReadyLast /\ ReadyFree /\ IdleDistinct /\ IdleFree /\ WorkGiven
      BY <2>1 DEF Handshake, Stopping
    <2>4. /\ l \in Nat /\ Len(queue) = l + 1 /\ Head(queue) = queue[1]
          /\ \A i \in 1..l : queue'[i] = queue[i + 1]
      BY <2>1, Taken
    <2>5. idle \in Seq(Workers) /\ w \in Workers
      BY <2>4, Members DEF TypeOK
    <2>6. Free(w)
      BY <2>1, <2>3, <2>4 DEF ReadyFree
    <2>7. \A i \in 1..Len(idle) : idle[i] # w
      BY <2>3, <2>4 DEF IdleFree, Quiet
    <2> HIDE DEF l
    <2>8. \A i \in 1..l : queue'[i].worker # w
      <3> SUFFICES ASSUME NEW i \in 1..l, queue[i + 1].worker = w PROVE FALSE
        BY <2>4
      <3>1. 1 \in 1..Len(queue) /\ i + 1 \in 1..Len(queue)
        BY <2>4
      <3>2. i + 1 <= 1
        BY <2>1, <2>3, <2>4, <3>1 DEF ReadyLast
      <3> QED BY <2>4, <3>2
    <2> HIDE DEF w
    <2>9. ReadyLast'
      BY <2>1, <2>3, ReadyLastTaken
    <2>10. ReadyFree'
      BY <2>1, <2>3, <2>4 DEF ReadyFree, Free, l
    <2>11. \A i \in 1..Len(idle) : Free(idle[i])
                /\ \A k \in 1..l : queue'[k].worker # idle[i]
      BY <2>3, <2>4 DEF IdleFree, Quiet
    <2>12. CASE idle' = Append(idle, w) /\ UNCHANGED mpc
      <3>1. /\ Len(idle) \in Nat /\ Len(idle') = Len(idle) + 1
            /\ \A i \in 1..Len(idle) : idle'[i] = idle[i]
            /\ idle'[Len(idle) + 1] = w
        BY <2>5, <2>12
      <3>2. IdleDistinct'
        BY <2>3, <2>7, <3>1 DEF IdleDistinct
      <3>3. IdleFree'
        BY <2>1, <2>6, <2>8, <2>11, <3>1 DEF IdleFree, Free, Quiet, l
      <3> QED BY <2>1, <2>3, <2>9, <2>10, <2>12, <3>2, <3>3
              DEF Handshake, CurFree, Scheduling, WorkGiven
    <2>13. CASE mpc' = "schedule" /\ cur' = w /\ idle' = idle
      <3>1. IdleDistinct'
        BY <2>3, <2>13 DEF IdleDistinct
      <3>2. IdleFree'
        BY <2>1, <2>11, <2>13 DEF IdleFree, Free, Quiet, l
      <3>3. CurFree'
        BY <2>1, <2>6, <2>7, <2>8, <2>13 DEF CurFree, Free, Quiet, l
      <3> QED BY <2>1, <2>3, <2>9, <2>10, <3>1, <3>2, <3>3
              DEF Handshake, WorkGiven
    <2> QED BY <2>2, <2>12, <2>13
  <1>5. CASE LeaveEvents
    <2>1. idle \in Seq(Workers) /\ DOMAIN idle = 1..Len(idle) /\ Len(idle) \in Nat
      BY DEF TypeOK
    <2>2. SubSeq(idle, Len(idle) + 1, Len(idle)) = <<>>
      BY <2>1
    <2>3. /\ mpc = "events" /\ mpc' \in {"scan", "check"} /\ UNCHANGED <<wpc, work>>
          /\ queue' = queue \o [i \in 1..Len(idle) |-> Ready(idle[i])]
          /\ idle' = SubSeq(idle, Len(idle) + 1, Len(idle))
      BY <1>5, <2>1, <2>2 DEF LeaveEvents
    <2>4. WorkGiven'
      BY <2>3 DEF Handshake, WorkGiven, Stopping
    <2>5. /\ ~Stopping /\ ~Scheduling' /\ Len(idle) <= Len(idle)
          /\ \A v \in Workers : (Scheduling => v # cur) => work'[v] = work[v]
      BY <2>1, <2>3 DEF Stopping, Scheduling
    <2> QED BY <2>1, <2>3, <2>4, <2>5, HandshakeWake
  <1>6. CASE AssignIdle
    <2>1. /\ mpc = "assign" /\ mpc' = "events" /\ idle' = Append(idle, cur)
          /\ UNCHANGED <<queue, wpc, work>>
      BY <1>6 DEF AssignIdle
    <2>2. ReadyLast /\ ReadyFree /\ IdleDistinct /\ IdleFree /\ CurFree /\ WorkGiven
      BY <2>1 DEF Handshake, Stopping
    <2>3. /\ Free(cur) /\ Quiet(cur)
          /\ \A i \in 1..Len(idle) : idle[i] # cur
      BY <2>1, <2>2 DEF CurFree, Scheduling
    <2>4. /\ Len(idle) \in Nat /\ Len(idle') = Len(idle) + 1
          /\ \A i \in 1..Len(idle) : idle'[i] = idle[i]
          /\ idle'[Len(idle) + 1] = cur
      BY <2>1 DEF TypeOK
    <2>5. IdleDistinct'
      BY <2>2, <2>3, <2>4 DEF IdleDistinct
    <2>6. IdleFree'
      BY <2>1, <2>2, <2>3, <2>4 DEF IdleFree, Free, Quiet
    <2> QED BY <2>1, <2>2, <2>5, <2>6 DEF Handshake, ReadyLast, ReadyFree, Free,
                                          CurFree, Scheduling, WorkGiven
  <1>7. CASE AssignTask
    <2>1. /\ mpc = "assign" /\ mpc' = "events" /\ UNCHANGED wpc
          /\ work' = [work EXCEPT ![cur] = Append(@, TRUE)]
      BY <1>7 DEF AssignTask
    <2>2. PICK n \in Nat : /\ n <= Len(idle)
                           /\ queue' = queue \o [i \in 1..n |-> Ready(idle[i])]
                           /\ idle' = SubSeq(idle, n + 1, Len(idle))
      BY <1>7, AssignWakes
    <2>3. work[cur] = <<>> /\ wpc[cur] = "wait" /\ WorkGiven
      BY <2>1 DEF Handshake, Stopping, CurFree, Scheduling, Free
    <2>4. /\ work \in [Workers -> Seq(BOOLEAN)] /\ cur \in Workers
          /\ Append(work[cur], TRUE) = <<TRUE>>
      BY <2>3 DEF TypeOK
    <2>5. WorkGiven'
      BY <2>1, <2>3, <2>4 DEF WorkGiven
    <2>6. \A v \in Workers : (Scheduling => v # cur) => work'[v] = work[v]
      BY <2>1, <2>4 DEF Scheduling
    <2>7. ~Stopping /\ ~Scheduling'
      BY <2>1 DEF Stopping, Scheduling
    <2> QED BY <2>1, <2>2, <2>5, <2>6, <2>7, HandshakeWake
  <1>8. CASE \/ NextTableDdl \/ NextChunk \/ NoChunk \/ NextIndex \/ NextAnalyze
             \/ NextChecksum
    <2>1. Scheduling /\ Scheduling' /\ UNCHANGED <<queue, idle, wpc, work, cur>>
      BY <1>8 DEF Scheduling, NextTableDdl, NextChunk, NoChunk, NextIndex,
                  NextAnalyze, NextChecksum, Push, Emplace
    <2> QED BY <2>1, HandshakeFrame DEF Scheduling, Stopping
  <1>9. CASE StartTasks \/ Scan \/ Check \/ JoinWorkers
    <2>1. /\ ~Scheduling'
          /\ Stopping => Stopping'
          /\ UNCHANGED <<queue, idle, wpc, work, cur>>
      BY <1>9 DEF StartTasks, Scan, Check, JoinWorkers, Scheduling, Stopping
    <2> QED BY <2>1, HandshakeFrame
  <1>10. CASE StopWorkers
    BY <1>10 DEF StopWorkers, Handshake, Stopping
  <1> QED BY <1>1, <1>2, <1>3, <1>4, <1>5, <1>6, <1>7, <1>8, <1>9, <1>10
          DEF MainStep

\* The other steps keep the handshake.
LEMMA HandshakeOther ==
  ASSUME Handshake, \/ MainFail \/ FetchFail \/ Interrupt \/ DumpStep
                    \/ UNCHANGED vars
  PROVE  Handshake'
  <1>1. UNCHANGED <<queue, idle, wpc, work, cur>>
    BY DEF MainFail, FetchFail, Interrupt, DumpStep, FinishDump, WriteChunk, vars,
           mainVars, workerVars
  <1>2. /\ Scheduling' => Scheduling
        /\ Stopping => Stopping'
    BY DEF MainFail, FetchFail, Interrupt, DumpStep, FinishDump, WriteChunk, vars,
           mainVars, Scheduling, Stopping
  <1> QED BY <1>1, <1>2, HandshakeFrame

\* Every step keeps the handshake.
LEMMA HandshakeNext ==
  TypeOK /\ TopPosition /\ Handshake /\ [Next]_vars => Handshake'
  BY HandshakeWorker, HandshakeMain, HandshakeOther DEF Next, Done

\* It holds in the beginning, when nothing is queued.
LEMMA HandshakeInit == Init => Handshake /\ EventTaskMatch
  <1> SUFFICES ASSUME Init PROVE Handshake /\ EventTaskMatch
    OBVIOUS
  <1>1. Len(queue) = 0 /\ Len(idle) = 0 /\ ~Scheduling
    BY DEF Init, Scheduling
  <1>2. WorkGiven
    BY DEF Init, WorkGiven
  <1> QED BY <1>1, <1>2 DEF Handshake, ReadyLast, ReadyFree, IdleDistinct,
                            IdleFree, CurFree, EventTaskMatch

----------------------------------------------------------------------------
(* The events and the tasks they are about.                                 *)

\* An event tells the task of its worker, given a function from workers to
\* tasks: what EventTaskMatch says of one event.
Matches(e, ts) ==
  e.type \in {"START", "END"} =>
    ts[e.worker].kind = e.kind /\ ts[e.worker].of = e.of
    /\ ts[e.worker].index = e.index

\* Events are only added about the task that their worker holds, and that is
\* replaced only when none is queued.
LEMMA MatchNext ==
  TypeOK /\ TopPosition /\ Handshake /\ EventTaskMatch /\ [Next]_vars
    => EventTaskMatch'
  <1> SUFFICES ASSUME TypeOK, TopPosition, Handshake, EventTaskMatch, [Next]_vars
               PROVE  EventTaskMatch'
    OBVIOUS
  <1> USE DEF mainVars, restVars, workerVars
  <1>1. \A i \in 1..Len(queue) : Matches(queue[i], task)
    BY DEF EventTaskMatch, Matches
  <1>2. ASSUME \A i \in 1..Len(queue') : Matches(queue'[i], task')
        PROVE  EventTaskMatch'
    BY <1>2 DEF EventTaskMatch, Matches
  <1>3. ASSUME UNCHANGED <<queue, task>> PROVE EventTaskMatch'
    BY <1>1, <1>2, <1>3
  <1>4. ASSUME NEW e, queue' = Append(queue, e), task' = task, Matches(e, task)
        PROVE  EventTaskMatch'
    <2>1. /\ Len(queue) \in Nat /\ Len(queue') = Len(queue) + 1
          /\ \A i \in 1..Len(queue) : queue'[i] = queue[i]
          /\ queue'[Len(queue) + 1] = e
      BY <1>4, Posted
    <2>2. \A i \in 1..Len(queue') : Matches(queue'[i], task)
      BY <1>1, <1>4, <2>1
    <2> QED BY <1>2, <1>4, <2>2
  <1>5. ASSUME NEW n \in Nat, n <= Len(idle),
               queue' = queue \o [i \in 1..n |-> Ready(idle[i])],
               idle' = SubSeq(idle, n + 1, Len(idle)),
               \A i \in 1..Len(queue) : Matches(queue[i], task')
        PROVE  EventTaskMatch'
    <2>1. /\ Len(queue) \in Nat /\ Len(queue') = Len(queue) + n
          /\ \A i \in 1..Len(queue) : queue'[i] = queue[i]
          /\ \A i \in 1..n : queue'[Len(queue) + i] = Ready(idle[i])
      BY <1>5, Reposted
    <2>2. \A v : Matches(Ready(v), task')
      BY DEF Matches, Ready
    <2>3. ASSUME NEW k \in 1..Len(queue') PROVE Matches(queue'[k], task')
      <3>1. CASE k \in 1..Len(queue)
        BY <1>5, <2>1, <3>1
      <3>2. CASE k \notin 1..Len(queue)
        <4>1. k - Len(queue) \in 1..n /\ k = Len(queue) + (k - Len(queue))
          BY <2>1, <3>2
        <4>2. queue'[k] = Ready(idle[k - Len(queue)])
          BY <2>1, <4>1
        <4> QED BY <2>2, <4>2
      <3> QED BY <3>1, <3>2
    <2> QED BY <1>2, <2>3
  <1>6. ASSUME queue # <<>>, queue' = Tail(queue),
               \A i \in 1..Len(queue) : Matches(queue[i], task')
        PROVE  EventTaskMatch'
    <2>1. /\ Len(queue) \in Nat /\ Len(queue') = Len(queue) - 1
          /\ \A i \in 1..Len(queue') : queue'[i] = queue[i + 1]
      BY <1>6, Taken
    <2>2. \A i \in 1..Len(queue') : i + 1 \in 1..Len(queue)
      BY <2>1
    <2> QED BY <1>2, <1>6, <2>1, <2>2
  <1>7. \A w \in Workers : \A type : Matches(Event(type, w), task)
    BY DEF Matches, Event
  <1>8. \A w \in Workers : Matches(Ready(w), task)
    BY DEF Matches, Ready
  <1>9. ASSUME NEW w \in Workers, WorkerStep(w) PROVE EventTaskMatch'
    <2>1. task' = task
      BY <1>9 DEF WorkerStep, WConnect, WReady, WPop, WExit, WStart, WRun, WEnd,
                  WFail
    <2>2. \/ queue' = queue \/ queue' = Append(queue, Ready(w))
          \/ \E type : queue' = Append(queue, Event(type, w))
      BY <1>9 DEF WorkerStep, WConnect, WReady, WPop, WExit, WStart, WRun, WEnd,
                  WFail
    <2> QED BY <1>3, <1>4, <1>7, <1>8, <1>9, <2>1, <2>2
  <1>10. CASE HandleOther \/ HandleEnd \/ HandleExit
    <2>1. queue # <<>> /\ queue' = Tail(queue) /\ task' = task
      BY <1>10 DEF HandleOther, HandleEnd, HandleExit, Handling
    <2> QED BY <1>1, <1>6, <2>1
  <1>11. CASE HandleReady
    <2> DEFINE w == Head(queue).worker
    <2>1. /\ queue # <<>> /\ queue' = Tail(queue)
          /\ task' = [task EXCEPT ![w] = [task[w] EXCEPT !.weight = 0]]
      BY <1>11 DEF HandleReady, Handling
    <2>2. task \in [Workers -> Tasks]
      BY DEF TypeOK
    <2> HIDE DEF w
    <2>3. \A v \in Workers : /\ task'[v].kind = task[v].kind
                             /\ task'[v].of = task[v].of
                             /\ task'[v].index = task[v].index
      BY <2>1, <2>2 DEF Tasks
    <2>4. \A i \in 1..Len(queue) : Matches(queue[i], task')
      BY <1>1, <2>3, Members DEF Matches
    <2> QED BY <1>6, <2>1, <2>4
  <1>12. CASE LeaveEvents
    <2>1. idle \in Seq(Workers) /\ DOMAIN idle = 1..Len(idle) /\ Len(idle) \in Nat
      BY DEF TypeOK
    <2>2. SubSeq(idle, Len(idle) + 1, Len(idle)) = <<>>
      BY <2>1
    <2>3. /\ queue' = queue \o [i \in 1..Len(idle) |-> Ready(idle[i])]
          /\ idle' = SubSeq(idle, Len(idle) + 1, Len(idle)) /\ task' = task
      BY <1>12, <2>1, <2>2 DEF LeaveEvents
    <2> QED BY <1>1, <1>5, <2>1, <2>3
  <1>13. CASE AssignTask
    <2>1. mpc = "assign" /\ task' = [task EXCEPT ![cur] = TopTask]
      BY <1>13 DEF AssignTask
    <2>2. \A i \in 1..Len(queue) : queue[i].worker # cur
      BY <2>1 DEF Handshake, Stopping, CurFree, Scheduling, Quiet
    <2>3. \A v \in Workers : v # cur => task'[v] = task[v]
      BY <2>1 DEF TypeOK
    <2>4. \A i \in 1..Len(queue) : Matches(queue[i], task')
      BY <1>1, <2>2, <2>3, Members DEF Matches
    <2>5. PICK n \in Nat : /\ n <= Len(idle)
                           /\ queue' = queue \o [i \in 1..n |-> Ready(idle[i])]
                           /\ idle' = SubSeq(idle, n + 1, Len(idle))
      BY <1>13, AssignWakes
    <2> QED BY <1>5, <2>4, <2>5
  <1>14. CASE \/ NextTableDdl \/ NextChunk \/ NoChunk \/ NextIndex \/ NextAnalyze
              \/ NextChecksum \/ AssignIdle \/ StartTasks \/ Scan \/ Check
              \/ StopWorkers \/ JoinWorkers \/ MainFail \/ FetchFail \/ Interrupt
              \/ DumpStep \/ UNCHANGED vars
    <2>1. UNCHANGED <<queue, task>>
      BY <1>14 DEF NextTableDdl, NextChunk, NoChunk, NextIndex, NextAnalyze,
           NextChecksum, AssignIdle, StartTasks, Scan, Check, StopWorkers,
           JoinWorkers, MainFail, FetchFail, Interrupt, DumpStep, FinishDump,
           WriteChunk, vars
    <2> QED BY <1>3, <2>1
  <1> QED BY <1>9, <1>10, <1>11, <1>12, <1>13, <1>14 DEF Next, MainStep, Done

----------------------------------------------------------------------------
(* The sum of the weights of the tasks the workers hold.                    *)

\* The worker MapThenSumSet takes next, out of a set of them.
Taker(s) == CHOOSE w \in s : TRUE

\* One step of the sum of the weights, over a set of workers.
SumStep(g, t, s) ==
  IF s = {} THEN 0 ELSE t[Taker(s)].weight + g[s \ {Taker(s)}]

IsSum(g, t) == g = [s \in SUBSET Workers |-> SumStep(g, t, s)]

WeightSum(t) == MapThenSumSet(LAMBDA w : t[w].weight, Workers)

\* Every set of natural numbers has a least element.
LEMMA LeastExists ==
  ASSUME NEW S \in SUBSET Nat, S # {}
  PROVE  \E x \in S : \A y \in S : x <= y
  <1>1. IsWellFoundedOn(OpToRel(<, Nat), Nat)
    BY NatLessThanWellFounded
  <1>2. \E x \in S : \A y \in S : ~(<<y, x>> \in OpToRel(<, Nat))
    BY <1>1, WFMin
  <1>3. PICK x \in S : \A y \in S : ~(<<y, x>> \in OpToRel(<, Nat))
    BY <1>2
  <1>4. \A y \in S : ~(y < x)
    BY <1>3 DEF OpToRel
  <1>. QED  BY <1>4

\* A set of workers without the one that is taken next.
LEMMA TakerLeaves ==
  ASSUME NEW s \in SUBSET Workers, s # {}
  PROVE  /\ Taker(s) \in s /\ Taker(s) \in Workers
         /\ s \ {Taker(s)} \in SUBSET Workers
         /\ Cardinality(s) \in Nat /\ Cardinality(s) > 0
         /\ Cardinality(s \ {Taker(s)}) = Cardinality(s) - 1
  <1>1. Taker(s) \in s
    BY DEF Taker
  <1>2. IsFiniteSet(s)
    BY FS_Subset, SchedulerAssumption
  <1>3. Cardinality(s \ {Taker(s)}) = Cardinality(s) - 1
    BY <1>1, <1>2, FS_RemoveElement
  <1>4. Cardinality(s) \in Nat /\ Cardinality(s) # 0
    BY <1>2, FS_CardinalityType, FS_EmptySet
  <1> QED BY <1>1, <1>3, <1>4

\* The recursion of the sum has a solution: one for the sets of up to n workers
\* is extended to those with one more.
LEMMA SumExists ==
  ASSUME NEW t \in [Workers -> Tasks]
  PROVE  \E g \in [SUBSET Workers -> Int] : IsSum(g, t)
  <1> DEFINE Upto(g, n) == \A s \in SUBSET Workers :
                             Cardinality(s) <= n => g[s] = SumStep(g, t, s)
             Good(n) == \E g \in [SUBSET Workers -> Int] : Upto(g, n)
             Bad == {n \in Nat : ~Good(n)}
  <1>0. \A s \in SUBSET Workers : IsFiniteSet(s) /\ Cardinality(s) \in Nat
    BY FS_Subset, FS_CardinalityType, SchedulerAssumption
  <1>1. Good(0)
    <2> DEFINE g == [s \in SUBSET Workers |-> 0]
    <2>1. ASSUME NEW s \in SUBSET Workers, Cardinality(s) <= 0
          PROVE  g[s] = SumStep(g, t, s)
      <3>1. s = {}
        BY <1>0, <2>1, FS_EmptySet
      <3> QED BY <3>1 DEF SumStep
    <2>2. g \in [SUBSET Workers -> Int]
      OBVIOUS
    <2> QED BY <2>1, <2>2
  <1>2. ASSUME NEW n \in Nat, n > 0, Good(n - 1) PROVE Good(n)
    <2>1. PICK g \in [SUBSET Workers -> Int] : Upto(g, n - 1)
      BY <1>2
    <2> DEFINE h == [s \in SUBSET Workers |->
                       IF Cardinality(s) < n THEN g[s] ELSE SumStep(g, t, s)]
    <2>2. \A s \in SUBSET Workers : SumStep(g, t, s) \in Int
      <3> TAKE s \in SUBSET Workers
      <3>1. CASE s = {}
        BY <3>1 DEF SumStep
      <3>2. CASE s # {}
        <4>1. /\ Taker(s) \in Workers /\ s \ {Taker(s)} \in SUBSET Workers
          BY <3>2, TakerLeaves
        <4>2. t[Taker(s)].weight \in Int
          BY <4>1, PoolSize DEF Tasks
        <4> QED BY <3>2, <4>1, <4>2 DEF SumStep
      <3> QED BY <3>1, <3>2
    <2>3. h \in [SUBSET Workers -> Int]
      BY <2>2
    <2>4. ASSUME NEW s \in SUBSET Workers, Cardinality(s) <= n
          PROVE  h[s] = SumStep(g, t, s)
      <3>1. CASE Cardinality(s) < n
        BY <1>0, <1>2, <2>1, <3>1
      <3>2. CASE ~(Cardinality(s) < n)
        BY <3>2
      <3> QED BY <3>1, <3>2
    <2>5. ASSUME NEW s \in SUBSET Workers, Cardinality(s) <= n
          PROVE  SumStep(h, t, s) = SumStep(g, t, s)
      <3>1. CASE s = {}
        BY <3>1 DEF SumStep
      <3>2. CASE s # {}
        <4>1. /\ s \ {Taker(s)} \in SUBSET Workers
              /\ Cardinality(s \ {Taker(s)}) = Cardinality(s) - 1
              /\ Cardinality(s) \in Nat
          BY <3>2, TakerLeaves
        <4>2. h[s \ {Taker(s)}] = g[s \ {Taker(s)}]
          BY <2>5, <4>1
        <4> QED BY <4>2 DEF SumStep
      <3> QED BY <3>1, <3>2
    <2> HIDE DEF h
    <2>6. Upto(h, n)
      BY <2>4, <2>5
    <2> QED BY <2>3, <2>6
  <1> HIDE DEF Good
  <1>3. \A n \in Nat : Good(n)
    <2> SUFFICES ASSUME Bad # {} PROVE FALSE
      OBVIOUS
    <2>1. PICK n \in Bad : \A m \in Bad : n <= m
      BY LeastExists
    <2>2. n \in Nat /\ ~Good(n)
      BY <2>1
    <2>3. n > 0
      BY <1>1, <2>2
    <2>4. n - 1 \in Nat /\ n - 1 \notin Bad
      BY <2>1, <2>2, <2>3
    <2>5. Good(n - 1)
      BY <2>4
    <2> QED BY <1>2, <2>2, <2>3, <2>5
  <1>4. Cardinality(Workers) \in Nat
        /\ \A s \in SUBSET Workers : Cardinality(s) <= Cardinality(Workers)
    BY FS_Subset, FS_CardinalityType, SchedulerAssumption
  <1>5. PICK g \in [SUBSET Workers -> Int] : Upto(g, Cardinality(Workers))
    BY <1>3, <1>4 DEF Good
  <1>6. \A s \in SUBSET Workers : g[s] = SumStep(g, t, s)
    BY <1>4, <1>5
  <1>7. IsSum(g, t)
    BY <1>6 DEF IsSum
  <1> QED BY <1>7

\* MapThenSumSet, by its definition.
LEMMA SumIs ==
  ASSUME NEW t
  PROVE  WeightSum(t) = (CHOOSE g : IsSum(g, t))[Workers]
  BY DEF WeightSum, MapThenSumSet, MapThenFoldSet, IsSum, SumStep, Taker

\* A set of sets of workers has a member that is empty, or whose next smaller
\* set is not in it.
LEMMA LeastWorkers ==
  ASSUME NEW Bad, Bad \subseteq SUBSET Workers, Bad # {}
  PROVE  \E s \in Bad :
           s # {} => /\ Taker(s) \in s /\ Taker(s) \in Workers
                     /\ s \ {Taker(s)} \in SUBSET Workers
                     /\ s \ {Taker(s)} \notin Bad
  <1> DEFINE Sizes == {n \in Nat : \E s \in Bad : Cardinality(s) = n}
  <1>1. \A s \in SUBSET Workers : Cardinality(s) \in Nat
    BY FS_Subset, FS_CardinalityType, SchedulerAssumption
  <1>2. Sizes # {}
    BY <1>1
  <1>3. PICK n \in Sizes : \A m \in Sizes : n <= m
    BY <1>2, LeastExists
  <1>4. PICK s \in Bad : Cardinality(s) = n
    BY <1>3
  <1>5. ASSUME s # {}
        PROVE  /\ Taker(s) \in s /\ Taker(s) \in Workers
               /\ s \ {Taker(s)} \in SUBSET Workers
               /\ s \ {Taker(s)} \notin Bad
    <2>1. /\ Taker(s) \in s /\ Taker(s) \in Workers
          /\ s \ {Taker(s)} \in SUBSET Workers
          /\ Cardinality(s) \in Nat /\ Cardinality(s) > 0
          /\ Cardinality(s \ {Taker(s)}) = Cardinality(s) - 1
      BY <1>5, TakerLeaves
    <2>2. n - 1 \in Nat /\ n - 1 \notin Sizes
      BY <1>3, <1>4, <2>1
    <2>3. s \ {Taker(s)} \notin Bad
      BY <1>4, <2>1, <2>2
    <2> QED BY <2>1, <2>3
  <1> QED BY <1>4, <1>5

\* The function that sums up the weights of any set of workers.
SumOf(g, t) ==
  /\ \A s \in SUBSET Workers : g[s] = SumStep(g, t, s)
  /\ WeightSum(t) = g[Workers]

\* The sum, as a function of the set of workers.
LEMMA SumRecursion ==
  ASSUME NEW t \in [Workers -> Tasks]
  PROVE  \E g \in [SUBSET Workers -> Int] : SumOf(g, t)
  <1> DEFINE f == CHOOSE g : IsSum(g, t)
  <1>1. \E h : IsSum(h, t)
    BY SumExists
  <1>2. IsSum(f, t)
    BY <1>1
  <1>3. WeightSum(t) = f[Workers]
    BY SumIs
  <1>4. \A s \in SUBSET Workers : f[s] = SumStep(f, t, s)
    BY <1>2 DEF IsSum
  <1>5. f = [s \in SUBSET Workers |-> f[s]]
    BY <1>2 DEF IsSum
  <1> HIDE DEF f
  <1> DEFINE Bad == {s \in SUBSET Workers : f[s] \notin Int}
  <1>6. Bad = {}
    <2> SUFFICES ASSUME Bad # {} PROVE FALSE
      OBVIOUS
    <2>1. PICK s \in Bad :
            s # {} => /\ Taker(s) \in s /\ Taker(s) \in Workers
                      /\ s \ {Taker(s)} \in SUBSET Workers
                      /\ s \ {Taker(s)} \notin Bad
      BY LeastWorkers
    <2>2. s # {}
      <3>1. f[{}] = 0
        BY <1>4 DEF SumStep
      <3>2. s = {} => f[s] = 0
        BY <3>1
      <3>3. f[s] \notin Int
        BY <2>1
      <3> QED BY <3>2, <3>3
    <2>3. f[s \ {Taker(s)}] \in Int
      BY <2>1, <2>2
    <2>4. t[Taker(s)].weight \in Int
      BY <2>1, <2>2, PoolSize DEF Tasks
    <2>5. f[s] = t[Taker(s)].weight + f[s \ {Taker(s)}]
      BY <1>4, <2>1, <2>2 DEF SumStep
    <2> QED BY <2>1, <2>3, <2>4, <2>5
  <1>7. f \in [SUBSET Workers -> Int]
    BY <1>5, <1>6
  <1>8. SumOf(f, t)
    BY <1>3, <1>4 DEF SumOf
  <1> QED BY <1>7, <1>8

\* The sum after the weight of one worker changed.
LEMMA SumUpdate ==
  ASSUME NEW t \in [Workers -> Tasks], NEW u \in [Workers -> Tasks],
         NEW w \in Workers,
         \A v \in Workers : v # w => u[v].weight = t[v].weight
  PROVE  WeightSum(u) = WeightSum(t) - t[w].weight + u[w].weight
  <1>1. PICK g \in [SUBSET Workers -> Int] : SumOf(g, t)
    BY SumRecursion
  <1>2. PICK h \in [SUBSET Workers -> Int] : SumOf(h, u)
    BY SumRecursion
  <1>3. \A v \in Workers : t[v].weight \in Int /\ u[v].weight \in Int
    BY PoolSize DEF Tasks
  <1> DEFINE d == u[w].weight - t[w].weight
             Bad == {s \in SUBSET Workers :
                       h[s] # IF w \in s THEN g[s] + d ELSE g[s]}
  <1>4. Bad = {}
    <2> SUFFICES ASSUME Bad # {} PROVE FALSE
      OBVIOUS
    <2>1. PICK s \in Bad :
            s # {} => /\ Taker(s) \in s /\ Taker(s) \in Workers
                      /\ s \ {Taker(s)} \in SUBSET Workers
                      /\ s \ {Taker(s)} \notin Bad
      BY LeastWorkers
    <2>2. s # {}
      BY <1>1, <1>2, <2>1 DEF SumOf, SumStep
    <2> DEFINE v == Taker(s)
               r == s \ {v}
    <2>3. /\ v \in s /\ v \in Workers /\ r \in SUBSET Workers
          /\ h[r] = IF w \in r THEN g[r] + d ELSE g[r]
      BY <2>1, <2>2
    <2>4. /\ g[s] = t[v].weight + g[r]
          /\ h[s] = u[v].weight + h[r]
      BY <1>1, <1>2, <2>1, <2>2 DEF SumOf, SumStep
    <2>5. g[r] \in Int /\ h[r] \in Int /\ d \in Int
      BY <1>3, <2>3
    <2>6. w \in r <=> w \in s /\ v # w
      OBVIOUS
    <2> HIDE DEF v, r
    <2>7. h[s] = IF w \in s THEN g[s] + d ELSE g[s]
      <3>1. CASE v = w
        BY <1>3, <2>3, <2>4, <2>5, <2>6, <3>1
      <3>2. CASE v # w
        <4>1. u[v].weight = t[v].weight /\ t[v].weight \in Int
          BY <1>3, <2>3, <3>2
        <4> HIDE DEF d
        <4> QED BY <2>3, <2>4, <2>5, <2>6, <3>2, <4>1
      <3> QED BY <3>1, <3>2
    <2> QED BY <2>1, <2>7
  <1>5. h[Workers] = g[Workers] + d
    BY <1>4
  <1> QED BY <1>1, <1>2, <1>3, <1>5 DEF SumOf

\* Bounds of the sum: it is not negative; it is zero when all weights are; and
\* with weights of one at most, and none on some worker, it is below the size
\* of the pool.
LEMMA SumBounds ==
  ASSUME NEW t \in [Workers -> Tasks]
  PROVE  /\ WeightSum(t) \in Nat
         /\ (\A v \in Workers : t[v].weight = 0) => WeightSum(t) = 0
         /\ \A w \in Workers :
              (\A v \in Workers : t[v].weight <= 1) /\ t[w].weight = 0
                => WeightSum(t) < threads_count
  <1>1. PICK g \in [SUBSET Workers -> Int] : SumOf(g, t)
    BY SumRecursion
  <1>2. \A v \in Workers : t[v].weight \in Nat
    BY PoolSize DEF Tasks
  <1>3. ASSUME NEW s \in SUBSET Workers, s # {}
        PROVE  g[s] = t[Taker(s)].weight + g[s \ {Taker(s)}]
    BY <1>1, <1>3 DEF SumOf, SumStep
  <1>4. g[{}] = 0
    BY <1>1 DEF SumOf, SumStep
  <1>5. WeightSum(t) \in Nat
    <2> DEFINE Bad == {s \in SUBSET Workers : g[s] < 0}
    <2> SUFFICES ASSUME Bad # {} PROVE FALSE
      BY <1>1 DEF SumOf
    <2>1. PICK s \in Bad :
            s # {} => /\ Taker(s) \in s /\ Taker(s) \in Workers
                      /\ s \ {Taker(s)} \in SUBSET Workers
                      /\ s \ {Taker(s)} \notin Bad
      BY LeastWorkers
    <2>2. s # {}
      <3>1. s = {} => g[s] = 0
        BY <1>4
      <3>2. g[s] < 0
        BY <2>1
      <3> QED BY <3>1, <3>2
    <2>3. g[s \ {Taker(s)}] \in Int /\ g[s \ {Taker(s)}] >= 0
      BY <1>1, <2>1, <2>2
    <2>4. t[Taker(s)].weight \in Nat
      BY <1>2, <2>1, <2>2
    <2> QED BY <1>3, <2>1, <2>2, <2>3, <2>4
  <1>6. ASSUME \A v \in Workers : t[v].weight = 0 PROVE WeightSum(t) = 0
    <2> DEFINE Bad == {s \in SUBSET Workers : g[s] # 0}
    <2> SUFFICES ASSUME Bad # {} PROVE FALSE
      BY <1>1 DEF SumOf
    <2>1. PICK s \in Bad :
            s # {} => /\ Taker(s) \in s /\ Taker(s) \in Workers
                      /\ s \ {Taker(s)} \in SUBSET Workers
                      /\ s \ {Taker(s)} \notin Bad
      BY LeastWorkers
    <2>2. s # {}
      BY <1>4, <2>1
    <2> QED BY <1>3, <1>6, <2>1, <2>2
  <1>7. ASSUME NEW w \in Workers, \A v \in Workers : t[v].weight <= 1,
               t[w].weight = 0
        PROVE  WeightSum(t) < threads_count
    <2> DEFINE Room(s) == IF w \in s THEN Cardinality(s) - 1 ELSE Cardinality(s)
               Bad == {s \in SUBSET Workers : g[s] > Room(s)}
    <2>1. Bad = {}
      <3> SUFFICES ASSUME Bad # {} PROVE FALSE
        OBVIOUS
      <3>1. PICK s \in Bad :
              s # {} => /\ Taker(s) \in s /\ Taker(s) \in Workers
                        /\ s \ {Taker(s)} \in SUBSET Workers
                        /\ s \ {Taker(s)} \notin Bad
        BY LeastWorkers
      <3>2. s # {}
        <4>1. ~(g[{}] > Room({}))
          BY <1>4, FS_EmptySet
        <4>2. g[s] > Room(s)
          BY <3>1
        <4> HIDE DEF Room
        <4> QED BY <4>1, <4>2
      <3> DEFINE v == Taker(s)
                 r == s \ {v}
      <3>3. /\ v \in s /\ v \in Workers /\ r \in SUBSET Workers
            /\ ~(g[r] > Room(r))
        BY <3>1, <3>2
      <3>4. Cardinality(s) \in Nat /\ Cardinality(r) = Cardinality(s) - 1
        BY <3>1, <3>2, TakerLeaves
      <3>5. g[s] = t[v].weight + g[r] /\ g[r] \in Int
        BY <1>3, <3>1, <3>2, <3>3
      <3>6. w \in r <=> w \in s /\ v # w
        OBVIOUS
      <3>7. t[v].weight \in Nat /\ t[v].weight <= 1
        BY <1>2, <1>7, <3>3
      <3>8. g[s] > Room(s)
        BY <3>1
      <3> HIDE DEF v, r
      <3>9. CASE v = w
        BY <1>7, <3>3, <3>4, <3>5, <3>6, <3>8, <3>9
      <3>10. CASE v # w
        BY <3>3, <3>4, <3>5, <3>6, <3>7, <3>8, <3>10
      <3> QED BY <3>9, <3>10
    <2>2. ~(g[Workers] > Room(Workers))
      BY <2>1
    <2>3. Room(Workers) = threads_count - 1
      BY DEF threads_count
    <2> QED BY <1>1, <2>2, <2>3, PoolSize DEF SumOf
  <1> QED BY <1>5, <1>6, <1>7
----------------------------------------------------------------------------
(* The account of the work.  A piece of work is issued once, is queued by   *)
(* weight, handed to one worker, executed and reported; the stages of a     *)
(* table follow from what was reported.                                     *)

WorkItem(t) == <<t.kind, t.of, t.index>>

Items == Kinds \X (Tables \cup Parts) \X Nat

\* The worker was given a task and has not executed it.
Unrun(w) ==
  \/ wpc[w] \in {"exec", "run"}
  \/ wpc[w] = "wait" /\ work[w] # <<>> /\ Head(work[w])

\* An END event of the worker is queued, and at most one of them.
EndAt(i, w) == queue[i].type = "END" /\ queue[i].worker = w
HasEnd(w)   == \E i \in 1..Len(queue) : EndAt(i, w)
OneEnd(w)   == \A i, j \in 1..Len(queue) : EndAt(i, w) /\ EndAt(j, w) => i = j

\* The worker has executed its task, and the end was not handled.
Ended(w) == wpc[w] = "end" \/ HasEnd(w)

Owns(w) == Unrun(w) \/ Ended(w)

\* The work waits in m_pending_tasks.
Queued(x) ==
  \E a \in 1..threads_count : \E i \in 1..Len(pending[a]) :
    WorkItem(pending[a][i]) = x

\* The work will still be executed, unless the load is interrupted.
Alive(x) == Queued(x) \/ \E w \in Workers : Unrun(w) /\ WorkOf(w) = x

\* The work was executed, and its end was handled.
Handled(x) == x \in ran /\ \A w \in Workers : Owns(w) => WorkOf(w) # x

\* schedule_next() has issued the work.
Issued(x) ==
  \/ x[1] = "ddl" /\ x[2] \in Tables \ ddlTodo /\ x[3] = 0
  \/ /\ x[1] = "chunk" /\ x[2] \in Parts /\ x[3] < consumed[x[2]]
     /\ <<x[2], x[3]>> \notin PrevLoaded
  \/ /\ x[1] = "index" /\ x[2] \in Tables /\ x[3] = 0
     /\ indexes[x[2]] \in {"scheduled", "created"}
  \/ /\ x[1] = "analyze" /\ x[2] \in Tables /\ x[3] = 0
     /\ AnalyzeMode = "on" \/ (AnalyzeMode = "histogram" /\ x[2] \in Histograms)
     /\ analyze[x[2]] # "todo"
  \/ /\ x[1] = "checksum" /\ x[2] \in Parts /\ x[3] = 0
     /\ checksum[x[2]] \in {"scheduled", "verified"}

\* A worker that was told to start has been told nothing else but to stop.
WorkHeads ==
  \A w \in Workers :
    /\ work[w] # <<>> /\ Head(work[w]) => wpc[w] = "wait"
    /\ \A i \in 2..Len(work[w]) : work[w][i] = FALSE

\* END is posted once per task, and after it the worker gets no task until the
\* event is handled.
EndOnce ==
  \A w \in Workers : /\ OneEnd(w)
                     /\ HasEnd(w) => wpc[w] # "end" /\ ~Unrun(w)

\* What is pending was issued, is in nobody's hands and was not executed.
PendingFresh ==
  /\ \A a \in 1..threads_count : \A i \in 1..Len(pending[a]) :
       WorkItem(pending[a][i]) \in Items
  /\ \A x \in Items : Queued(x) =>
       /\ Issued(x) /\ x \notin ran
       /\ \A w \in Workers : Owns(w) => WorkOf(w) # x

PendingDistinct ==
  \A a, b \in 1..threads_count :
    \A i \in 1..Len(pending[a]), j \in 1..Len(pending[b]) :
      WorkItem(pending[a][i]) = WorkItem(pending[b][j]) => a = b /\ i = j

\* The same of what the workers hold.
Owned ==
  \A w \in Workers :
    /\ Owns(w) => WorkOf(w) \in Items /\ Issued(WorkOf(w))
    /\ Unrun(w) => WorkOf(w) \notin ran
    /\ Ended(w) => WorkOf(w) \in ran

OwnersDistinct ==
  \A v, w \in Workers : Owns(v) /\ Owns(w) /\ WorkOf(v) = WorkOf(w) => v = w

RanIssued == \A x \in ran : x \in Items /\ Issued(x)

\* Nothing that was issued gets lost, unless the load is interrupted; the
\* checksum of a table that is gone is not computed.
NothingLost ==
  \A x \in Items : Issued(x) =>
    \/ x \in ran \/ Alive(x) \/ interrupt \/ Stopping
    \/ x[1] = "checksum" /\ TableOf[x[2]] \in NoTable

\* A Serial part has one chunk under way, and is marked as being loaded.
SerialOne ==
  \A p \in Serial :
    /\ inflight[p] >= 0
    /\ \A i \in Nat : Alive(<<"chunk", p, i>>) =>
         /\ inflight[p] > 0
         /\ \A j \in Nat : Alive(<<"chunk", p, j>>) => i = j

Ledger ==
  PendingFresh /\ PendingDistinct /\ Owned /\ OwnersDistinct /\ RanIssued

Account == WorkHeads /\ EndOnce /\ Ledger /\ NothingLost /\ SerialOne

----------------------------------------------------------------------------
(* The stages of a table.                                                   *)

DdlHandled == \A t \in Tables : Handled(<<"ddl", t, 0>>)

\* The chunks of a part that count as loaded.
DoneChunks(p) ==
  {i \in 0..(consumed[p] - 1) :
     <<p, i>> \in PrevLoaded \/ Handled(<<"chunk", p, i>>)}

ChunkCounts ==
  \A p \in Parts :
    /\ consumed[p] <= available[p] /\ available[p] <= written[p]
    /\ written[p] <= NumChunks[p]
    /\ loaded[p] = Cardinality(DoneChunks(p))
    /\ consumed[p] > 0 => <<"ddl", TableOf[p], 0>> \in ran

IndexStage ==
  \A t \in Tables :
    /\ indexes[t] # "none" => t \in DeferredIdx /\ Handled(<<"ddl", t, 0>>)
    /\ t \in DeferredIdx /\ Handled(<<"ddl", t, 0>>) => indexes[t] # "none"
    /\ indexes[t] \in {"scheduled", "created"} => DataRan(t)
    /\ indexes[t] = "created" => <<"index", t, 0>> \in ran

AnalyzeStage ==
  \A t \in Tables :
    /\ AnalyzeMode = "off" => analyze[t] = "finished"
    /\ AnalyzeMode # "off" =>
         /\ analyze[t] # "todo" => DataRan(t) /\ IndexesRan(t)
         /\ analyze[t] = "finished" => <<"analyze", t, 0>> \in ran

ChecksumStage ==
  \A p \in Parts :
    /\ p \in Checksums => checksum[p] # "none"
    /\ checksum[p] \in {"scheduled", "verified"} =>
         /\ \A i \in 0..(NumChunks[p] - 1) : ChunkRan(p, i)
         /\ IndexesRan(TableOf[p]) /\ Analyzed(TableOf[p])

\* The data phase begins with all the tables in place.
DataPhase == phase = "data" /\ (~interrupt \/ Scheduling) => DdlHandled

Stages == ChunkCounts /\ IndexStage /\ AnalyzeStage /\ ChecksumStage /\ DataPhase

----------------------------------------------------------------------------
(* Weights, and what it means that a worker is idle.                        *)

\* The weight of what the workers hold; those that are free hold nothing.
Weights ==
  /\ WeightAccounting
  /\ Scheduling => task[cur].weight = 0
  /\ \A i \in 1..Len(idle) : task[idle[i]].weight = 0
  /\ \A a \in 1..threads_count : \A i \in 1..Len(pending[a]) :
       pending[a][i].weight = a
  /\ phase = "ddl" => top = 1 /\ \A w \in Workers : task[w].weight <= 1

\* A worker is gone only after an interrupt, or at the end.
Present ==
  ~interrupt /\ ~Stopping =>
    /\ live = Workers
    /\ \A w \in Workers : wpc[w] # "exited"
    /\ \A i \in 1..Len(queue) : queue[i].type \notin {"EXIT", "FATAL_ERROR"}

\* The handlers and the end of the loop: nobody is idle elsewhere.
IdleHere ==
  /\ mpc \in {"start", "scan", "check"} => idle = <<>>
  /\ mpc = "scan" => phase = "data"
  /\ mpc = "check" => phase = "data" \/ interrupt
  /\ mpc \in {"indexes", "analyze", "checksum"} => phase = "data"

\* A worker is idle only if there is nothing for it to do.
IdleMeans ==
  ~interrupt =>
    /\ phase = "ddl" /\ idle # <<>> => ddlTodo = {} /\ PendingEmpty
    /\ phase = "ddl" /\ mpc = "assign" /\ PendingEmpty => ddlTodo = {}
    /\ mpc = "events" /\ (\A w \in Workers : \E i \in 1..Len(idle) : idle[i] = w)
         => PendingEmpty
    /\ mpc = "check" =>
         /\ PendingEmpty /\ \A w \in Workers : Free(w)
         /\ \A i \in 1..Len(queue) : queue[i].type # "END"

Idleness == Present /\ IdleHere /\ IdleMeans

SchedInv == IInv /\ Account /\ Stages /\ Weights /\ Idleness /\ OkMeansAllDone

----------------------------------------------------------------------------
(* How the steps change the account.                                        *)

\* What a worker owns stays.
KeepOwn(v) ==
  /\ Unrun(v)' <=> Unrun(v)
  /\ Ended(v)' <=> Ended(v)
  /\ WorkOf(v)' = WorkOf(v)

KeepOthers(w) == \A v \in Workers : v # w => KeepOwn(v)

\* No work changes hands.
SameWork == (\A v \in Workers : KeepOwn(v)) /\ UNCHANGED <<pending, ran>>

\* A worker goes without executing its task.
Drops(w) ==
  /\ KeepOthers(w) /\ Unrun(w) /\ ~Unrun(w)' /\ (Ended(w)' <=> Ended(w))
  /\ WorkOf(w)' = WorkOf(w) /\ UNCHANGED <<pending, ran>>

\* A worker executes its task.
Runs(w) ==
  /\ KeepOthers(w) /\ Unrun(w) /\ ~Unrun(w)' /\ Ended(w)'
  /\ WorkOf(w)' = WorkOf(w) /\ pending' = pending /\ ran' = ran \cup {WorkOf(w)}

\* The end of its task is handled.
Reports(w) ==
  /\ KeepOthers(w) /\ Ended(w) /\ ~Ended(w)' /\ ~Unrun(w) /\ ~Unrun(w)'
  /\ WorkOf(w)' = WorkOf(w) /\ UNCHANGED <<pending, ran>>

\* A worker that owns nothing takes a piece of work from the pending ones.
Takes(w, x) ==
  /\ KeepOthers(w) /\ ~Owns(w) /\ Unrun(w)' /\ ~Ended(w)' /\ WorkOf(w)' = x
  /\ Queued(x) /\ \A y : Queued(y)' <=> Queued(y) /\ y # x
  /\ PendingDistinct' /\ ran' = ran

\* A piece of work is issued and queued.
Pushes(x) ==
  /\ \A v \in Workers : KeepOwn(v)
  /\ x \in Items /\ ~Issued(x) /\ Issued(x)'
  /\ \A y : Queued(y)' <=> Queued(y) \/ y = x
  /\ PendingDistinct' /\ ran' = ran

\* A queued piece of work is a piece of work.
LEMMA QueuedItem ==
  ASSUME PendingFresh, NEW x, Queued(x)
  PROVE  /\ x \in Items /\ Issued(x) /\ x \notin ran
         /\ \A w \in Workers : Owns(w) => WorkOf(w) # x
  BY DEF PendingFresh, Queued

\* The events that were posted say the same after another one was.
LEMMA PostEnd ==
  ASSUME TypeOK, NEW e, queue' = Append(queue, e), NEW v
  PROVE  /\ HasEnd(v)' <=> HasEnd(v) \/ (e.type = "END" /\ e.worker = v)
         /\ OneEnd(v) /\ ~(HasEnd(v) /\ e.type = "END" /\ e.worker = v)
              => OneEnd(v)'
  <1>0. PICK l \in Nat : l = Len(queue)
    BY DEF TypeOK
  <1>1. /\ l \in Nat /\ Len(queue') = l + 1
        /\ \A i \in 1..l : queue'[i] = queue[i]
        /\ queue'[l + 1] = e
    BY <1>0, Posted
  <1>2. \A i \in 1..l : EndAt(i, v)' <=> EndAt(i, v)
    BY <1>1 DEF EndAt
  <1>3. EndAt(l + 1, v)' <=> e.type = "END" /\ e.worker = v
    BY <1>1 DEF EndAt
  <1>4. \A i \in 1..(l + 1) : i \in 1..l \/ i = l + 1
    BY <1>1
  <1>5. /\ HasEnd(v)' <=> \E i \in 1..(l + 1) : EndAt(i, v)'
        /\ HasEnd(v) <=> \E i \in 1..l : EndAt(i, v)
        /\ OneEnd(v)' <=> \A i, j \in 1..(l + 1) : EndAt(i, v)' /\ EndAt(j, v)' => i = j
        /\ OneEnd(v) <=> \A i, j \in 1..l : EndAt(i, v) /\ EndAt(j, v) => i = j
    BY <1>0, <1>1 DEF HasEnd, OneEnd
  <1>6. 1..l \subseteq 1..(l + 1) /\ l + 1 \in 1..(l + 1)
    BY <1>1
  <1> QED BY <1>2, <1>3, <1>4, <1>5, <1>6


\* The first event is taken: nothing else changes.
LEMMA TakeEnd ==
  ASSUME TypeOK, queue # <<>>, queue' = Tail(queue), NEW v
  PROVE  /\ OneEnd(v) => OneEnd(v)'
         /\ ~(Head(queue).type = "END" /\ Head(queue).worker = v)
              => (HasEnd(v)' <=> HasEnd(v))
         /\ Head(queue).type = "END" /\ Head(queue).worker = v /\ OneEnd(v)
              => HasEnd(v) /\ ~HasEnd(v)'
  <1> DEFINE m == Len(queue')
  <1>9. m \in Nat
    BY Taken
  <1> HIDE DEF m
  <1>10. PICK l \in Nat : l = m
    BY <1>9
  <1>0. l = Len(queue')
    BY <1>10 DEF m
  <1>1. /\ Len(queue) = l + 1
        /\ \A i \in 1..l : queue'[i] = queue[i + 1]
        /\ Head(queue) = queue[1]
    BY <1>0, Taken
  <1>2. \A i \in 1..l : EndAt(i, v)' <=> EndAt(i + 1, v)
    BY <1>1 DEF EndAt
  <1>3. EndAt(1, v) <=> Head(queue).type = "END" /\ Head(queue).worker = v
    BY <1>1 DEF EndAt
  <1>4. /\ HasEnd(v)' <=> \E i \in 1..l : EndAt(i + 1, v)
        /\ HasEnd(v) <=> \E i \in 1..(l + 1) : EndAt(i, v)
        /\ OneEnd(v)' <=> \A i, j \in 1..l : EndAt(i + 1, v) /\ EndAt(j + 1, v) => i = j
        /\ OneEnd(v) <=> \A i, j \in 1..(l + 1) : EndAt(i, v) /\ EndAt(j, v) => i = j
    BY <1>0, <1>1, <1>2 DEF HasEnd, OneEnd
  <1>5. /\ \A i \in 1..l : i + 1 \in 1..(l + 1) /\ i + 1 # 1
        /\ 1 \in 1..(l + 1)
        /\ \A i \in 1..(l + 1) : i # 1 => i - 1 \in 1..l /\ i = (i - 1) + 1
    OBVIOUS
  <1>6. OneEnd(v) => OneEnd(v)'
    BY <1>4, <1>5
  <1>7. ASSUME ~EndAt(1, v) PROVE HasEnd(v)' <=> HasEnd(v)
    <2>1. ASSUME HasEnd(v) PROVE HasEnd(v)'
      <3>1. PICK i \in 1..(l + 1) : EndAt(i, v)
        BY <1>4, <2>1
      <3>2. i # 1
        BY <1>7, <3>1
      <3>3. EndAt((i - 1) + 1, v) /\ i - 1 \in 1..l
        BY <1>5, <3>1, <3>2
      <3> QED BY <1>4, <3>3
    <2>2. ASSUME HasEnd(v)' PROVE HasEnd(v)
      BY <1>4, <1>5, <2>2
    <2> QED BY <2>1, <2>2
  <1>8. ASSUME EndAt(1, v), OneEnd(v) PROVE HasEnd(v) /\ ~HasEnd(v)'
    BY <1>4, <1>5, <1>8
  <1> QED BY <1>3, <1>6, <1>7, <1>8

\* READY is posted again for some idle workers: nothing changes.
LEMMA WakeEnd ==
  ASSUME TypeOK, NEW n \in Nat, n <= Len(idle),
         queue' = queue \o [i \in 1..n |-> Ready(idle[i])],
         idle' = SubSeq(idle, n + 1, Len(idle)), NEW v
  PROVE  /\ HasEnd(v)' <=> HasEnd(v)
         /\ OneEnd(v) => OneEnd(v)'
  <1>0. PICK l \in Nat : l = Len(queue)
    BY DEF TypeOK
  <1>1. /\ Len(queue') = l + n
        /\ \A i \in 1..l : queue'[i] = queue[i]
        /\ \A i \in 1..n : queue'[l + i] = Ready(idle[i])
    BY <1>0, Reposted
  <1>2. \A i \in 1..l : EndAt(i, v)' <=> EndAt(i, v)
    BY <1>1 DEF EndAt
  <1>3. ASSUME NEW i \in 1..(l + n), i \notin 1..l PROVE ~EndAt(i, v)'
    <2>1. i - l \in 1..n /\ i = l + (i - l)
      BY <1>3
    <2>2. queue'[i] = Ready(idle[i - l])
      BY <1>1, <2>1
    <2>3. \A u : Ready(u).type = "READY"
      BY DEF Ready
    <2>4. queue'[i].type = "READY"
      BY <2>2, <2>3
    <2> QED BY <2>4 DEF EndAt
  <1>4. /\ HasEnd(v)' <=> \E i \in 1..(l + n) : EndAt(i, v)'
        /\ HasEnd(v) <=> \E i \in 1..l : EndAt(i, v)
        /\ OneEnd(v)' <=> \A i, j \in 1..(l + n) : EndAt(i, v)' /\ EndAt(j, v)' => i = j
        /\ OneEnd(v) <=> \A i, j \in 1..l : EndAt(i, v) /\ EndAt(j, v) => i = j
    BY <1>0, <1>1 DEF HasEnd, OneEnd
  <1>5. 1..l \subseteq 1..(l + n)
    OBVIOUS
  <1> QED BY <1>2, <1>3, <1>4, <1>5

\* A task is queued.
LEMMA PushView ==
  ASSUME TypeOK, PendingDistinct, NEW t \in Tasks, t.weight \in 1..threads_count,
         Emplace(t), ~Queued(WorkItem(t))
  PROVE  /\ \A y : Queued(y)' <=> Queued(y) \/ y = WorkItem(t)
         /\ PendingDistinct'
  <1> DEFINE b == t.weight
  <1>0. PICK l \in Nat : l = Len(pending[b])
    BY DEF TypeOK
  <1>1. /\ pending \in [1..threads_count -> Seq(Tasks)]
        /\ pending' = [pending EXCEPT ![b] = Append(pending[b], t)]
    BY DEF TypeOK, Emplace
  <1>2. /\ \A a \in 1..threads_count : a # b => pending'[a] = pending[a]
        /\ pending'[b] = Append(pending[b], t)
    BY <1>1
  <1>3. /\ Len(pending'[b]) = l + 1 /\ pending'[b][l + 1] = t
        /\ \A i \in 1..l : pending'[b][i] = pending[b][i]
    BY <1>0, <1>1, <1>2
  <1>4. ASSUME NEW a \in 1..threads_count, NEW i \in 1..Len(pending'[a])
        PROVE  \/ i \in 1..Len(pending[a]) /\ pending'[a][i] = pending[a][i]
               \/ a = b /\ i = l + 1 /\ pending'[a][i] = t
    <2>1. CASE a = b
      <3>1. i \in 1..l \/ i = l + 1
        BY <1>3, <2>1
      <3> QED BY <1>0, <1>3, <2>1, <3>1
    <2>2. CASE a # b
      BY <1>2, <2>2
    <2> QED BY <2>1, <2>2
  <1>5. ASSUME NEW a \in 1..threads_count, NEW i \in 1..Len(pending[a])
        PROVE  i \in 1..Len(pending'[a]) /\ pending'[a][i] = pending[a][i]
    <2>1. CASE a = b
      BY <1>0, <1>3, <2>1
    <2>2. CASE a # b
      BY <1>2, <2>2
    <2> QED BY <2>1, <2>2
  <1>6. l + 1 \in 1..Len(pending'[b])
    BY <1>3
  <1>7. ASSUME NEW y PROVE Queued(y)' <=> Queued(y) \/ y = WorkItem(t)
    <2>1. ASSUME Queued(y)' PROVE Queued(y) \/ y = WorkItem(t)
      BY <1>4, <2>1 DEF Queued
    <2>2. ASSUME Queued(y) PROVE Queued(y)'
      BY <1>5, <2>2 DEF Queued
    <2>3. Queued(WorkItem(t))'
      BY <1>3, <1>6 DEF Queued
    <2> QED BY <2>1, <2>2, <2>3
  <1>8. ASSUME NEW a \in 1..threads_count, NEW c \in 1..threads_count,
               NEW i \in 1..Len(pending'[a]), NEW j \in 1..Len(pending'[c]),
               WorkItem(pending'[a][i]) = WorkItem(pending'[c][j])
        PROVE  a = c /\ i = j
    <2>1. \A d \in 1..threads_count : \A k \in 1..Len(pending[d]) :
            WorkItem(pending[d][k]) # WorkItem(t)
      BY DEF Queued
    <2>2. CASE i \in 1..Len(pending[a]) /\ pending'[a][i] = pending[a][i]
      <3>1. j \in 1..Len(pending[c]) /\ pending'[c][j] = pending[c][j]
        BY <1>4, <1>8, <2>1, <2>2
      <3> QED BY <1>8, <2>2, <3>1 DEF PendingDistinct
    <2>3. CASE a = b /\ i = l + 1 /\ pending'[a][i] = t
      BY <1>4, <1>8, <2>1, <2>3
    <2> QED BY <1>4, <2>2, <2>3
  <1> QED BY <1>7, <1>8 DEF PendingDistinct

\* The heaviest task is taken.
LEMMA PopView ==
  ASSUME TypeOK, TopPosition, ~PendingEmpty, PopTop, PendingDistinct
  PROVE  /\ Queued(WorkItem(TopTask))
         /\ \A y : Queued(y)' <=> Queued(y) /\ y # WorkItem(TopTask)
         /\ PendingDistinct'
  <1>0. PICK b \in 1..threads_count : b = top
    BY DEF TypeOK
  <1>1. pending \in [1..threads_count -> Seq(Tasks)] /\ pending[b] # <<>>
    BY <1>0, TopMeaning DEF TypeOK, TopIsHeaviest
  <1>2. PICK l \in Nat : Len(pending[b]) = l + 1
    BY <1>1
  <1>3. pending' = [pending EXCEPT ![b] = Tail(pending[b])]
    BY <1>0 DEF PopTop
  <1>4. /\ \A a \in 1..threads_count : a # b => pending'[a] = pending[a]
        /\ pending'[b] = Tail(pending[b])
    BY <1>1, <1>3
  <1>5. /\ Len(pending'[b]) = l /\ \A i \in 1..l : pending'[b][i] = pending[b][i + 1]
        /\ TopTask = pending[b][1]
    BY <1>0, <1>1, <1>2, <1>4 DEF TopTask
  <1> DEFINE x == WorkItem(TopTask)
             At(a, i) == IF a = b THEN i + 1 ELSE i
  <1>6. ASSUME NEW a \in 1..threads_count, NEW i \in 1..Len(pending'[a])
        PROVE  /\ At(a, i) \in 1..Len(pending[a])
               /\ pending'[a][i] = pending[a][At(a, i)]
               /\ a = b => At(a, i) # 1
    <2>1. CASE a = b
      BY <1>2, <1>5, <2>1
    <2>2. CASE a # b
      BY <1>4, <2>2
    <2> QED BY <2>1, <2>2
  <1>7. ASSUME NEW a \in 1..threads_count, NEW i \in 1..Len(pending[a]),
               ~(a = b /\ i = 1)
        PROVE  \E j \in 1..Len(pending'[a]) : pending'[a][j] = pending[a][i]
    <2>1. CASE a = b
      <3>1. i - 1 \in 1..l /\ (i - 1) + 1 = i
        BY <1>2, <1>7, <2>1
      <3> QED BY <1>5, <2>1, <3>1
    <2>2. CASE a # b
      BY <1>4, <2>2
    <2> QED BY <2>1, <2>2
  <1>8. 1 \in 1..Len(pending[b])
    BY <1>2
  <1>9. Queued(x)
    BY <1>5, <1>8 DEF Queued
  <1>10. ASSUME NEW y, Queued(y)' PROVE Queued(y) /\ y # x
    <2>0. PICK a \in 1..threads_count :
            \E i \in 1..Len(pending'[a]) : WorkItem(pending'[a][i]) = y
      BY <1>10 DEF Queued
    <2>1. PICK i \in 1..Len(pending'[a]) : WorkItem(pending'[a][i]) = y
      BY <2>0
    <2>2. /\ At(a, i) \in 1..Len(pending[a])
          /\ WorkItem(pending[a][At(a, i)]) = y
          /\ ~(a = b /\ At(a, i) = 1)
      BY <1>6, <2>1
    <2>3. Queued(y)
      BY <2>2 DEF Queued
    <2>4. WorkItem(pending[b][1]) = x
      BY <1>5
    <2> HIDE DEF At, x
    <2>5. y # x
      BY <1>8, <2>2, <2>4 DEF PendingDistinct
    <2> QED BY <2>3, <2>5
  <1>11. ASSUME NEW y, Queued(y), y # x PROVE Queued(y)'
    <2>0. PICK a \in 1..threads_count :
            \E i \in 1..Len(pending[a]) : WorkItem(pending[a][i]) = y
      BY <1>11 DEF Queued
    <2>1. PICK i \in 1..Len(pending[a]) : WorkItem(pending[a][i]) = y
      BY <2>0
    <2>2. ~(a = b /\ i = 1)
      BY <1>5, <1>11, <2>1
    <2> QED BY <1>7, <2>1, <2>2 DEF Queued
  <1>12. ASSUME NEW a \in 1..threads_count, NEW c \in 1..threads_count,
                NEW i \in 1..Len(pending'[a]), NEW j \in 1..Len(pending'[c]),
                WorkItem(pending'[a][i]) = WorkItem(pending'[c][j])
         PROVE  a = c /\ i = j
    <2>1. /\ At(a, i) \in 1..Len(pending[a]) /\ At(c, j) \in 1..Len(pending[c])
          /\ WorkItem(pending[a][At(a, i)]) = WorkItem(pending[c][At(c, j)])
      BY <1>6, <1>12
    <2>2. a = c /\ At(a, i) = At(c, j)
      <3> HIDE DEF At
      <3> QED BY <2>1 DEF PendingDistinct
    <2>3. i \in Int /\ j \in Int
      OBVIOUS
    <2> QED BY <2>2, <2>3
  <1> QED BY <1>9, <1>10, <1>11, <1>12 DEF PendingDistinct

IssuedGrows == \A x \in Items : Issued(x) => Issued(x)'

\* Nothing changes hands.
LEMMA SameEffect ==
  ASSUME Ledger, SameWork, IssuedGrows
  PROVE  /\ Ledger'
         /\ \A x : Handled(x)' <=> Handled(x)
         /\ \A x : Alive(x)' <=> Alive(x)
  <1>1. /\ \A v \in Workers : /\ Unrun(v)' <=> Unrun(v)
                              /\ Ended(v)' <=> Ended(v)
                              /\ Owns(v)' <=> Owns(v)
                              /\ WorkOf(v)' = WorkOf(v)
        /\ pending' = pending /\ ran' = ran
    BY DEF SameWork, KeepOwn, Owns
  <1>2. \A x : Queued(x)' <=> Queued(x)
    BY <1>1 DEF Queued
  <1>3. PendingFresh' /\ PendingDistinct'
    BY <1>1, <1>2 DEF Ledger, IssuedGrows, PendingFresh, PendingDistinct
  <1>4. Owned' /\ OwnersDistinct'
    BY <1>1 DEF Ledger, IssuedGrows, Owned, OwnersDistinct
  <1>5. RanIssued'
    BY <1>1 DEF Ledger, IssuedGrows, RanIssued
  <1>6. \A x : Handled(x)' <=> Handled(x)
    BY <1>1 DEF Handled
  <1>7. \A x : Alive(x)' <=> Alive(x)
    BY <1>1, <1>2 DEF Alive
  <1> QED BY <1>3, <1>4, <1>5, <1>6, <1>7 DEF Ledger

\* A worker goes, or its end is handled.
LEMMA DropEffect ==
  ASSUME Ledger, NEW w \in Workers, Drops(w), IssuedGrows
  PROVE  /\ Ledger'
         /\ \A x : Handled(x)' <=> Handled(x)
         /\ \A x : Alive(x)' => Alive(x) /\ x # WorkOf(w)
         /\ Alive(WorkOf(w))
  <1>1. /\ \A v \in Workers : /\ Unrun(v)' => Unrun(v)
                              /\ Ended(v)' <=> Ended(v)
                              /\ Owns(v)' => Owns(v)
                              /\ v # w => (Owns(v)' <=> Owns(v))
                              /\ WorkOf(v)' = WorkOf(v)
        /\ pending' = pending /\ ran' = ran /\ Unrun(w)
    BY DEF Drops, KeepOthers, KeepOwn, Owns
  <1>2. \A x : Queued(x)' <=> Queued(x)
    BY <1>1 DEF Queued
  <1>3. PendingFresh' /\ PendingDistinct'
    BY <1>1, <1>2 DEF Ledger, IssuedGrows, PendingFresh, PendingDistinct
  <1>4. Owned' /\ OwnersDistinct'
    BY <1>1 DEF Ledger, IssuedGrows, Owned, OwnersDistinct
  <1>5. RanIssued'
    BY <1>1 DEF Ledger, IssuedGrows, RanIssued
  <1>6. ASSUME NEW x PROVE Handled(x)' <=> Handled(x)
    <2>1. WorkOf(w) \notin ran
      BY <1>1 DEF Ledger, Owned
    <2> QED BY <1>1, <2>1 DEF Handled
  <1>7. ~Queued(WorkOf(w)) /\ Owns(w)
    BY <1>1 DEF Ledger, PendingFresh, Owned, Owns
  <1>8. \A v \in Workers : v # w /\ Owns(v) => WorkOf(v) # WorkOf(w)
    BY <1>7 DEF Ledger, OwnersDistinct
  <1>9. ~Unrun(w)'
    BY DEF Drops
  <1>10. \A x : Alive(x)' => Alive(x) /\ x # WorkOf(w)
    BY <1>1, <1>2, <1>7, <1>8, <1>9 DEF Alive, Owns
  <1>11. Alive(WorkOf(w))
    BY <1>1 DEF Alive
  <1> QED BY <1>3, <1>4, <1>5, <1>6, <1>10, <1>11 DEF Ledger

\* A worker executes its task.
LEMMA RunEffect ==
  ASSUME Ledger, NEW w \in Workers, Runs(w), IssuedGrows
  PROVE  /\ Ledger'
         /\ \A x : Handled(x)' <=> Handled(x)
         /\ \A x : Alive(x)' <=> Alive(x) /\ x # WorkOf(w)
         /\ Alive(WorkOf(w))
  <1>1. /\ \A v \in Workers : /\ v # w => (Unrun(v)' <=> Unrun(v))
                              /\ v # w => (Ended(v)' <=> Ended(v))
                              /\ Owns(v)' <=> Owns(v)
                              /\ WorkOf(v)' = WorkOf(v)
        /\ pending' = pending /\ ran' = ran \cup {WorkOf(w)}
        /\ Unrun(w) /\ Ended(w)' /\ ~Unrun(w)' /\ Owns(w)
    BY DEF Runs, KeepOthers, KeepOwn, Owns
  <1>2. \A x : Queued(x)' <=> Queued(x)
    BY <1>1 DEF Queued
  <1>3. WorkOf(w) \in Items /\ Issued(WorkOf(w)) /\ WorkOf(w) \notin ran
    BY <1>1 DEF Ledger, Owned
  <1>4. ~Queued(WorkOf(w))
    BY <1>1, <1>3 DEF Ledger, PendingFresh
  <1>5. \A v \in Workers : v # w /\ Owns(v) => WorkOf(v) # WorkOf(w)
    BY <1>1 DEF Ledger, OwnersDistinct
  <1>6. PendingFresh' /\ PendingDistinct'
    BY <1>1, <1>2, <1>4 DEF Ledger, IssuedGrows, PendingFresh, PendingDistinct
  <1>7. OwnersDistinct'
    BY <1>1 DEF Ledger, OwnersDistinct
  <1>8. Owned'
    <2> SUFFICES ASSUME NEW v \in Workers
                 PROVE  /\ Owns(v)' => WorkOf(v)' \in Items /\ Issued(WorkOf(v))'
                        /\ Unrun(v)' => WorkOf(v)' \notin ran'
                        /\ Ended(v)' => WorkOf(v)' \in ran'
      BY DEF Owned
    <2>1. Owns(v)' => WorkOf(v)' \in Items /\ Issued(WorkOf(v))'
      BY <1>1 DEF Ledger, IssuedGrows, Owned
    <2>2. Unrun(v)' => WorkOf(v)' \notin ran'
      BY <1>1, <1>5 DEF Ledger, Owned, Owns
    <2>3. Ended(v)' => WorkOf(v)' \in ran'
      BY <1>1 DEF Ledger, Owned
    <2> QED BY <2>1, <2>2, <2>3
  <1>9. RanIssued'
    BY <1>1, <1>3 DEF Ledger, IssuedGrows, RanIssued
  <1>10. \A x : Handled(x)' <=> Handled(x)
    BY <1>1, <1>3 DEF Handled
  <1>11. \A x : Alive(x)' <=> Alive(x) /\ x # WorkOf(w)
    BY <1>1, <1>2, <1>4, <1>5 DEF Alive, Owns
  <1>12. Alive(WorkOf(w))
    BY <1>1 DEF Alive
  <1> QED BY <1>6, <1>7, <1>8, <1>9, <1>10, <1>11, <1>12 DEF Ledger

\* The end of a task is handled.
LEMMA ReportEffect ==
  ASSUME Ledger, NEW w \in Workers, Reports(w), IssuedGrows
  PROVE  /\ Ledger'
         /\ \A x : Handled(x)' <=> Handled(x) \/ x = WorkOf(w)
         /\ ~Handled(WorkOf(w))
         /\ \A x : Alive(x)' <=> Alive(x)
         /\ WorkOf(w) \in Items /\ Issued(WorkOf(w)) /\ WorkOf(w) \in ran
  <1>1. /\ \A v \in Workers : /\ Unrun(v)' <=> Unrun(v)
                              /\ v # w => (Ended(v)' <=> Ended(v))
                              /\ v # w => (Owns(v)' <=> Owns(v))
                              /\ WorkOf(v)' = WorkOf(v)
        /\ pending' = pending /\ ran' = ran
        /\ Ended(w) /\ ~Ended(w)' /\ ~Owns(w)' /\ Owns(w)
    BY DEF Reports, KeepOthers, KeepOwn, Owns
  <1>2. \A x : Queued(x)' <=> Queued(x)
    BY <1>1 DEF Queued
  <1>3. WorkOf(w) \in Items /\ Issued(WorkOf(w)) /\ WorkOf(w) \in ran
    BY <1>1 DEF Ledger, Owned
  <1>4. \A v \in Workers : v # w /\ Owns(v) => WorkOf(v) # WorkOf(w)
    BY <1>1 DEF Ledger, OwnersDistinct
  <1>5. PendingFresh' /\ PendingDistinct'
    BY <1>1, <1>2 DEF Ledger, IssuedGrows, PendingFresh, PendingDistinct
  <1>6. Owned' /\ OwnersDistinct'
    BY <1>1 DEF Ledger, IssuedGrows, Owned, OwnersDistinct
  <1>7. RanIssued'
    BY <1>1 DEF Ledger, IssuedGrows, RanIssued
  <1>8. \A x : Handled(x)' <=> Handled(x) \/ x = WorkOf(w)
    BY <1>1, <1>3, <1>4 DEF Handled
  <1>9. ~Handled(WorkOf(w))
    BY <1>1 DEF Handled
  <1>10. \A x : Alive(x)' <=> Alive(x)
    BY <1>1, <1>2 DEF Alive
  <1> QED BY <1>3, <1>5, <1>6, <1>7, <1>8, <1>9, <1>10 DEF Ledger

\* A piece of pending work is handed to a worker.
LEMMA TakeEffect ==
  ASSUME Ledger, NEW w \in Workers, NEW x, Takes(w, x), IssuedGrows,
         \A a \in 1..threads_count : \A i \in 1..Len(pending'[a]) :
           WorkItem(pending'[a][i]) \in Items
  PROVE  /\ Ledger'
         /\ \A y : Handled(y)' <=> Handled(y)
         /\ \A y : Alive(y)' <=> Alive(y)
  <1>1. /\ \A v \in Workers : v # w => /\ Unrun(v)' <=> Unrun(v)
                                       /\ Ended(v)' <=> Ended(v)
                                       /\ Owns(v)' <=> Owns(v)
                                       /\ WorkOf(v)' = WorkOf(v)
        /\ Unrun(w)' /\ ~Ended(w)' /\ Owns(w)' /\ WorkOf(w)' = x
        /\ ~Owns(w) /\ ~Unrun(w) /\ ~Ended(w)
        /\ Queued(x) /\ ran' = ran /\ PendingDistinct'
    BY DEF Takes, KeepOthers, KeepOwn, Owns
  <1>2. \A y : Queued(y)' <=> Queued(y) /\ y # x
    BY DEF Takes
  <1>3. /\ x \in Items /\ Issued(x) /\ x \notin ran
        /\ \A v \in Workers : Owns(v) => WorkOf(v) # x
    BY <1>1, QueuedItem DEF Ledger
  <1>4. PendingFresh'
    <2>1. ASSUME NEW y \in Items, Queued(y)'
          PROVE  /\ Issued(y)' /\ y \notin ran'
                 /\ \A v \in Workers : Owns(v)' => WorkOf(v)' # y
      <3>1. Queued(y) /\ y # x
        BY <1>2, <2>1
      <3>2. /\ Issued(y) /\ y \notin ran
            /\ \A v \in Workers : Owns(v) => WorkOf(v) # y
        BY <3>1, QueuedItem DEF Ledger
      <3> QED BY <1>1, <3>1, <3>2 DEF IssuedGrows
    <2> QED BY <2>1 DEF PendingFresh
  <1>5. Owned'
    <2> SUFFICES ASSUME NEW v \in Workers
                 PROVE  /\ Owns(v)' => WorkOf(v)' \in Items /\ Issued(WorkOf(v))'
                        /\ Unrun(v)' => WorkOf(v)' \notin ran'
                        /\ Ended(v)' => WorkOf(v)' \in ran'
      BY DEF Owned
    <2>0. Issued(x)'
      BY <1>3 DEF IssuedGrows
    <2>1. CASE v = w
      <3>1. Issued(WorkOf(w))'
        BY <1>1, <2>0 DEF Issued
      <3> QED BY <1>1, <1>3, <2>1, <3>1
    <2>2. CASE v # w
      <3>1. Issued(WorkOf(v)) /\ WorkOf(v) \in Items => Issued(WorkOf(v))'
        BY <1>1, <2>2 DEF IssuedGrows, Issued
      <3> QED BY <1>1, <2>2, <3>1 DEF Ledger, Owned
    <2> QED BY <2>1, <2>2
  <1>6. OwnersDistinct'
    BY <1>1, <1>3 DEF Ledger, OwnersDistinct
  <1>7. RanIssued'
    BY <1>1 DEF Ledger, IssuedGrows, RanIssued
  <1>8. \A y : Handled(y)' <=> Handled(y)
    BY <1>1, <1>3 DEF Handled
  <1>9. \A y : Alive(y)' <=> Alive(y)
    <2> TAKE y
    <2>1. CASE y = x
      BY <1>1, <2>1 DEF Alive
    <2>2. CASE y # x
      BY <1>1, <1>2, <2>2 DEF Alive
    <2> QED BY <2>1, <2>2
  <1> QED BY <1>1, <1>4, <1>5, <1>6, <1>7, <1>8, <1>9 DEF Ledger

\* A piece of work is issued.
LEMMA PushEffect ==
  ASSUME Ledger, NEW x, Pushes(x), IssuedGrows,
         \A a \in 1..threads_count : \A i \in 1..Len(pending'[a]) :
           WorkItem(pending'[a][i]) \in Items
  PROVE  /\ Ledger'
         /\ \A y : Handled(y)' <=> Handled(y)
         /\ \A y : Alive(y)' <=> Alive(y) \/ y = x
  <1>1. /\ \A v \in Workers : /\ Unrun(v)' <=> Unrun(v)
                              /\ Ended(v)' <=> Ended(v)
                              /\ Owns(v)' <=> Owns(v)
                              /\ WorkOf(v)' = WorkOf(v)
        /\ x \in Items /\ ~Issued(x) /\ Issued(x)' /\ ran' = ran /\ PendingDistinct'
    BY DEF Pushes, KeepOwn, Owns
  <1>2. \A y : Queued(y)' <=> Queued(y) \/ y = x
    BY DEF Pushes
  <1>3. /\ x \notin ran /\ \A v \in Workers : Owns(v) => WorkOf(v) # x
    BY <1>1 DEF Ledger, RanIssued, Owned
  <1>4. PendingFresh'
    <2>1. ASSUME NEW y \in Items, Queued(y)'
          PROVE  /\ Issued(y)' /\ y \notin ran'
                 /\ \A v \in Workers : Owns(v)' => WorkOf(v)' # y
      <3>1. CASE y = x
        BY <1>1, <1>3, <3>1
      <3>2. CASE y # x
        <4>1. /\ Issued(y) /\ y \notin ran
              /\ \A v \in Workers : Owns(v) => WorkOf(v) # y
          BY <1>2, <2>1, <3>2, QueuedItem DEF Ledger
        <4> QED BY <1>1, <4>1 DEF IssuedGrows
      <3> QED BY <3>1, <3>2
    <2> QED BY <2>1 DEF PendingFresh
  <1>5. Owned' /\ OwnersDistinct'
    BY <1>1 DEF Ledger, IssuedGrows, Owned, OwnersDistinct
  <1>6. RanIssued'
    BY <1>1 DEF Ledger, IssuedGrows, RanIssued
  <1>7. \A y : Handled(y)' <=> Handled(y)
    BY <1>1 DEF Handled
  <1>8. \A y : Alive(y)' <=> Alive(y) \/ y = x
    BY <1>1, <1>2 DEF Alive
  <1> QED BY <1>1, <1>4, <1>5, <1>6, <1>7, <1>8 DEF Ledger

\* A worker that moves leaves alone what the others own.
LEMMA OthersKeep ==
  ASSUME TypeOK, NEW w \in Workers, task' = task,
         \A v \in Workers : v # w => wpc'[v] = wpc[v] /\ work'[v] = work[v],
         queue' = queue \/ \E e : e.worker = w /\ queue' = Append(queue, e)
  PROVE  /\ KeepOthers(w)
         /\ \A v \in Workers : WorkOf(v)' = WorkOf(v)
         /\ \A v \in Workers : v # w => /\ HasEnd(v)' <=> HasEnd(v)
                                        /\ OneEnd(v) => OneEnd(v)'
                                        /\ Unrun(v)' <=> Unrun(v)
  <1>1. \A v \in Workers : WorkOf(v)' = WorkOf(v)
    BY DEF WorkOf
  <1>2. ASSUME NEW v \in Workers, v # w
        PROVE  /\ HasEnd(v)' <=> HasEnd(v)
               /\ OneEnd(v) => OneEnd(v)'
    <2>1. CASE queue' = queue
      BY <2>1 DEF HasEnd, OneEnd, EndAt
    <2>2. ASSUME NEW e, e.worker = w, queue' = Append(queue, e)
          PROVE  /\ HasEnd(v)' <=> HasEnd(v)
                 /\ OneEnd(v) => OneEnd(v)'
      BY <1>2, <2>2, PostEnd
    <2> QED BY <2>1, <2>2
  <1>3. \A v \in Workers : v # w => (Unrun(v)' <=> Unrun(v))
    BY DEF Unrun
  <1>4. \A v \in Workers : v # w => (Ended(v)' <=> Ended(v))
    BY <1>2 DEF Ended
  <1> QED BY <1>1, <1>2, <1>3, <1>4 DEF KeepOthers, KeepOwn

\* The steps of a worker, in terms of what it owns.
LEMMA WorkerView ==
  ASSUME TypeOK, Handshake, WorkHeads, EndOnce, NEW w \in Workers, WorkerStep(w)
  PROVE  /\ WorkHeads' /\ EndOnce'
         /\ \/ SameWork
            \/ Drops(w) /\ (interrupt' \/ Stopping')
            \/ Runs(w)
  <1> USE DEF mainVars
  <1>0. /\ wpc \in [Workers -> {"connect", "ready", "wait", "exec", "run", "end",
                                "exited"}]
        /\ work \in [Workers -> Seq(BOOLEAN)]
    BY DEF TypeOK
  <1>1. /\ task' = task /\ pending' = pending /\ mpc' = mpc
        /\ \E to : wpc' = [wpc EXCEPT ![w] = to]
        /\ work' = work \/ work' = [work EXCEPT ![w] = Tail(work[w])]
    BY DEF WorkerStep, WConnect, WReady, WPop, WExit, WStart, WRun, WEnd, WFail,
           poolVars
  <1>2. \A v \in Workers : v # w => wpc'[v] = wpc[v] /\ work'[v] = work[v]
    BY <1>0, <1>1
  <1>3. \A type : Event(type, w).worker = w /\ Event(type, w).type = type
    BY DEF Event
  <1>4. Ready(w).worker = w /\ Ready(w).type = "READY"
    BY DEF Ready
  <1>5. \/ queue' = queue \/ queue' = Append(queue, Ready(w))
        \/ \E type : queue' = Append(queue, Event(type, w))
    BY DEF WorkerStep, WConnect, WReady, WPop, WExit, WStart, WRun, WEnd, WFail
  <1>6. queue' = queue \/ \E e : e.worker = w /\ queue' = Append(queue, e)
    BY <1>3, <1>4, <1>5
  <1>7. /\ KeepOthers(w) /\ WorkOf(w)' = WorkOf(w)
        /\ \A v \in Workers : v # w => /\ HasEnd(v)' <=> HasEnd(v)
                                       /\ OneEnd(v) => OneEnd(v)'
                                       /\ Unrun(v)' <=> Unrun(v)
    BY <1>1, <1>2, <1>6, OthersKeep
  \* what is left to show of each step
  <1>8. ASSUME OneEnd(w)', HasEnd(w)' => wpc'[w] # "end" /\ ~Unrun(w)'
        PROVE  EndOnce'
    <2> SUFFICES ASSUME NEW v \in Workers
                 PROVE  OneEnd(v)' /\ (HasEnd(v)' => wpc'[v] # "end" /\ ~Unrun(v)')
      BY DEF EndOnce
    <2>1. CASE v = w
      BY <1>8, <2>1
    <2>2. CASE v # w
      BY <1>2, <1>7, <2>2 DEF EndOnce
    <2> QED BY <2>1, <2>2
  <1>9. ASSUME work'[w] # <<>> /\ Head(work'[w]) => wpc'[w] = "wait",
               \A i \in 2..Len(work'[w]) : work'[w][i] = FALSE
        PROVE  WorkHeads'
    <2> SUFFICES ASSUME NEW v \in Workers
                 PROVE  /\ work'[v] # <<>> /\ Head(work'[v]) => wpc'[v] = "wait"
                        /\ \A i \in 2..Len(work'[v]) : work'[v][i] = FALSE
      BY Zenon DEF WorkHeads
    <2>1. CASE v = w
      BY <1>9, <2>1
    <2>2. CASE v # w
      BY <1>2, <2>2, Zenon DEF WorkHeads
    <2> QED BY <2>1, <2>2
  <1>10. /\ work[w] # <<>> /\ Head(work[w]) => wpc[w] = "wait"
         /\ \A i \in 2..Len(work[w]) : work[w][i] = FALSE
         /\ OneEnd(w) /\ (HasEnd(w) => wpc[w] # "end" /\ ~Unrun(w))
    BY DEF WorkHeads, EndOnce
  <1>11. ASSUME queue' = queue
         PROVE  (HasEnd(w)' <=> HasEnd(w)) /\ (OneEnd(w)' <=> OneEnd(w))
    BY <1>11 DEF HasEnd, OneEnd, EndAt
  <1>12. ASSUME NEW e, e.worker = w, e.type # "END", queue' = Append(queue, e)
         PROVE  (HasEnd(w)' <=> HasEnd(w)) /\ OneEnd(w)'
    BY <1>10, <1>12, PostEnd
  <1>13. ASSUME Unrun(w)' <=> Unrun(w), Ended(w)' <=> Ended(w), ran' = ran
         PROVE  SameWork
    BY <1>1, <1>7, <1>13 DEF SameWork, KeepOthers, KeepOwn
  <1>14. CASE WConnect(w) \/ WReady(w) \/ WStart(w)
    <2>1. /\ wpc[w] \in {"connect", "ready", "exec"} /\ work' = work /\ ran' = ran
          /\ wpc[w] = "exec" => wpc'[w] = "run"
          /\ wpc[w] = "connect" => wpc'[w] = "ready"
          /\ wpc[w] = "ready" => wpc'[w] = "wait"
          /\ \/ queue' = Append(queue, Ready(w))
             \/ queue' = Append(queue, Event("CONNECTED", w))
             \/ queue' = Append(queue, Event("START", w))
      BY <1>0, <1>14 DEF WConnect, WReady, WStart
    <2>2. (HasEnd(w)' <=> HasEnd(w)) /\ OneEnd(w)'
      BY <1>3, <1>4, <1>12, <2>1
    <2>3. ~(work[w] # <<>> /\ Head(work[w])) /\ work'[w] = work[w]
      BY <1>10, <2>1
    <2>4. Unrun(w)' <=> Unrun(w)
      BY <2>1, <2>3 DEF Unrun
    <2>5. (Ended(w)' <=> Ended(w)) /\ wpc'[w] # "end"
      BY <2>1, <2>2 DEF Ended
    <2>6. SameWork
      BY <1>13, <2>1, <2>4, <2>5
    <2>7. EndOnce'
      BY <1>8, <1>10, <2>2, <2>4, <2>5
    <2>8. WorkHeads'
      BY <1>9, <1>10, <2>3
    <2> QED BY <2>6, <2>7, <2>8
  <1>15. ASSUME work[w] # <<>>, work' = [work EXCEPT ![w] = Tail(@)]
         PROVE  /\ ~(work'[w] # <<>> /\ Head(work'[w]))
                /\ \A i \in 2..Len(work'[w]) : work'[w][i] = FALSE
    <2>1. work'[w] = Tail(work[w]) /\ work[w] \in Seq(BOOLEAN)
      BY <1>0, <1>15
    <2>2. /\ Len(work'[w]) = Len(work[w]) - 1 /\ Len(work[w]) \in Nat
          /\ \A i \in 1..Len(work'[w]) : work'[w][i] = work[w][i + 1]
      <3>1. \A s \in Seq(BOOLEAN) : s # <<>> =>
              /\ Len(Tail(s)) = Len(s) - 1 /\ Len(s) \in Nat
              /\ \A i \in 1..Len(Tail(s)) : Tail(s)[i] = s[i + 1]
        OBVIOUS
      <3> QED BY <1>15, <2>1, <3>1
    <2>3. \A i \in 1..Len(work'[w]) : i + 1 \in 2..Len(work[w])
      BY <2>2
    <2>4. \A i \in 1..Len(work'[w]) : work'[w][i] = FALSE
      BY <1>10, <2>2, <2>3
    <2>5. work'[w] # <<>> => Head(work'[w]) = work'[w][1] /\ 1 \in 1..Len(work'[w])
      BY <2>1
    <2>6. \A i \in 2..Len(work'[w]) : i \in 1..Len(work'[w])
      BY <2>2
    <2> QED BY <2>4, <2>5, <2>6
  <1>16. CASE WPop(w)
    <2>1. /\ wpc[w] = "wait" /\ wpc'[w] = "exec" /\ queue' = queue /\ ran' = ran
          /\ work[w] # <<>> /\ Head(work[w]) /\ work' = [work EXCEPT ![w] = Tail(@)]
      BY <1>0, <1>16 DEF WPop
    <2>2. Unrun(w)' /\ Unrun(w)
      BY <2>1 DEF Unrun
    <2>3. Ended(w)' <=> Ended(w)
      BY <1>11, <2>1 DEF Ended
    <2>4. SameWork
      BY <1>13, <2>1, <2>2, <2>3
    <2>5. EndOnce'
      BY <1>8, <1>10, <1>11, <2>1, <2>2
    <2>6. WorkHeads'
      BY <1>9, <1>15, <2>1
    <2> QED BY <2>4, <2>5, <2>6
  <1>17. CASE WExit(w)
    <2>1. /\ wpc[w] = "wait" /\ wpc'[w] = "exited" /\ ran' = ran
          /\ queue' = Append(queue, Event("EXIT", w)) /\ interrupt' = interrupt
          /\ work[w] # <<>> /\ (~Head(work[w]) \/ interrupt)
          /\ work' = [work EXCEPT ![w] = Tail(@)]
      BY <1>0, <1>17 DEF WExit
    <2>2. (HasEnd(w)' <=> HasEnd(w)) /\ OneEnd(w)'
      BY <1>3, <1>12, <2>1
    <2>3. ~Unrun(w)' /\ (Ended(w)' <=> Ended(w))
      BY <2>1, <2>2 DEF Unrun, Ended
    <2>4. SameWork \/ (Drops(w) /\ (interrupt' \/ Stopping'))
      <3>1. CASE Unrun(w)
        <4>1. interrupt
          BY <2>1, <3>1 DEF Unrun
        <4> QED BY <1>1, <1>7, <2>1, <2>3, <3>1, <4>1 DEF Drops
      <3>2. CASE ~Unrun(w)
        <4>1. ran' = ran
          BY <2>1
        <4> QED BY <1>13, <2>3, <3>2, <4>1
      <3> QED BY <3>1, <3>2
    <2>5. EndOnce'
      BY <1>8, <2>1, <2>2, <2>3
    <2>6. WorkHeads'
      BY <1>9, <1>15, <2>1
    <2> QED BY <2>4, <2>5, <2>6
  <1>18. CASE WRun(w)
    <2>1. /\ wpc[w] = "run" /\ wpc'[w] = "end" /\ queue' = queue /\ work' = work
          /\ ran' = ran \cup {WorkOf(w)}
      BY <1>0, <1>18 DEF WRun
    <2>2. Unrun(w) /\ ~Unrun(w)' /\ Ended(w)'
      BY <2>1 DEF Unrun, Ended
    <2>3. Runs(w)
      BY <1>1, <1>7, <2>1, <2>2 DEF Runs
    <2>4. ~HasEnd(w)' /\ OneEnd(w)'
      BY <1>10, <1>11, <2>1, <2>2
    <2>5. EndOnce'
      BY <1>8, <2>4
    <2>6. WorkHeads'
      BY <1>9, <1>10, <2>1
    <2> QED BY <2>3, <2>5, <2>6
  <1>19. CASE WEnd(w)
    <2>1. /\ wpc[w] = "end" /\ wpc'[w] = "ready" /\ work' = work /\ ran' = ran
          /\ queue' = Append(queue, Event("END", w))
      BY <1>0, <1>19 DEF WEnd
    <2>2. ~HasEnd(w)
      BY <1>10, <2>1
    <2>3. HasEnd(w)' /\ OneEnd(w)'
      BY <1>3, <1>10, <2>1, <2>2, PostEnd
    <2>4. ~Unrun(w) /\ ~Unrun(w)' /\ Ended(w) /\ Ended(w)'
      BY <2>1, <2>3 DEF Unrun, Ended
    <2>5. SameWork
      BY <1>13, <2>1, <2>4
    <2>6. EndOnce'
      BY <1>8, <2>1, <2>3, <2>4
    <2>7. WorkHeads'
      BY <1>9, <1>10, <2>1
    <2> QED BY <2>5, <2>6, <2>7
  <1>20. CASE WFail(w)
    <2>1. /\ wpc[w] \in {"connect", "run"} /\ wpc'[w] = "exited" /\ work' = work
          /\ ran' = ran /\ interrupt' = TRUE
          /\ queue' = Append(queue, Event("FATAL_ERROR", w))
      BY <1>0, <1>20 DEF WFail
    <2>2. (HasEnd(w)' <=> HasEnd(w)) /\ OneEnd(w)'
      BY <1>3, <1>12, <2>1
    <2>3. ~Unrun(w)' /\ (Ended(w)' <=> Ended(w))
      BY <2>1, <2>2 DEF Unrun, Ended
    <2>4. SameWork \/ Drops(w)
      <3>1. CASE Unrun(w)
        BY <1>1, <1>7, <2>1, <2>3, <3>1 DEF Drops
      <3>2. CASE ~Unrun(w)
        BY <1>13, <2>1, <2>3, <3>2
      <3> QED BY <3>1, <3>2
    <2>5. EndOnce'
      BY <1>8, <2>1, <2>2, <2>3
    <2>6. WorkHeads'
      BY <1>9, <1>10, <2>1
    <2> QED BY <2>1, <2>4, <2>5, <2>6
  <1> QED BY <1>14, <1>16, <1>17, <1>18, <1>19, <1>20 DEF WorkerStep

\* The workers do not move.
LEMMA StillView ==
  ASSUME WorkHeads, EndOnce, wpc' = wpc, work' = work,
         \A v \in Workers : /\ WorkOf(v)' = WorkOf(v)
                            /\ HasEnd(v)' <=> HasEnd(v)
                            /\ OneEnd(v) => OneEnd(v)'
  PROVE  WorkHeads' /\ EndOnce' /\ \A v \in Workers : KeepOwn(v)
  <1>1. \A v \in Workers : (Unrun(v)' <=> Unrun(v)) /\ (Ended(v)' <=> Ended(v))
    BY DEF Unrun, Ended
  <1>2. WorkHeads'
    BY DEF WorkHeads
  <1>3. EndOnce'
    BY <1>1 DEF EndOnce
  <1> QED BY <1>1, <1>2, <1>3 DEF KeepOwn

\* The same of a step that touches neither the workers nor the events.
LEMMA FrameView ==
  ASSUME WorkHeads, EndOnce, UNCHANGED <<wpc, work, queue, task>>
  PROVE  WorkHeads' /\ EndOnce' /\ \A v \in Workers : KeepOwn(v)
  <1>1. \A v \in Workers : WorkOf(v)' = WorkOf(v)
    BY DEF WorkOf
  <1>2. \A v \in Workers : (HasEnd(v)' <=> HasEnd(v)) /\ (OneEnd(v) => OneEnd(v)')
    BY DEF HasEnd, OneEnd, EndAt
  <1> QED BY <1>1, <1>2, StillView

\* The handlers of events, but for the end of a task.
LEMMA EventsView ==
  ASSUME TypeOK, WorkHeads, EndOnce,
         HandleOther \/ HandleReady \/ HandleExit \/ LeaveEvents
  PROVE  WorkHeads' /\ EndOnce' /\ SameWork
  <1> USE DEF mainVars, workerVars, poolVars
  <1>1. CASE HandleOther \/ HandleExit
    <2>1. /\ queue # <<>> /\ queue' = Tail(queue) /\ Head(queue).type # "END"
          /\ UNCHANGED <<wpc, work, task, pending, ran>>
      BY <1>1 DEF HandleOther, HandleExit, Handling
    <2>2. \A v \in Workers : (HasEnd(v)' <=> HasEnd(v)) /\ (OneEnd(v) => OneEnd(v)')
      BY <2>1, TakeEnd
    <2>3. \A v \in Workers : WorkOf(v)' = WorkOf(v)
      BY <2>1 DEF WorkOf
    <2> QED BY <2>1, <2>2, <2>3, StillView DEF SameWork
  <1>2. CASE HandleReady
    <2> DEFINE w == Head(queue).worker
    <2>1. /\ queue # <<>> /\ queue' = Tail(queue) /\ Head(queue).type # "END"
          /\ UNCHANGED <<wpc, work, pending, ran>>
          /\ task' = [task EXCEPT ![w] = [task[w] EXCEPT !.weight = 0]]
      BY <1>2 DEF HandleReady, Handling
    <2>2. \A v \in Workers : (HasEnd(v)' <=> HasEnd(v)) /\ (OneEnd(v) => OneEnd(v)')
      BY <2>1, TakeEnd
    <2>3. task \in [Workers -> Tasks]
      BY DEF TypeOK
    <2> HIDE DEF w
    <2>4. \A v \in Workers : WorkOf(v)' = WorkOf(v)
      BY <2>1, <2>3 DEF WorkOf, Tasks
    <2> QED BY <2>1, <2>2, <2>4, StillView DEF SameWork
  <1>3. CASE LeaveEvents
    <2>1. idle \in Seq(Workers) /\ DOMAIN idle = 1..Len(idle) /\ Len(idle) \in Nat
      BY DEF TypeOK
    <2>2. SubSeq(idle, Len(idle) + 1, Len(idle)) = <<>>
      BY <2>1
    <2>3. /\ queue' = queue \o [i \in 1..Len(idle) |-> Ready(idle[i])]
          /\ idle' = SubSeq(idle, Len(idle) + 1, Len(idle))
          /\ UNCHANGED <<wpc, work, task, pending, ran>>
      BY <1>3, <2>1, <2>2 DEF LeaveEvents
    <2>4. \A v \in Workers : (HasEnd(v)' <=> HasEnd(v)) /\ (OneEnd(v) => OneEnd(v)')
      BY <2>1, <2>3, WakeEnd
    <2>5. \A v \in Workers : WorkOf(v)' = WorkOf(v)
      BY <2>3 DEF WorkOf
    <2> QED BY <2>3, <2>4, <2>5, StillView DEF SameWork
  <1> QED BY <1>1, <1>2, <1>3

\* The handler of the end of a task.
LEMMA EndView ==
  ASSUME TypeOK, WorkHeads, EndOnce, HandleEnd
  PROVE  /\ WorkHeads' /\ EndOnce' /\ Head(queue).worker \in Workers
         /\ Reports(Head(queue).worker)
  <1> USE DEF workerVars, poolVars
  <1>0. PICK w : w = Head(queue).worker
    OBVIOUS
  <1>1. /\ queue # <<>> /\ queue' = Tail(queue) /\ Head(queue).type = "END"
        /\ UNCHANGED <<wpc, work, task, pending, ran>>
    BY DEF HandleEnd, Handling
  <1>2. w \in Workers
    BY <1>0, <1>1, Members, Taken
  <1>3. \A v \in Workers : OneEnd(v) /\ OneEnd(v)'
    BY <1>1, TakeEnd DEF EndOnce
  <1>4. \A v \in Workers : v # w => (HasEnd(v)' <=> HasEnd(v))
    BY <1>0, <1>1, TakeEnd
  <1>5. HasEnd(w) /\ ~HasEnd(w)'
    BY <1>0, <1>1, <1>2, <1>3, TakeEnd
  <1>6. wpc[w] # "end" /\ ~Unrun(w)
    BY <1>2, <1>5 DEF EndOnce
  <1>7. \A v \in Workers : (Unrun(v)' <=> Unrun(v)) /\ WorkOf(v)' = WorkOf(v)
    BY <1>1 DEF Unrun, WorkOf
  <1>8. /\ \A v \in Workers : v # w => (Ended(v)' <=> Ended(v))
        /\ Ended(w) /\ ~Ended(w)'
    BY <1>1, <1>4, <1>5, <1>6 DEF Ended
  <1>9. Reports(w)
    BY <1>1, <1>2, <1>6, <1>7, <1>8 DEF Reports, KeepOthers, KeepOwn
  <1>10. WorkHeads'
    BY <1>1 DEF WorkHeads
  <1>11. EndOnce'
    BY <1>1, <1>3, <1>4, <1>5, <1>7 DEF EndOnce
  <1> QED BY <1>0, <1>2, <1>9, <1>10, <1>11

\* What was told a worker last is the end of m_work_ready.
LEMMA Told ==
  ASSUME NEW s \in Seq(BOOLEAN), NEW b \in BOOLEAN
  PROVE  /\ Append(s, b) # <<>> /\ Append(s, b) \in Seq(BOOLEAN)
         /\ Len(Append(s, b)) = Len(s) + 1 /\ Append(s, b)[Len(s) + 1] = b
         /\ \A i \in 1..Len(s) : Append(s, b)[i] = s[i]
         /\ s = <<>> => Head(Append(s, b)) = b
         /\ s # <<>> => Head(Append(s, b)) = Head(s)
  <1>1. /\ Append(s, b) # <<>> /\ Append(s, b) \in Seq(BOOLEAN)
        /\ Len(Append(s, b)) = Len(s) + 1 /\ Append(s, b)[Len(s) + 1] = b
        /\ \A i \in 1..Len(s) : Append(s, b)[i] = s[i]
    OBVIOUS
  <1>2. \A r \in Seq(BOOLEAN) : r # <<>> => Head(r) = r[1] /\ 1 \in 1..Len(r)
    OBVIOUS
  <1>3. Head(Append(s, b)) = Append(s, b)[1]
    BY <1>1, <1>2
  <1>4. s = <<>> => Len(s) + 1 = 1
    OBVIOUS
  <1>5. ASSUME s = <<>> PROVE Head(Append(s, b)) = b
    <2>1. Append(s, b)[1] = b
      BY <1>1, <1>4, <1>5
    <2> QED BY <1>3, <2>1
  <1>6. s # <<>> => Head(Append(s, b)) = Head(s)
    BY <1>1, <1>2, <1>3
  <1> QED BY <1>1, <1>5, <1>6

\* The main loop, and what goes on around it.
LEMMA LoopView ==
  ASSUME TypeOK, Handshake, WorkHeads, EndOnce,
         \/ NoChunk \/ AssignIdle \/ StartTasks \/ Scan \/ Check \/ StopWorkers
         \/ JoinWorkers \/ MainFail \/ FetchFail \/ Interrupt \/ DumpStep
         \/ UNCHANGED vars
  PROVE  WorkHeads' /\ EndOnce' /\ SameWork
  <1> USE DEF mainVars, restVars, workerVars, poolVars
  <1>1. CASE StopWorkers
    <2>1. /\ mpc = "join" /\ UNCHANGED <<wpc, queue, task, pending, ran>>
          /\ work' = [w \in Workers |->
                        IF w \in live THEN Append(work[w], FALSE) ELSE work[w]]
      BY <1>1 DEF StopWorkers
    <2>2. ASSUME NEW w \in Workers
          PROVE  /\ work'[w] # <<>> /\ Head(work'[w]) <=> work[w] # <<>> /\ Head(work[w])
                 /\ \A i \in 2..Len(work'[w]) : work'[w][i] = FALSE
      <3>1. work[w] \in Seq(BOOLEAN) /\ \A i \in 2..Len(work[w]) : work[w][i] = FALSE
        BY DEF TypeOK, WorkHeads
      <3>2. CASE w \notin live
        <4>1. work'[w] = work[w]
          BY <2>1, <3>2
        <4> QED BY <3>1, <4>1
      <3>3. CASE w \in live
        <4>0. PICK b \in BOOLEAN : b = FALSE
          BY Zenon
        <4>1. work'[w] = Append(work[w], b)
          BY <2>1, <3>3, <4>0, Zenon
        <4>2. PICK l \in Nat : l = Len(work[w])
          BY <3>1
        <4>3. /\ work'[w] # <<>>
              /\ Len(work'[w]) = l + 1 /\ work'[w][l + 1] = b
              /\ \A i \in 1..l : work'[w][i] = work[w][i]
              /\ work[w] = <<>> => Head(work'[w]) = b
              /\ work[w] # <<>> => Head(work'[w]) = Head(work[w])
          BY <3>1, <4>1, <4>2, Told
        <4>4. \A i \in 2..(l + 1) : (i \in 2..l /\ i \in 1..l) \/ i = l + 1
          OBVIOUS
        <4>5. work[w] # <<>> => (Head(work'[w]) <=> Head(work[w]))
          BY <4>3
        <4>6. \A i \in 2..Len(work'[w]) : work'[w][i] = FALSE
          BY <3>1, <4>0, <4>2, <4>3, <4>4, Zenon
        <4>7. work[w] = <<>> => ~Head(work'[w])
          BY <4>0, <4>3, Zenon
        <4> QED BY <4>3, <4>5, <4>6, <4>7, Zenon
      <3> QED BY <3>2, <3>3
    <2>3. WorkHeads'
      BY <2>1, <2>2 DEF WorkHeads
    <2>4. \A v \in Workers : Unrun(v)' <=> Unrun(v)
      BY <2>1, <2>2 DEF Unrun
    <2>5. \A v \in Workers : /\ HasEnd(v)' <=> HasEnd(v)
                             /\ OneEnd(v) => OneEnd(v)'
                             /\ WorkOf(v)' = WorkOf(v)
      BY <2>1 DEF HasEnd, OneEnd, EndAt, WorkOf
    <2>6. \A v \in Workers : Ended(v)' <=> Ended(v)
      BY <2>1, <2>5 DEF Ended
    <2>7. EndOnce'
      BY <2>1, <2>4, <2>5 DEF EndOnce
    <2> QED BY <2>1, <2>3, <2>4, <2>5, <2>6, <2>7 DEF SameWork, KeepOwn
  <1>2. CASE \/ NoChunk \/ AssignIdle \/ StartTasks \/ Scan \/ Check \/ JoinWorkers
             \/ MainFail \/ FetchFail \/ Interrupt \/ DumpStep \/ UNCHANGED vars
    <2>1. UNCHANGED <<wpc, work, queue, task, pending, ran>>
      BY <1>2 DEF NoChunk, AssignIdle, StartTasks, Scan, Check, JoinWorkers,
           MainFail, FetchFail, Interrupt, DumpStep, FinishDump, WriteChunk, vars
    <2> QED BY <2>1, FrameView DEF SameWork
  <1> QED BY <1>1, <1>2

\* A worker is handed the heaviest task.
LEMMA AssignView ==
  ASSUME TypeOK, TopPosition, Handshake, WorkHeads, EndOnce, PendingDistinct,
         AssignTask
  PROVE  /\ WorkHeads' /\ EndOnce' /\ cur \in Workers
         /\ Takes(cur, WorkItem(TopTask))
  <1>0. PICK w \in Workers : w = cur
    BY DEF TypeOK
  <1>1. /\ mpc = "assign" /\ ~PendingEmpty /\ PopTop /\ TopTask \in Tasks
        /\ task' = [task EXCEPT ![w] = TopTask]
        /\ work' = [work EXCEPT ![w] = Append(@, TRUE)]
        /\ UNCHANGED <<wpc, ran>>
    BY <1>0, AssignFits DEF AssignTask
  <1>2. /\ wpc[w] = "wait" /\ work[w] = <<>>
        /\ \A i \in 1..Len(queue) : queue[i].worker # w
    BY <1>0, <1>1 DEF Handshake, Stopping, CurFree, Scheduling, Free, Quiet
  <1>3. PICK n \in Nat : /\ n <= Len(idle)
                         /\ queue' = queue \o [i \in 1..n |-> Ready(idle[i])]
                         /\ idle' = SubSeq(idle, n + 1, Len(idle))
    BY AssignWakes
  <1>4. \A v \in Workers : (HasEnd(v)' <=> HasEnd(v)) /\ (OneEnd(v) => OneEnd(v)')
    BY <1>3, WakeEnd
  <1>5. work \in [Workers -> Seq(BOOLEAN)] /\ task \in [Workers -> Tasks]
    BY DEF TypeOK
  <1>6. /\ work'[w] # <<>> /\ Head(work'[w]) /\ Len(work'[w]) = 1
        /\ \A v \in Workers : v # w => work'[v] = work[v]
        /\ task'[w] = TopTask /\ \A v \in Workers : v # w => task'[v] = task[v]
    <2>0. PICK b \in BOOLEAN : b = TRUE
      BY Zenon
    <2>1. work' = [work EXCEPT ![w] = Append(work[w], b)]
      BY <1>1, <2>0, Zenon
    <2>2. work'[w] = Append(work[w], b) /\ Len(work[w]) = 0
      BY <1>2, <1>5, <2>1
    <2>3. work'[w] # <<>> /\ Head(work'[w]) = b /\ Len(work'[w]) = 1
      BY <1>2, <1>5, <2>2, Told
    <2>5. Head(work'[w])
      BY <2>0, <2>3, Zenon
    <2>4. /\ \A v \in Workers : v # w => work'[v] = work[v]
          /\ task'[w] = TopTask /\ \A v \in Workers : v # w => task'[v] = task[v]
      BY <1>1, <1>5
    <2> QED BY <2>3, <2>4, <2>5, Zenon
  <1>7. ~HasEnd(w) /\ ~HasEnd(w)'
    BY <1>2, <1>4 DEF HasEnd, EndAt
  <1>8. Unrun(w)' /\ ~Unrun(w) /\ ~Ended(w) /\ ~Ended(w)'
    BY <1>1, <1>2, <1>6, <1>7 DEF Unrun, Ended
  <1>9. KeepOthers(w)
    BY <1>1, <1>4, <1>6 DEF KeepOthers, KeepOwn, Unrun, Ended, WorkOf
  <1>10. WorkOf(w)' = WorkItem(TopTask)
    BY <1>6 DEF WorkOf, WorkItem
  <1>11. /\ Queued(WorkItem(TopTask)) /\ PendingDistinct'
         /\ \A y : Queued(y)' <=> Queued(y) /\ y # WorkItem(TopTask)
    BY <1>1, PopView
  <1>12. Takes(w, WorkItem(TopTask))
    BY <1>1, <1>8, <1>9, <1>10, <1>11 DEF Takes, Owns
  <1>13. WorkHeads'
    <2>1. \A i \in 2..1 : FALSE
      OBVIOUS
    <2>2. wpc'[w] = "wait" /\ \A i \in 2..Len(work'[w]) : work'[w][i] = FALSE
      BY <1>1, <1>2, <1>6, <2>1
    <2>3. ASSUME NEW v \in Workers, v # w
          PROVE  /\ work'[v] # <<>> /\ Head(work'[v]) => wpc'[v] = "wait"
                 /\ \A i \in 2..Len(work'[v]) : work'[v][i] = FALSE
      <3>1. work'[v] = work[v] /\ wpc'[v] = wpc[v]
        BY <1>1, <1>6, <2>3
      <3>2. /\ work[v] # <<>> /\ Head(work[v]) => wpc[v] = "wait"
            /\ \A i \in 2..Len(work[v]) : work[v][i] = FALSE
        BY <1>1, <2>3, Zenon DEF WorkHeads
      <3> QED BY <3>1, <3>2, Zenon
    <2> QED BY <2>2, <2>3, Zenon DEF WorkHeads
  <1>14. EndOnce'
    BY <1>1, <1>4, <1>7, <1>9 DEF EndOnce, KeepOthers, KeepOwn
  <1> QED BY <1>0, <1>12, <1>13, <1>14

----------------------------------------------------------------------------
(* What schedule_next() issues.                                             *)

\* A step issues a piece of work, and no other.
Issues(x) ==
  /\ x \in Items /\ ~Issued(x) /\ Issued(x)' /\ IssuedGrows
  /\ \A y \in Items : Issued(y)' => Issued(y) \/ y = x

\* A step issues nothing.
IssuesNothing == \A y \in Items : Issued(y)' <=> Issued(y)

\* The stages of the tables are left alone.
LEMMA IssuedSame ==
  ASSUME UNCHANGED <<ddlTodo, consumed, indexes, analyze, checksum>>
  PROVE  IssuesNothing
  BY DEF IssuesNothing, Issued

\* A triple, and its members.
LEMMA Triple ==
  ASSUME NEW k \in Kinds, NEW o \in Tables \cup Parts, NEW i \in Nat
  PROVE  /\ <<k, o, i>> \in Items
         /\ <<k, o, i>>[1] = k /\ <<k, o, i>>[2] = o /\ <<k, o, i>>[3] = i
         /\ \A y \in Items : y[1] = k /\ y[2] = o /\ y[3] = i => y = <<k, o, i>>
  BY DEF Items

\* The DDL of a table.
LEMMA IssueDdl ==
  ASSUME TypeOK, NextTableDdl
  PROVE  \/ IssuesNothing /\ pending' = pending
         \/ \E t \in Tables : Push("ddl", t, 0, 1) /\ Issues(<<"ddl", t, 0>>)
  <1> USE DEF poolVars, dataVars
  <1>0. /\ UNCHANGED <<consumed, indexes, analyze, checksum>>
        /\ \/ ddlTodo' = ddlTodo /\ pending' = pending
           \/ \E t \in ddlTodo : ddlTodo' = ddlTodo \ {t} /\ Push("ddl", t, 0, 1)
    BY DEF NextTableDdl
  <1>1. CASE ddlTodo' = ddlTodo /\ pending' = pending
    BY <1>0, <1>1, IssuedSame
  <1>2. ASSUME NEW t \in ddlTodo, ddlTodo' = ddlTodo \ {t}, Push("ddl", t, 0, 1)
        PROVE  t \in Tables /\ Issues(<<"ddl", t, 0>>)
    <2> DEFINE x == <<"ddl", t, 0>>
    <2>1. t \in Tables
      BY DEF TypeOK
    <2>2. /\ x \in Items /\ x[1] = "ddl" /\ x[2] = t /\ x[3] = 0
          /\ \A y \in Items : y[1] = "ddl" /\ y[2] = t /\ y[3] = 0 => y = x
      BY <2>1, Triple DEF Kinds
    <2> HIDE DEF x
    <2>3. ~Issued(x) /\ Issued(x)'
      BY <1>2, <2>1, <2>2 DEF Issued
    <2>4. \A y \in Items : /\ Issued(y) => Issued(y)'
                           /\ Issued(y)' => Issued(y) \/ y = x
      BY <1>0, <1>2, <2>2 DEF Issued
    <2>5. Issues(x)
      BY <2>2, <2>3, <2>4 DEF Issues, IssuedGrows
    <2> QED BY <2>1, <2>5 DEF x
  <1> QED BY <1>0, <1>1, <1>2

\* A chunk of a part.
LEMMA IssueChunk ==
  ASSUME TypeOK, NEW p \in Parts, consumed' = [consumed EXCEPT ![p] = @ + 1],
         UNCHANGED <<ddlTodo, indexes, analyze, checksum>>
  PROVE  IF <<p, consumed[p]>> \in PrevLoaded
         THEN IssuesNothing ELSE Issues(<<"chunk", p, consumed[p]>>)
  <1>1. consumed \in [Parts -> Nat]
    BY DEF TypeOK
  <1>2. PICK n \in Nat : n = consumed[p]
    BY <1>1
  <1>3. /\ consumed'[p] = n + 1
        /\ \A q \in Parts : q # p => consumed'[q] = consumed[q]
    BY <1>1, <1>2
  <1> DEFINE x == <<"chunk", p, n>>
  <1>4. /\ x \in Items /\ x[1] = "chunk" /\ x[2] = p /\ x[3] = n
        /\ \A y \in Items : y[1] = "chunk" /\ y[2] = p /\ y[3] = n => y = x
    BY Triple DEF Kinds
  <1>5. \A y \in Items : y[3] \in Nat
    BY DEF Items
  <1> HIDE DEF x
  <1>6. CASE <<p, n>> \in PrevLoaded
    <2>1. ASSUME NEW y \in Items PROVE Issued(y)' <=> Issued(y)
      BY <1>1, <1>2, <1>3, <1>5, <1>6 DEF Issued
    <2> QED BY <1>2, <1>6, <2>1 DEF IssuesNothing
  <1>7. CASE <<p, n>> \notin PrevLoaded
    <2>3. ~Issued(x) /\ Issued(x)'
      BY <1>2, <1>3, <1>4, <1>7 DEF Issued
    <2>4. \A y \in Items : /\ Issued(y) => Issued(y)'
                           /\ Issued(y)' => Issued(y) \/ y = x
      BY <1>1, <1>2, <1>3, <1>4, <1>5 DEF Issued
    <2>5. Issues(x)
      BY <1>4, <2>3, <2>4 DEF Issues, IssuedGrows
    <2> QED BY <1>2, <1>7, <2>5 DEF x
  <1> QED BY <1>2, <1>6, <1>7

\* The indexes of a table.
LEMMA IssueIndex ==
  ASSUME TypeOK, NEW t \in Tables, indexes[t] = "todo",
         indexes' = [indexes EXCEPT ![t] = "scheduled"],
         UNCHANGED <<ddlTodo, consumed, analyze, checksum>>
  PROVE  Issues(<<"index", t, 0>>)
  <1> DEFINE x == <<"index", t, 0>>
  <1>1. indexes \in [Tables -> {"none", "todo", "scheduled", "created"}]
    BY DEF TypeOK
  <1>2. /\ x \in Items /\ x[1] = "index" /\ x[2] = t /\ x[3] = 0
        /\ \A y \in Items : y[1] = "index" /\ y[2] = t /\ y[3] = 0 => y = x
    BY Triple DEF Kinds
  <1>3. /\ indexes'[t] = "scheduled"
        /\ \A q \in Tables : q # t => indexes'[q] = indexes[q]
    BY <1>1
  <1> HIDE DEF x
  <1>4. ~Issued(x) /\ Issued(x)'
    BY <1>2, <1>3 DEF Issued
  <1>5. \A y \in Items : /\ Issued(y) => Issued(y)'
                         /\ Issued(y)' => Issued(y) \/ y = x
    BY <1>2, <1>3 DEF Issued
  <1>6. Issues(x)
    BY <1>2, <1>4, <1>5 DEF Issues, IssuedGrows
  <1> QED BY <1>6 DEF x

\* The analysis of a table.
LEMMA IssueAnalyze ==
  ASSUME TypeOK, NEW t \in Tables, analyze[t] = "todo",
         analyze' = [analyze EXCEPT ![t] = "scheduled"],
         UNCHANGED <<ddlTodo, consumed, indexes, checksum>>
  PROVE  IF AnalyzeMode = "on" \/ (AnalyzeMode = "histogram" /\ t \in Histograms)
         THEN Issues(<<"analyze", t, 0>>) ELSE IssuesNothing
  <1> DEFINE x == <<"analyze", t, 0>>
             Wanted == AnalyzeMode = "on"
                       \/ (AnalyzeMode = "histogram" /\ t \in Histograms)
  <1>1. analyze \in [Tables -> {"todo", "scheduled", "finished"}]
    BY DEF TypeOK
  <1>2. /\ x \in Items /\ x[1] = "analyze" /\ x[2] = t /\ x[3] = 0
        /\ \A y \in Items : y[1] = "analyze" /\ y[2] = t /\ y[3] = 0 => y = x
    BY Triple DEF Kinds
  <1>3. /\ analyze'[t] = "scheduled"
        /\ \A q \in Tables : q # t => analyze'[q] = analyze[q]
    BY <1>1
  <1> HIDE DEF x
  <1>4. CASE Wanted
    <2>4. ~Issued(x) /\ Issued(x)'
      BY <1>2, <1>3, <1>4 DEF Issued
    <2>5. \A y \in Items : /\ Issued(y) => Issued(y)'
                           /\ Issued(y)' => Issued(y) \/ y = x
      BY <1>2, <1>3 DEF Issued
    <2>6. Issues(x)
      BY <1>2, <2>4, <2>5 DEF Issues, IssuedGrows
    <2> QED BY <1>4, <2>6 DEF x
  <1>5. CASE ~Wanted
    <2>1. \A y : Issued(y)' <=> Issued(y)
      BY <1>3, <1>5 DEF Issued
    <2> QED BY <1>5, <2>1 DEF IssuesNothing
  <1> QED BY <1>4, <1>5

\* The checksum of a part.
LEMMA IssueChecksum ==
  ASSUME TypeOK, NEW p \in Parts, checksum[p] = "todo",
         NEW to \in {"scheduled", "verified"},
         checksum' = [checksum EXCEPT ![p] = to],
         UNCHANGED <<ddlTodo, consumed, indexes, analyze>>
  PROVE  Issues(<<"checksum", p, 0>>)
  <1> DEFINE x == <<"checksum", p, 0>>
  <1>1. checksum \in [Parts -> {"none", "todo", "scheduled", "verified"}]
    BY DEF TypeOK
  <1>2. /\ x \in Items /\ x[1] = "checksum" /\ x[2] = p /\ x[3] = 0
        /\ \A y \in Items : y[1] = "checksum" /\ y[2] = p /\ y[3] = 0 => y = x
    BY Triple DEF Kinds
  <1>3. /\ checksum'[p] = to
        /\ \A q \in Parts : q # p => checksum'[q] = checksum[q]
    BY <1>1
  <1> HIDE DEF x
  <1>4. ~Issued(x) /\ Issued(x)'
    BY <1>2, <1>3 DEF Issued
  <1>5. \A y \in Items : /\ Issued(y) => Issued(y)'
                         /\ Issued(y)' => Issued(y) \/ y = x
    BY <1>2, <1>3 DEF Issued
  <1>6. Issues(x)
    BY <1>2, <1>4, <1>5 DEF Issues, IssuedGrows
  <1> QED BY <1>6 DEF x

\* A piece of work that was issued is queued.
LEMMA PushedView ==
  ASSUME TypeOK, WorkHeads, EndOnce, Ledger,
         NEW kind \in Kinds, NEW of \in Tables \cup Parts, NEW index \in Nat,
         NEW w \in Nat \ {0}, Push(kind, of, index, w),
         Issues(<<kind, of, index>>), UNCHANGED <<queue, workerVars>>
  PROVE  /\ WorkHeads' /\ EndOnce' /\ Ledger'
         /\ \A y : Handled(y)' <=> Handled(y)
         /\ \A y : Alive(y)' <=> Alive(y) \/ y = <<kind, of, index>>
  <1> DEFINE t == Task(kind, of, index, Cut(w))
             x == <<kind, of, index>>
  <1>1. Cut(w) \in 1..threads_count
    BY CutType
  <1>2. /\ t \in Tasks /\ t.weight \in 1..threads_count /\ WorkItem(t) = x
        /\ Emplace(t)
    BY <1>1, PoolSize DEF Task, Tasks, Push, WorkItem
  <1>3. UNCHANGED <<wpc, work, queue, task, ran>>
    BY DEF workerVars
  <1>4. WorkHeads' /\ EndOnce' /\ \A v \in Workers : KeepOwn(v)
    BY <1>3, FrameView
  <1>5. x \in Items /\ ~Issued(x) /\ Issued(x)' /\ IssuedGrows
    BY DEF Issues
  <1> HIDE DEF t, x
  <1>6. ~Queued(x)
    BY <1>5, QueuedItem DEF Ledger
  <1>7. (\A y : Queued(y)' <=> Queued(y) \/ y = x) /\ PendingDistinct'
    BY <1>2, <1>6, PushView DEF Ledger
  <1>8. Pushes(x)
    BY <1>3, <1>4, <1>5, <1>7 DEF Pushes
  <1>9. \A a \in 1..threads_count : \A i \in 1..Len(pending'[a]) :
          WorkItem(pending'[a][i]) \in Items
    <2>1. ASSUME NEW a \in 1..threads_count, NEW i \in 1..Len(pending'[a])
          PROVE  WorkItem(pending'[a][i]) \in Items
      <3>0. PICK y : y = WorkItem(pending'[a][i])
        OBVIOUS
      <3>1. Queued(y)'
        BY <3>0 DEF Queued
      <3>2. Queued(y) \/ y = x
        BY <1>7, <3>1
      <3> QED BY <1>5, <3>0, <3>2, QueuedItem DEF Ledger
    <2> QED BY <2>1
  <1>10. /\ Ledger'
         /\ \A y : Handled(y)' <=> Handled(y)
         /\ \A y : Alive(y)' <=> Alive(y) \/ y = x
    BY <1>5, <1>8, <1>9, PushEffect
  <1> QED BY <1>4, <1>10 DEF x

----------------------------------------------------------------------------
(* The account is kept.                                                     *)

\* A step issues the work it queues, and at most the checksum of a table that
\* is gone besides.
IssuesQueued ==
  \A y \in Items : Issued(y)' =>
    Issued(y) \/ Alive(y)' \/ (y[1] = "checksum" /\ TableOf[y[2]] \in NoTable)

\* The interrupt and the end of the load are for good.
Lasting == (interrupt => interrupt') /\ (Stopping => Stopping')

\* Work is lost with an interrupt only.
LEMMA LostStep ==
  ASSUME NothingLost, IssuesQueued, Lasting, ran \subseteq ran',
         interrupt' \/ Stopping' \/ \A y : Alive(y) => Alive(y)' \/ y \in ran'
  PROVE  NothingLost'
  BY DEF NothingLost, IssuesQueued, Lasting

\* Nothing gets on its way, and the marks of the parts stay.
LEMMA SerialKeep ==
  ASSUME SerialOne, \A y : Alive(y)' => Alive(y), inflight' = inflight
  PROVE  SerialOne'
  BY DEF SerialOne

\* What holds of a step that issues nothing.
LEMMA NothingIssued == IssuesNothing => IssuedGrows /\ IssuesQueued
  BY DEF IssuesNothing, IssuedGrows, IssuesQueued

\* Nothing changes hands and nothing is queued.
LEMMA AccountSame ==
  ASSUME Account, WorkHeads', EndOnce', SameWork, IssuedGrows, IssuesQueued,
         Lasting, inflight' = inflight
  PROVE  /\ Account' /\ ran' = ran
         /\ \A x : Handled(x)' <=> Handled(x)
  <1>1. IssuedGrows /\ IssuesQueued
    OBVIOUS
  <1>2. /\ Ledger'
        /\ \A x : Handled(x)' <=> Handled(x)
        /\ \A x : Alive(x)' <=> Alive(x)
    BY <1>1, SameEffect DEF Account
  <1>3. ran' = ran
    BY DEF SameWork
  <1>4. NothingLost'
    BY <1>1, <1>2, <1>3, LostStep DEF Account
  <1>5. SerialOne'
    BY <1>2, SerialKeep DEF Account
  <1> QED BY <1>2, <1>3, <1>4, <1>5 DEF Account

\* A chunk leaves its part.
LEMMA LeaveView ==
  ASSUME TypeOK, Ledger, SerialOne, NEW w \in Workers, Leave(w), Unrun(w),
         Alive(WorkOf(w)),
         \A y : Alive(y)' => Alive(y) /\ y # WorkOf(w)
  PROVE  SerialOne'
  <1>1. inflight \in [Parts -> Int]
    BY DEF TypeOK
  <1>2. CASE task[w].kind # "chunk"
    BY <1>2, SerialKeep DEF Leave
  <1>3. CASE task[w].kind = "chunk"
    <2>1. WorkOf(w) \in Items /\ Issued(WorkOf(w))
      BY DEF Ledger, Owned, Owns
    <2>2. PICK q \in Parts : q = task[w].of
      BY <1>3, <2>1 DEF WorkOf, Issued
    <2>3. PICK n \in Nat : n = task[w].index
      BY DEF TypeOK, Tasks
    <2>4. WorkOf(w) = <<"chunk", q, n>>
      BY <1>3, <2>2, <2>3 DEF WorkOf
    <2>5. inflight' = [inflight EXCEPT ![q] = inflight[q] - 1]
      BY <1>3, <2>2 DEF Leave
    <2>6. /\ inflight'[q] = inflight[q] - 1 /\ inflight[q] \in Int
          /\ \A p \in Parts : p # q => inflight'[p] = inflight[p]
      BY <1>1, <2>5
    <2>7. ASSUME NEW p \in Serial
          PROVE  /\ inflight'[p] >= 0
                 /\ \A i \in Nat : Alive(<<"chunk", p, i>>)' =>
                      /\ inflight'[p] > 0
                      /\ \A j \in Nat : Alive(<<"chunk", p, j>>)' => i = j
      <3>1. p \in Parts
        BY SchedulerAssumption
      <3>2. CASE p # q
        BY <2>6, <3>1, <3>2 DEF SerialOne
      <3>3. CASE p = q
        <4>1. inflight[q] > 0
              /\ \A j \in Nat : Alive(<<"chunk", q, j>>) => n = j
          BY <2>4, <2>7, <3>3 DEF SerialOne
        <4>2. \A j \in Nat : ~Alive(<<"chunk", q, j>>)'
          BY <2>4, <4>1
        <4> QED BY <2>6, <3>3, <4>1, <4>2
      <3> QED BY <3>2, <3>3
    <2> QED BY <2>7 DEF SerialOne
  <1> QED BY <1>2, <1>3

\* The steps of the workers.
LEMMA AccountWorker ==
  ASSUME TypeOK, Handshake, Account, NEW w \in Workers, WorkerStep(w)
  PROVE  /\ Account' /\ ran \subseteq ran'
         /\ \A x : Handled(x)' <=> Handled(x)
  <1> USE DEF mainVars, readerVars, stageVars, dataVars
  <1>1. /\ UNCHANGED <<ddlTodo, consumed, indexes, analyze, checksum, mpc>>
        /\ interrupt' = interrupt \/ interrupt' = TRUE
    BY DEF WorkerStep, WConnect, WReady, WPop, WExit, WStart, WRun, WEnd, WFail
  <1>2. IssuesNothing /\ Lasting
    <2>1. interrupt => interrupt'
      BY <1>1, Zenon
    <2> QED BY <1>1, <2>1, IssuedSame DEF Lasting, Stopping
  <1>3. IssuedGrows /\ IssuesQueued
    BY <1>2, NothingIssued
  <1>4. /\ WorkHeads' /\ EndOnce'
        /\ \/ SameWork \/ (Drops(w) /\ (interrupt' \/ Stopping'))
           \/ Runs(w)
    BY WorkerView DEF Account
  <1>5. CASE SameWork
    <2>1. inflight' = inflight
      <3>0. WRun(w) => wpc'[w] = "end"
        BY DEF WRun, TypeOK
      <3>1. ~WRun(w)
        BY <1>5, <3>0 DEF SameWork, KeepOwn, WRun, Unrun
      <3>2. WFail(w) => wpc[w] = "connect" \/ ~Unrun(w)'
        BY DEF WFail, Unrun, TypeOK
      <3>3. WFail(w) => wpc[w] # "run"
        BY <1>5, <3>2 DEF SameWork, KeepOwn, Unrun
      <3> QED BY <3>1, <3>3 DEF WorkerStep, WConnect, WReady, WPop, WExit,
                  WStart, WEnd, WFail
    <2> QED BY <1>2, <1>3, <1>4, <1>5, <2>1, AccountSame
  <1>6. CASE Drops(w) /\ (interrupt' \/ Stopping')
    <2>1. /\ Ledger'
          /\ \A x : Handled(x)' <=> Handled(x)
          /\ \A x : Alive(x)' => Alive(x) /\ x # WorkOf(w)
          /\ Alive(WorkOf(w))
      BY <1>3, <1>6, DropEffect DEF Account
    <2>2. ran' = ran /\ Unrun(w) /\ ~Unrun(w)'
      BY <1>6 DEF Drops
    <2>3. NothingLost'
      BY <1>2, <1>3, <1>6, <2>2, LostStep DEF Account
    <2>4. inflight' = inflight \/ Leave(w)
      BY DEF WorkerStep, WConnect, WReady, WPop, WExit, WStart, WRun, WEnd, WFail
    <2>5. SerialOne'
      BY <2>1, <2>2, <2>4, SerialKeep, LeaveView DEF Account
    <2> QED BY <1>4, <2>1, <2>2, <2>3, <2>5 DEF Account
  <1>7. CASE Runs(w)
    <2>1. /\ Ledger'
          /\ \A x : Handled(x)' <=> Handled(x)
          /\ \A x : Alive(x)' <=> Alive(x) /\ x # WorkOf(w)
          /\ Alive(WorkOf(w))
      BY <1>3, <1>7, RunEffect DEF Account
    <2>2. ran' = ran \cup {WorkOf(w)} /\ Unrun(w)
      BY <1>7 DEF Runs
    <2>3. \A x : Alive(x) => Alive(x)' \/ x \in ran'
      BY <2>1, <2>2
    <2>4. NothingLost'
      BY <1>2, <1>3, <2>2, <2>3, LostStep DEF Account
    <2>5. inflight' = inflight \/ Leave(w)
      BY DEF WorkerStep, WConnect, WReady, WPop, WExit, WStart, WRun, WEnd, WFail
    <2>6. SerialOne'
      BY <2>1, <2>2, <2>5, SerialKeep, LeaveView DEF Account
    <2> QED BY <1>4, <2>1, <2>2, <2>4, <2>6 DEF Account
  <1> QED BY <1>4, <1>5, <1>6, <1>7

\* The handlers of events, the main loop, and what goes on around them.
LEMMA AccountLoop ==
  ASSUME TypeOK, Handshake, Account,
         \/ HandleOther \/ HandleReady \/ HandleExit \/ LeaveEvents
         \/ NoChunk \/ AssignIdle \/ StartTasks \/ Scan \/ Check \/ StopWorkers
         \/ JoinWorkers \/ MainFail \/ FetchFail \/ Interrupt \/ DumpStep
         \/ UNCHANGED vars
  PROVE  /\ Account' /\ ran' = ran
         /\ \A x : Handled(x)' <=> Handled(x)
  <1> USE DEF mainVars, readerVars, stageVars, dataVars, restVars
  <1>1. WorkHeads' /\ EndOnce' /\ SameWork
    BY EventsView, LoopView DEF Account
  <1>2. /\ UNCHANGED <<ddlTodo, consumed, indexes, analyze, checksum>>
        /\ inflight' = inflight
        /\ interrupt' = interrupt \/ interrupt' = TRUE
    BY DEF HandleOther, HandleReady, HandleExit, LeaveEvents, NoChunk, AssignIdle,
           StartTasks, Scan, Check, StopWorkers, JoinWorkers, MainFail, FetchFail,
           Interrupt, DumpStep, FinishDump, WriteChunk, vars
  <1>3. Stopping => Stopping'
    BY DEF HandleOther, HandleReady, HandleExit, LeaveEvents, NoChunk, AssignIdle,
           StartTasks, Scan, Check, StopWorkers, JoinWorkers, MainFail, FetchFail,
           Interrupt, DumpStep, FinishDump, WriteChunk, vars, Handling, Stopping
  <1>4. interrupt => interrupt'
    BY <1>2, Zenon
  <1>5. IssuesNothing /\ Lasting
    BY <1>2, <1>3, <1>4, IssuedSame DEF Lasting
  <1>6. IssuedGrows /\ IssuesQueued
    BY <1>5, NothingIssued
  <1> QED BY <1>1, <1>2, <1>5, <1>6, AccountSame

\* A worker is handed the heaviest task.
LEMMA AccountAssign ==
  ASSUME TypeOK, TopPosition, Handshake, Account, AssignTask
  PROVE  /\ Account' /\ ran' = ran
         /\ \A x : Handled(x)' <=> Handled(x)
  <1> USE DEF readerVars, stageVars, dataVars
  <1>1. PICK w \in Workers : w = cur
    BY DEF TypeOK
  <1>2. PICK x : x = WorkItem(TopTask)
    OBVIOUS
  <1>3. WorkHeads' /\ EndOnce' /\ Takes(w, x)
    BY <1>1, <1>2, AssignView DEF Account, Ledger
  <1>4. /\ UNCHANGED <<ddlTodo, consumed, indexes, analyze, checksum>>
        /\ inflight' = inflight /\ interrupt' = interrupt
        /\ mpc = "assign"
    BY DEF AssignTask
  <1>5. IssuesNothing /\ Lasting
    BY <1>4, IssuedSame DEF Lasting, Stopping
  <1>6. IssuedGrows /\ IssuesQueued
    BY <1>5, NothingIssued
  <1>7. ran' = ran /\ \A y : Queued(y)' => Queued(y)
    BY <1>3 DEF Takes
  <1>8. ASSUME NEW a \in 1..threads_count, NEW i \in 1..Len(pending'[a])
        PROVE  WorkItem(pending'[a][i]) \in Items
    <2>0. PICK y : y = WorkItem(pending'[a][i])
      OBVIOUS
    <2>1. Queued(y)'
      BY <2>0 DEF Queued
    <2>2. Queued(y)
      BY <1>7, <2>1
    <2> QED BY <2>0, <2>2, QueuedItem DEF Account, Ledger
  <1>9. /\ Ledger'
        /\ \A y : Handled(y)' <=> Handled(y)
        /\ \A y : Alive(y)' <=> Alive(y)
    BY <1>3, <1>6, <1>8, TakeEffect DEF Account
  <1>10. NothingLost'
    BY <1>5, <1>6, <1>7, <1>9, LostStep DEF Account
  <1>11. SerialOne'
    BY <1>4, <1>9, SerialKeep DEF Account
  <1> QED BY <1>3, <1>7, <1>9, <1>10, <1>11 DEF Account

\* What the handler of END reads and writes: the task of the worker that posted
\* the event, which the account knows.
LEMMA EndReads ==
  ASSUME TypeOK, EventTaskMatch, Account, HandleEnd
  PROVE  \E w \in Workers :
           /\ w = Head(queue).worker /\ Reports(w)
           /\ Head(queue).kind = task[w].kind
           /\ Issued(WorkOf(w)) /\ ~Handled(WorkOf(w)) /\ WorkOf(w) \in ran
           /\ task[w].kind # "chunk" => task[w].index = 0
           /\ task[w].kind \in {"chunk", "checksum"} => task[w].of \in Parts
           /\ task[w].kind \in {"ddl", "index", "analyze"} => task[w].of \in Tables
  <1>0. PICK w \in Workers : w = Head(queue).worker
    BY EndView DEF Account
  <1>1. Reports(w)
    BY <1>0, EndView DEF Account
  <1>2. Ended(w) /\ Owns(w)
    BY <1>1 DEF Reports, Owns
  <1>3. Issued(WorkOf(w)) /\ ~Handled(WorkOf(w)) /\ WorkOf(w) \in Items
        /\ WorkOf(w) \in ran
    BY <1>2 DEF Account, Ledger, Owned, Handled
  <1>4. /\ queue # <<>> /\ Head(queue).type = "END" /\ queue' = Tail(queue)
    BY DEF HandleEnd, Handling
  <1>5. Head(queue) = queue[1] /\ 1 \in 1..Len(queue)
    BY <1>4, Taken
  <1>6. Head(queue).kind = task[w].kind
    BY <1>0, <1>4, <1>5 DEF EventTaskMatch
  <1>7. /\ task[w].kind # "chunk" => task[w].index = 0
        /\ task[w].kind \in {"chunk", "checksum"} => task[w].of \in Parts
        /\ task[w].kind \in {"ddl", "index", "analyze"} => task[w].of \in Tables
    BY <1>3 DEF Issued, WorkOf
  <1> QED BY <1>0, <1>1, <1>3, <1>6, <1>7

\* The handler of the end of a task.
LEMMA AccountEnd ==
  ASSUME TypeOK, EventTaskMatch, Account, IndexStage, HandleEnd
  PROVE  /\ Account' /\ ran' = ran
         /\ \A x : Handled(x)' <=>
              Handled(x) \/ x = WorkOf(Head(queue).worker)
  <1>0. PICK w \in Workers :
           /\ w = Head(queue).worker /\ Reports(w)
           /\ Head(queue).kind = task[w].kind
           /\ Issued(WorkOf(w)) /\ ~Handled(WorkOf(w)) /\ WorkOf(w) \in ran
           /\ task[w].kind # "chunk" => task[w].index = 0
           /\ task[w].kind \in {"chunk", "checksum"} => task[w].of \in Parts
           /\ task[w].kind \in {"ddl", "index", "analyze"} => task[w].of \in Tables
    BY EndReads
  <1>1. PICK x : x = task[w].of
    OBVIOUS
  <1>2. /\ indexes \in [Tables -> {"none", "todo", "scheduled", "created"}]
        /\ analyze \in [Tables -> {"todo", "scheduled", "finished"}]
        /\ checksum \in [Parts -> {"none", "todo", "scheduled", "verified"}]
    BY DEF TypeOK
  <1>3. /\ indexes' = CASE task[w].kind = "ddl" /\ x \in DeferredIdx ->
                             [indexes EXCEPT ![x] = "todo"]
                        [] task[w].kind = "index" -> [indexes EXCEPT ![x] = "created"]
                        [] OTHER -> indexes
        /\ analyze' = IF task[w].kind = "analyze"
                      THEN [analyze EXCEPT ![x] = "finished"] ELSE analyze
        /\ checksum' = IF task[w].kind = "checksum"
                       THEN [checksum EXCEPT ![x] = "verified"] ELSE checksum
        /\ UNCHANGED <<consumed, ddlTodo, inflight, interrupt, mpc>>
    BY <1>0, <1>1 DEF HandleEnd
  <1>4. WorkOf(w) = <<task[w].kind, x, task[w].index>>
    BY <1>1 DEF WorkOf
  <1>5. \A t \in Tables : indexes'[t] \in {"scheduled", "created"}
                            <=> indexes[t] \in {"scheduled", "created"}
    <2>1. CASE task[w].kind = "ddl" /\ x \in DeferredIdx
      <3>1. x \in Tables /\ indexes' = [indexes EXCEPT ![x] = "todo"]
        BY <1>0, <1>1, <1>3, <2>1
      <3>2. WorkOf(w) = <<"ddl", x, 0>>
        BY <1>0, <1>4, <2>1
      <3>3. indexes[x] = "none"
        BY <1>0, <3>1, <3>2 DEF IndexStage
      <3> QED BY <1>2, <3>1, <3>3
    <2>2. CASE task[w].kind = "index"
      <3>1. x \in Tables /\ indexes' = [indexes EXCEPT ![x] = "created"]
        BY <1>0, <1>1, <1>3, <2>2
      <3>2. indexes[x] \in {"scheduled", "created"}
        BY <1>0, <1>4, <2>2 DEF Issued
      <3> QED BY <1>2, <3>1, <3>2
    <2>3. CASE ~(task[w].kind = "ddl" /\ x \in DeferredIdx) /\ task[w].kind # "index"
      BY <1>3, <2>3
    <2> QED BY <2>1, <2>2, <2>3
  <1>6. \A t \in Tables : analyze'[t] # "todo" <=> analyze[t] # "todo"
    <2>1. CASE task[w].kind = "analyze"
      <3>1. x \in Tables /\ analyze' = [analyze EXCEPT ![x] = "finished"]
        BY <1>0, <1>1, <1>3, <2>1
      <3>2. analyze[x] # "todo"
        BY <1>0, <1>4, <2>1 DEF Issued
      <3> QED BY <1>2, <3>1, <3>2
    <2> QED BY <1>3, <2>1
  <1>7. \A p \in Parts : checksum'[p] \in {"scheduled", "verified"}
                           <=> checksum[p] \in {"scheduled", "verified"}
    <2>1. CASE task[w].kind = "checksum"
      <3>1. x \in Parts /\ checksum' = [checksum EXCEPT ![x] = "verified"]
        BY <1>0, <1>1, <1>3, <2>1
      <3>2. checksum[x] \in {"scheduled", "verified"}
        BY <1>0, <1>4, <2>1 DEF Issued
      <3> QED BY <1>2, <3>1, <3>2
    <2> QED BY <1>3, <2>1
  <1>8. IssuesNothing
    BY <1>3, <1>5, <1>6, <1>7 DEF IssuesNothing, Issued
  <1>9. Lasting /\ IssuedGrows /\ IssuesQueued
    BY <1>3, <1>8, NothingIssued DEF Lasting, Stopping
  <1>10. /\ Ledger'
         /\ \A y : Handled(y)' <=> Handled(y) \/ y = WorkOf(w)
         /\ \A y : Alive(y)' <=> Alive(y)
    BY <1>0, <1>9, ReportEffect DEF Account
  <1>11. ran' = ran
    BY <1>0 DEF Reports
  <1>12. NothingLost'
    BY <1>9, <1>10, <1>11, LostStep DEF Account
  <1>13. SerialOne'
    BY <1>3, <1>10, SerialKeep DEF Account
  <1>14. WorkHeads' /\ EndOnce'
    BY EndView DEF Account
  <1> QED BY <1>0, <1>10, <1>11, <1>12, <1>13, <1>14 DEF Account

\* A piece of work that was issued is queued.
LEMMA AccountPush ==
  ASSUME TypeOK, Account, ~Stopping,
         NEW kind \in Kinds, NEW of \in Tables \cup Parts, NEW index \in Nat,
         NEW w \in Nat \ {0}, Push(kind, of, index, w),
         Issues(<<kind, of, index>>), UNCHANGED <<queue, workerVars, interrupt>>,
         \/ kind # "chunk" /\ inflight' = inflight
         \/ /\ kind = "chunk" /\ of \in Parts /\ ~(inflight[of] > 0 /\ of \in Serial)
            /\ inflight' = [inflight EXCEPT ![of] = @ + 1]
  PROVE  /\ Account' /\ ran' = ran
         /\ \A y : Handled(y)' <=> Handled(y)
  <1>1. /\ WorkHeads' /\ EndOnce' /\ Ledger'
        /\ \A y : Handled(y)' <=> Handled(y)
        /\ \A y : Alive(y)' <=> Alive(y) \/ y = <<kind, of, index>>
    BY PushedView DEF Account
  <1>2. ran' = ran /\ Lasting
    BY DEF workerVars, Lasting
  <1>3. IssuesQueued
    BY <1>1 DEF Issues, IssuesQueued
  <1>4. NothingLost'
    BY <1>1, <1>2, <1>3, LostStep DEF Account
  <1>5. SerialOne'
    <2> SUFFICES ASSUME NEW p \in Serial
                 PROVE  /\ inflight'[p] >= 0
                        /\ \A i \in Nat : Alive(<<"chunk", p, i>>)' =>
                             /\ inflight'[p] > 0
                             /\ \A j \in Nat : Alive(<<"chunk", p, j>>)' => i = j
      BY DEF SerialOne
    <2>1. /\ inflight[p] >= 0 /\ p \in Parts /\ inflight \in [Parts -> Int]
          /\ \A i \in Nat : Alive(<<"chunk", p, i>>) =>
               /\ inflight[p] > 0
               /\ \A j \in Nat : Alive(<<"chunk", p, j>>) => i = j
      BY SchedulerAssumption DEF Account, SerialOne, TypeOK
    <2>2. CASE kind = "chunk" /\ of = p
      <3>1. inflight[p] = 0 /\ inflight'[p] = 1
        BY <2>1, <2>2
      <3>2. \A i \in Nat : Alive(<<"chunk", p, i>>)' => i = index
        BY <1>1, <2>1, <3>1
      <3> QED BY <3>1, <3>2
    <2>3. CASE ~(kind = "chunk" /\ of = p)
      <3>1. inflight'[p] = inflight[p]
        BY <2>1, <2>3
      <3>2. \A i \in Nat : Alive(<<"chunk", p, i>>)' => Alive(<<"chunk", p, i>>)
        BY <1>1, <2>3
      <3> QED BY <2>1, <3>1, <3>2
    <2> QED BY <2>2, <2>3
  <1> QED BY <1>1, <1>2, <1>4, <1>5 DEF Account

\* A part that is offered is not a serial one that is being loaded.
LEMMA Offered ==
  ASSUME NEW p \in Candidates
  PROVE  /\ p \in Parts /\ consumed[p] < available[p]
         /\ ~(inflight[p] > 0 /\ p \in Serial)
  BY DEF Candidates, tables_with_data

\* The calls of schedule_next().
LEMMA AccountSchedule ==
  ASSUME TypeOK, Account, AnalyzeStage,
         NextTableDdl \/ NextChunk \/ NextIndex \/ NextAnalyze \/ NextChecksum
  PROVE  /\ Account' /\ ran' = ran
         /\ \A x : Handled(x)' <=> Handled(x)
  <1> USE DEF restVars, dataVars, poolVars
  <1>0. /\ UNCHANGED <<queue, workerVars, interrupt>>
        /\ UNCHANGED <<queue, wpc, work, task, ran>>
        /\ ~Stopping
    BY DEF NextTableDdl, NextChunk, NextIndex, NextAnalyze, NextChecksum, Stopping,
           workerVars
  <1>1. ASSUME pending' = pending, IssuedGrows, IssuesQueued, inflight' = inflight
        PROVE  /\ Account' /\ ran' = ran
               /\ \A x : Handled(x)' <=> Handled(x)
    <2>1. WorkHeads' /\ EndOnce' /\ SameWork
      BY <1>0, <1>1, FrameView DEF SameWork, Account
    <2>2. Lasting
      BY <1>0 DEF Lasting
    <2> QED BY <1>1, <2>1, <2>2, AccountSame
  <1>2. CASE NextTableDdl
    <2>1. inflight' = inflight
      BY <1>2 DEF NextTableDdl
    <2>2. CASE IssuesNothing /\ pending' = pending
      BY <1>1, <2>1, <2>2, NothingIssued
    <2>3. ASSUME NEW t \in Tables, Push("ddl", t, 0, 1), Issues(<<"ddl", t, 0>>)
          PROVE  /\ Account' /\ ran' = ran
                 /\ \A x : Handled(x)' <=> Handled(x)
      <3>1. /\ "ddl" \in Kinds /\ "ddl" # "chunk" /\ t \in Tables \cup Parts
            /\ 0 \in Nat /\ 1 \in Nat \ {0}
        BY DEF Kinds
      <3> QED BY <1>0, <2>1, <2>3, <3>1, AccountPush
    <2> QED BY <1>2, <2>2, <2>3, IssueDdl
  <1>3. CASE NextChunk
    <2>1. PICK p \in Candidates :
            /\ consumed' = [consumed EXCEPT ![p] = @ + 1]
            /\ IF <<p, consumed[p]>> \in PrevLoaded
               THEN inflight' = inflight /\ pending' = pending
               ELSE /\ inflight' = [inflight EXCEPT ![p] = @ + 1]
                    /\ Push("chunk", p, consumed[p], 1)
      BY <1>3 DEF NextChunk
    <2>2. UNCHANGED <<ddlTodo, indexes, analyze, checksum>>
      BY <1>3 DEF NextChunk, stageVars
    <2>3. /\ p \in Parts /\ ~(inflight[p] > 0 /\ p \in Serial)
          /\ consumed[p] \in Nat
      BY Offered DEF TypeOK
    <2>4. CASE <<p, consumed[p]>> \in PrevLoaded
      <3>1. IssuesNothing /\ inflight' = inflight /\ pending' = pending
        BY <2>1, <2>2, <2>3, <2>4, IssueChunk
      <3> QED BY <1>1, <3>1, NothingIssued
    <2>5. CASE <<p, consumed[p]>> \notin PrevLoaded
      <3>1. Issues(<<"chunk", p, consumed[p]>>)
        BY <2>1, <2>2, <2>3, <2>5, IssueChunk
      <3>2. /\ inflight' = [inflight EXCEPT ![p] = @ + 1]
            /\ Push("chunk", p, consumed[p], 1)
        BY <2>1, <2>5
      <3>3. "chunk" \in Kinds /\ p \in Tables \cup Parts /\ 1 \in Nat \ {0}
        BY <2>3 DEF Kinds
      <3> QED BY <1>0, <2>3, <3>1, <3>2, <3>3, AccountPush
    <2> QED BY <2>4, <2>5
  <1>4. CASE NextIndex
    <2>1. UNCHANGED <<ddlTodo, consumed, analyze, checksum, inflight>>
      BY <1>4 DEF NextIndex
    <2>2. CASE indexes' = indexes /\ pending' = pending
      BY <1>1, <2>1, <2>2, IssuedSame, NothingIssued
    <2>3. ASSUME NEW t \in Tables, IndexDue(t),
                 indexes' = [indexes EXCEPT ![t] = "scheduled"],
                 Push("index", t, 0, IndexWeight[t])
          PROVE  /\ Account' /\ ran' = ran
                 /\ \A x : Handled(x)' <=> Handled(x)
      <3>1. Issues(<<"index", t, 0>>)
        BY <2>1, <2>3, IssueIndex DEF IndexDue
      <3>2. /\ "index" \in Kinds /\ "index" # "chunk" /\ t \in Tables \cup Parts
            /\ 0 \in Nat /\ IndexWeight[t] \in Nat \ {0}
        BY SchedulerAssumption DEF Kinds
      <3> QED BY <1>0, <2>1, <2>3, <3>1, <3>2, AccountPush
    <2> QED BY <1>4, <2>2, <2>3 DEF NextIndex
  <1>5. CASE NextAnalyze
    <2>1. UNCHANGED <<ddlTodo, consumed, indexes, checksum, inflight>>
      BY <1>5 DEF NextAnalyze
    <2>2. CASE analyze' = analyze /\ pending' = pending
      BY <1>1, <2>1, <2>2, IssuedSame, NothingIssued
    <2>3. ASSUME NEW t \in Tables, AnalyzeDue(t),
                 analyze' = [analyze EXCEPT ![t] = "scheduled"],
                 IF AnalyzeMode = "on" \/ t \in Histograms
                 THEN Push("analyze", t, 0, 1) ELSE pending' = pending
          PROVE  /\ Account' /\ ran' = ran
                 /\ \A x : Handled(x)' <=> Handled(x)
      <3>0. analyze[t] = "todo" /\ AnalyzeMode \in {"off", "on", "histogram"}
        BY <2>3, SchedulerAssumption DEF AnalyzeDue
      <3>1. /\ "analyze" \in Kinds /\ "analyze" # "chunk" /\ t \in Tables \cup Parts
            /\ 0 \in Nat /\ 1 \in Nat \ {0}
        BY DEF Kinds
      <3>2. AnalyzeMode # "off"
        BY <3>0 DEF AnalyzeStage
      <3>3. CASE AnalyzeMode = "on" \/ t \in Histograms
        <4>1. Issues(<<"analyze", t, 0>>)
          BY <2>1, <2>3, <3>0, <3>2, <3>3, IssueAnalyze
        <4> QED BY <1>0, <2>1, <2>3, <3>1, <3>3, <4>1, AccountPush
      <3>4. CASE ~(AnalyzeMode = "on" \/ t \in Histograms)
        BY <1>1, <2>1, <2>3, <3>0, <3>4, IssueAnalyze, NothingIssued
      <3> QED BY <3>3, <3>4
    <2> QED BY <1>5, <2>2, <2>3 DEF NextAnalyze
  <1>6. CASE NextChecksum
    <2>1. UNCHANGED <<ddlTodo, consumed, indexes, analyze, inflight>>
      BY <1>6 DEF NextChecksum
    <2>2. CASE checksum' = checksum /\ pending' = pending
      BY <1>1, <2>1, <2>2, IssuedSame, NothingIssued
    <2>3. ASSUME NEW p \in Parts, ChecksumDue(p), TableOf[p] \in NoTable,
                 checksum' = [checksum EXCEPT ![p] = "verified"],
                 pending' = pending
          PROVE  /\ Account' /\ ran' = ran
                 /\ \A x : Handled(x)' <=> Handled(x)
      <3>1. Issues(<<"checksum", p, 0>>)
        BY <2>1, <2>3, IssueChecksum DEF ChecksumDue
      <3>2. IssuedGrows /\ IssuesQueued
        BY <2>3, <3>1 DEF Issues, IssuesQueued
      <3> QED BY <1>1, <2>1, <2>3, <3>2
    <2>4. ASSUME NEW p \in Parts, ChecksumDue(p),
                 checksum' = [checksum EXCEPT ![p] = "scheduled"],
                 Push("checksum", p, 0, 1)
          PROVE  /\ Account' /\ ran' = ran
                 /\ \A x : Handled(x)' <=> Handled(x)
      <3>1. Issues(<<"checksum", p, 0>>)
        BY <2>1, <2>4, IssueChecksum DEF ChecksumDue
      <3>2. /\ "checksum" \in Kinds /\ "checksum" # "chunk"
            /\ p \in Tables \cup Parts /\ 0 \in Nat /\ 1 \in Nat \ {0}
        BY DEF Kinds
      <3> QED BY <1>0, <2>1, <2>4, <3>1, <3>2, AccountPush
    <2> QED BY <1>6, <2>2, <2>3, <2>4 DEF NextChecksum
  <1> QED BY <1>2, <1>3, <1>4, <1>5, <1>6

----------------------------------------------------------------------------
(* The stages of the tables.                                                *)

\* What was executed stays so.
LEMMA RanGrows ==
  ASSUME ran \subseteq ran'
  PROVE  /\ \A p, i : ChunkRan(p, i) => ChunkRan(p, i)'
         /\ \A t : DataRan(t) => DataRan(t)'
         /\ \A t : IndexesRan(t) => IndexesRan(t)'
         /\ \A t : Analyzed(t) => Analyzed(t)'
  BY DEF ChunkRan, DataRan, IndexesRan, Analyzed, PartsOf

\* There are n numbers below n.
LEMMA FirstNumbers ==
  ASSUME NEW n \in Nat
  PROVE  IsFiniteSet(0..(n - 1)) /\ Cardinality(0..(n - 1)) = n
  <1>1. ASSUME NEW m \in Int
        PROVE  /\ IsFiniteSet(0..m)
               /\ Cardinality(0..m) = IF 0 > m THEN 0 ELSE m - 0 + 1
    BY <1>1, FS_Interval
  <1>2. n - 1 \in Int
    OBVIOUS
  <1>3. PICK m \in Int : m = n - 1
    BY <1>2
  <1>4. (IF 0 > m THEN 0 ELSE m - 0 + 1) = n
    BY <1>3
  <1> QED BY <1>1, <1>3, <1>4

\* The chunks that count as loaded are some of those handed out.
LEMMA DoneFinite ==
  ASSUME TypeOK, NEW p \in Parts
  PROVE  /\ IsFiniteSet(DoneChunks(p)) /\ Cardinality(DoneChunks(p)) \in Nat
         /\ Cardinality(DoneChunks(p)) <= consumed[p]
         /\ Cardinality(DoneChunks(p)) = consumed[p] =>
              DoneChunks(p) = 0..(consumed[p] - 1)
  <1>1. consumed[p] \in Nat
    BY DEF TypeOK
  <1>2. /\ IsFiniteSet(0..(consumed[p] - 1))
        /\ Cardinality(0..(consumed[p] - 1)) = consumed[p]
    BY <1>1, FirstNumbers
  <1> DEFINE All == 0..(consumed[p] - 1)
  <1>3. DoneChunks(p) \in SUBSET All
    BY DEF DoneChunks
  <1>4. IsFiniteSet(All) /\ Cardinality(All) = consumed[p]
    BY <1>2
  <1> HIDE DEF All
  <1>5. /\ IsFiniteSet(DoneChunks(p)) /\ Cardinality(DoneChunks(p)) <= consumed[p]
        /\ Cardinality(DoneChunks(p)) = consumed[p] => DoneChunks(p) = All
    BY <1>3, <1>4, FS_Subset
  <1>6. Cardinality(DoneChunks(p)) \in Nat
    BY <1>5, FS_CardinalityType
  <1> QED BY <1>5, <1>6 DEF All

\* all_chunks_are(loaded) means that all of them were executed, by this load or
\* an earlier one.
LEMMA LoadedRan ==
  ASSUME TypeOK, ChunkCounts, NEW p \in Parts, AllChunksAre(p, loaded)
  PROVE  \A i \in 0..(NumChunks[p] - 1) : ChunkRan(p, i)
  <1>1. /\ loaded[p] = NumChunks[p] /\ consumed[p] <= NumChunks[p]
        /\ loaded[p] = Cardinality(DoneChunks(p)) /\ NumChunks[p] \in Nat
        /\ consumed[p] \in Nat
    BY SchedulerAssumption DEF AllChunksAre, ChunkCounts, TypeOK
  <1>2. DoneChunks(p) = 0..(consumed[p] - 1) /\ consumed[p] = NumChunks[p]
    BY <1>1, DoneFinite
  <1>3. \A i \in DoneChunks(p) : ChunkRan(p, i)
    BY DEF DoneChunks, Handled, ChunkRan
  <1> QED BY <1>2, <1>3

\* The same of a table.
LEMMA TableLoaded ==
  ASSUME TypeOK, ChunkCounts, NEW t \in Tables, all_data_loaded(t)
  PROVE  DataRan(t)
  BY LoadedRan DEF all_data_loaded, DataRan, PartsOf

\* The handlers and the workers only let Handled grow.
LEMMA PhaseKeep ==
  ASSUME DataPhase, \A x : Handled(x) => Handled(x)',
         phase' = "data" /\ (~interrupt' \/ Scheduling') =>
           phase = "data" /\ (~interrupt \/ Scheduling)
  PROVE  DataPhase'
  BY DEF DataPhase, DdlHandled

\* The stages other than the counters, when no table changes its stage.
LEMMA StageKeep ==
  ASSUME IndexStage, AnalyzeStage, ChecksumStage, ran \subseteq ran',
         \A x : Handled(x)' <=> Handled(x),
         UNCHANGED <<indexes, analyze, checksum>>
  PROVE  IndexStage' /\ AnalyzeStage' /\ ChecksumStage'
  <1>1. IndexStage'
    BY RanGrows DEF IndexStage
  <1>2. AnalyzeStage'
    BY RanGrows DEF AnalyzeStage
  <1>3. ChecksumStage'
    BY RanGrows DEF ChecksumStage
  <1> QED BY <1>1, <1>2, <1>3

\* The counters, when no chunk changes its state; more files may be seen.
LEMMA CountsKeep ==
  ASSUME TypeOK, TypeOK', ChunkCounts, ran \subseteq ran',
         \A x : Handled(x)' <=> Handled(x),
         UNCHANGED <<consumed, loaded>>,
         \A p \in Parts : /\ available'[p] \in {available[p], written'[p]}
                          /\ written'[p] >= written[p]
                          /\ written'[p] <= NumChunks[p]
  PROVE  ChunkCounts'
  <1> SUFFICES ASSUME NEW p \in Parts
               PROVE  /\ consumed'[p] <= available'[p] /\ available'[p] <= written'[p]
                      /\ written'[p] <= NumChunks[p]
                      /\ loaded'[p] = Cardinality(DoneChunks(p))'
                      /\ consumed'[p] > 0 => <<"ddl", TableOf[p], 0>> \in ran'
    BY DEF ChunkCounts
  <1>1. DoneChunks(p)' = DoneChunks(p)
    BY DEF DoneChunks
  <1>2. /\ consumed[p] \in Nat /\ available[p] \in Nat /\ written[p] \in Nat
        /\ available'[p] \in Nat /\ written'[p] \in Nat /\ NumChunks[p] \in Nat
    BY SchedulerAssumption DEF TypeOK
  <1>3. /\ consumed[p] <= available[p] /\ available[p] <= written[p]
        /\ loaded[p] = Cardinality(DoneChunks(p))
        /\ consumed[p] > 0 => <<"ddl", TableOf[p], 0>> \in ran
    BY DEF ChunkCounts
  <1> QED BY <1>1, <1>2, <1>3

\* The steps that leave the bookkeeping of the dump and its tables alone.
LEMMA StagesFrame ==
  ASSUME TypeOK, TypeOK', Stages, ran \subseteq ran',
         \A x : Handled(x)' <=> Handled(x),
         UNCHANGED <<written, available, consumed, loaded, indexes, analyze, checksum>>,
         phase' = "data" /\ (~interrupt' \/ Scheduling') =>
           phase = "data" /\ (~interrupt \/ Scheduling)
  PROVE  Stages'
  <1>1. ChunkCounts /\ IndexStage /\ AnalyzeStage /\ ChecksumStage /\ DataPhase
    BY DEF Stages
  <1>2. \A p \in Parts : /\ available'[p] \in {available[p], written'[p]}
                         /\ written'[p] >= written[p]
                         /\ written'[p] <= NumChunks[p]
    <2>1. \A p \in Parts : written[p] \in Nat
      BY DEF TypeOK
    <2>2. \A p \in Parts : written[p] <= NumChunks[p]
      BY <1>1 DEF ChunkCounts
    <2> QED BY <2>1, <2>2
  <1>3. ChunkCounts'
    BY <1>1, <1>2, CountsKeep
  <1>4. IndexStage' /\ AnalyzeStage' /\ ChecksumStage'
    BY <1>1, StageKeep
  <1>5. DataPhase'
    BY <1>1, PhaseKeep
  <1> QED BY <1>3, <1>4, <1>5 DEF Stages

\* The workers.
LEMMA StagesWorker ==
  ASSUME TypeOK, TypeOK', Handshake, Account, Stages,
         NEW w \in Workers, WorkerStep(w)
  PROVE  Stages'
  <1> USE DEF mainVars, readerVars, stageVars, dataVars, dumpVars
  <1>1. ran \subseteq ran' /\ \A x : Handled(x)' <=> Handled(x)
    BY AccountWorker
  <1>2. /\ UNCHANGED <<written, available, consumed, loaded, indexes, analyze,
                       checksum, phase, mpc>>
        /\ interrupt' = interrupt \/ interrupt' = TRUE
    BY DEF WorkerStep, WConnect, WReady, WPop, WExit, WStart, WRun, WEnd, WFail
  <1>3. interrupt => interrupt'
    BY <1>2, Zenon
  <1>4. Scheduling' <=> Scheduling
    BY <1>2 DEF Scheduling
  <1> QED BY <1>1, <1>2, <1>3, <1>4, StagesFrame

\* The handlers and the loop of the main thread, the dump that goes on, and what
\* stops the load.  (The end of handle_worker_events() is the next lemma.)
LEMMA StagesLoop ==
  ASSUME TypeOK, TypeOK', Handshake, Account, Stages,
         \/ HandleOther \/ HandleReady \/ HandleExit
         \/ NoChunk \/ AssignIdle \/ StartTasks \/ Scan \/ Check \/ StopWorkers
         \/ JoinWorkers \/ MainFail \/ FetchFail \/ Interrupt \/ DumpStep
         \/ UNCHANGED vars
  PROVE  Stages'
  <1> USE DEF mainVars, readerVars, stageVars, dataVars, dumpVars, restVars
  <1>1. ran \subseteq ran' /\ \A x : Handled(x)' <=> Handled(x)
    BY AccountLoop
  <1>2. UNCHANGED <<consumed, loaded, indexes, analyze, checksum, phase>>
    BY DEF HandleOther, HandleReady, HandleExit, NoChunk, AssignIdle, StartTasks,
           Scan, Check, StopWorkers, JoinWorkers, MainFail, FetchFail, Interrupt,
           DumpStep, FinishDump, WriteChunk, vars
  <1>3. \/ interrupt' = interrupt /\ (Scheduling' => Scheduling)
        \/ interrupt' = TRUE /\ (Scheduling' => Scheduling)
        \/ interrupt' = interrupt /\ ~interrupt
        \/ phase = "ddl"
    BY DEF HandleOther, HandleReady, HandleExit, NoChunk, AssignIdle, StartTasks,
           Scan, Check, StopWorkers, JoinWorkers, MainFail, FetchFail, Interrupt,
           DumpStep, FinishDump, WriteChunk, vars, Scheduling, Handling
  <1>4. phase' = "data" /\ (~interrupt' \/ Scheduling') =>
          phase = "data" /\ (~interrupt \/ Scheduling)
    <2>1. phase = "ddl" => phase' # "data"
      BY <1>2
    <2> QED BY <1>2, <1>3, <2>1, Zenon
  <1>5. CASE \/ HandleOther \/ HandleReady \/ HandleExit
             \/ AssignIdle \/ StartTasks \/ Check \/ StopWorkers
             \/ JoinWorkers \/ MainFail \/ FetchFail \/ Interrupt \/ FinishDump
             \/ UNCHANGED vars
    <2>1. UNCHANGED <<written, available>>
      BY <1>5 DEF HandleOther, HandleReady, HandleExit, AssignIdle, StartTasks,
           Check, StopWorkers, JoinWorkers, MainFail, FetchFail, Interrupt,
           FinishDump, vars
    <2> QED BY <1>1, <1>2, <1>4, <2>1, StagesFrame
  <1>6. CASE NoChunk \/ Scan \/ \E p \in Parts : WriteChunk(p)
    <2>0. \A p \in Parts : /\ written[p] \in Nat /\ NumChunks[p] \in Nat
                           /\ written[p] <= NumChunks[p]
      BY SchedulerAssumption DEF TypeOK, Stages, ChunkCounts
    <2>1. \A p \in Parts : /\ available'[p] \in {available[p], written'[p]}
                           /\ written'[p] >= written[p]
                           /\ written'[p] <= NumChunks[p]
      <3>1. CASE NoChunk \/ Scan
        <4>1. written' = written /\ available' \in {available, written}
          BY <3>1 DEF NoChunk, Scan, Rescan
        <4> QED BY <2>0, <4>1
      <3>2. ASSUME NEW q \in Parts, WriteChunk(q)
            PROVE  \A p \in Parts : /\ available'[p] \in {available[p], written'[p]}
                                    /\ written'[p] >= written[p]
                                    /\ written'[p] <= NumChunks[p]
        <4>1. /\ available' = available /\ written[q] < NumChunks[q]
              /\ written' = [written EXCEPT ![q] = @ + 1]
          BY <3>2 DEF WriteChunk
        <4>2. written \in [Parts -> Nat]
          BY DEF TypeOK
        <4>3. \A p \in Parts : written'[p] = IF p = q THEN written[q] + 1 ELSE written[p]
          BY <4>1, <4>2
        <4> QED BY <2>0, <4>1, <4>3
      <3> QED BY <1>6, <3>1, <3>2
    <2>2. ChunkCounts'
      BY <1>1, <1>2, <2>1, CountsKeep DEF Stages
    <2>3. IndexStage' /\ AnalyzeStage' /\ ChecksumStage'
      BY <1>1, <1>2, StageKeep DEF Stages
    <2>4. DataPhase'
      BY <1>1, <1>4, PhaseKeep DEF Stages
    <2> QED BY <2>2, <2>3, <2>4 DEF Stages
  <1> QED BY <1>5, <1>6 DEF DumpStep

\* A worker is handed a task.
LEMMA StagesAssign ==
  ASSUME TypeOK, TypeOK', TopPosition, Handshake, Account, Stages, AssignTask
  PROVE  Stages'
  <1> USE DEF readerVars, stageVars, dataVars, dumpVars
  <1>1. ran \subseteq ran' /\ \A x : Handled(x)' <=> Handled(x)
    BY AccountAssign
  <1>2. /\ UNCHANGED <<written, available, consumed, loaded, indexes, analyze,
                       checksum, phase, interrupt>>
        /\ mpc = "assign"
    BY DEF AssignTask
  <1>3. Scheduling
    BY <1>2 DEF Scheduling
  <1> QED BY <1>1, <1>2, <1>3, StagesFrame

\* As many idle workers as there are workers are all of them.
LEMMA IdleCovers ==
  ASSUME TypeOK, IdleDistinct, Len(idle) >= Cardinality(Workers), NEW w \in Workers
  PROVE  \E i \in 1..Len(idle) : idle[i] = w
  <1> SUFFICES ASSUME \A i \in 1..Len(idle) : idle[i] # w PROVE FALSE
    OBVIOUS
  <1> DEFINE T == Workers \ {w}
             l == Len(idle)
  <1>1. idle \in Seq(Workers) /\ l \in Nat
    BY DEF TypeOK
  <1>2. IsFiniteSet(T) /\ Cardinality(T) = Cardinality(Workers) - 1
    BY SchedulerAssumption, FS_RemoveElement
  <1>3. IsFiniteSet(1..l) /\ Cardinality(1..l) = l
    <2> HIDE DEF l
    <2>1. IsFiniteSet(1..l) /\ Cardinality(1..l) = IF 1 > l THEN 0 ELSE l - 1 + 1
      BY <1>1, FS_Interval
    <2> QED BY <1>1, <2>1
  <1>4. idle \in [1..l -> T]
    BY <1>1
  <1>5. Cardinality(Workers) \in Nat
    BY SchedulerAssumption, FS_CardinalityType
  <1>6. Cardinality(T) < Cardinality(1..l)
    BY <1>1, <1>2, <1>3, <1>5
  <1>7. \E x, y \in 1..l : x # y /\ idle[x] = idle[y]
    BY <1>2, <1>3, <1>4, <1>6, FS_PigeonHole
  <1> QED BY <1>7 DEF IdleDistinct

\* All the workers are idle and nothing is pending: what was issued was executed
\* and handled.
LEMMA AllHandled ==
  ASSUME TypeOK, Account, ~interrupt, ~Stopping, PendingEmpty,
         \A w \in Workers : Free(w),
         \A i \in 1..Len(queue) : queue[i].type # "END",
         NEW x \in Items, Issued(x),
         ~(x[1] = "checksum" /\ TableOf[x[2]] \in NoTable)
  PROVE  Handled(x)
  <1>1. \A w \in Workers : ~Owns(w) /\ ~Unrun(w)
    BY DEF Free, Owns, Unrun, Ended, HasEnd, EndAt
  <1>2. ~Queued(x)
    <2>1. \A a \in 1..threads_count : pending[a] = <<>>
      BY DEF PendingEmpty, TypeOK
    <2> QED BY <2>1 DEF Queued
  <1>3. ~Alive(x)
    BY <1>1, <1>2 DEF Alive
  <1>4. x \in ran
    BY <1>3 DEF Account, NothingLost
  <1> QED BY <1>1, <1>4 DEF Handled

\* When handle_worker_events() ends without an interrupt, all the workers are
\* free and nothing is left of what they did.
LEMMA AllIdle ==
  ASSUME TypeOK, Handshake, Present, mpc = "events",
         Len(idle) >= Cardinality(live), ~interrupt
  PROVE  /\ idle # <<>>
         /\ \A w \in Workers : \E i \in 1..Len(idle) : idle[i] = w
         /\ \A w \in Workers : Free(w)
         /\ \A i \in 1..Len(queue) : queue[i].type # "END"
         /\ queue = <<>>
  <1>1. ~Stopping /\ live = Workers
    BY DEF Stopping, Present
  <1>2. \A w \in Workers : \E i \in 1..Len(idle) : idle[i] = w
    BY <1>1, IdleCovers DEF Handshake
  <1>3. \A w \in Workers : Free(w) /\ Quiet(w)
    BY <1>1, <1>2 DEF Handshake, IdleFree
  <1>4. \A i \in 1..Len(queue) : FALSE
    BY <1>3, Members DEF Quiet
  <1>5. queue = <<>>
    BY <1>4 DEF TypeOK
  <1>6. idle # <<>>
    <2>1. \E w \in Workers : TRUE
      BY SchedulerAssumption, FS_EmptySet DEF threads_count
    <2> QED BY <1>2, <2>1
  <1> QED BY <1>2, <1>3, <1>4, <1>5, <1>6

\* The end of handle_worker_events(): after the table DDL, all the tables are in
\* place.
LEMMA StagesLeave ==
  ASSUME TypeOK, TypeOK', Handshake, Account, Stages, Idleness, LeaveEvents
  PROVE  Stages'
  <1> USE DEF readerVars, stageVars, dataVars, dumpVars
  <1>1. ran \subseteq ran' /\ \A x : Handled(x)' <=> Handled(x)
    BY AccountLoop
  <1>2. /\ UNCHANGED <<written, available, consumed, loaded, indexes, analyze,
                       checksum, interrupt>>
        /\ mpc = "events" /\ Len(idle) >= Cardinality(live)
        /\ mpc' \in {"scan", "check"} /\ phase' \in {phase, "data"}
    BY DEF LeaveEvents
  <1>3. ~Scheduling' /\ ~Stopping
    BY <1>2 DEF Scheduling, Stopping
  <1>4. CASE phase = "data" \/ interrupt
    <2>1. phase' = "data" /\ (~interrupt' \/ Scheduling') =>
            phase = "data" /\ (~interrupt \/ Scheduling)
      BY <1>2, <1>3, <1>4
    <2> QED BY <1>1, <1>2, <2>1, StagesFrame
  <1>5. CASE phase = "ddl" /\ ~interrupt
    <2>1. /\ idle # <<>>
          /\ \A w \in Workers : Free(w)
          /\ \A i \in 1..Len(queue) : queue[i].type # "END"
      BY <1>2, <1>5, AllIdle DEF Idleness
    <2>2. ddlTodo = {} /\ PendingEmpty
      BY <1>5, <2>1 DEF Idleness, IdleMeans
    <2>3. ASSUME NEW t \in Tables PROVE Handled(<<"ddl", t, 0>>)
      <3> DEFINE x == <<"ddl", t, 0>>
      <3>1. x \in Items /\ x[1] = "ddl" /\ x[2] = t /\ x[3] = 0
        BY Triple DEF Kinds
      <3> HIDE DEF x
      <3>2. Issued(x)
        BY <2>2, <3>1 DEF Issued
      <3>3. Handled(x)
        BY <1>3, <1>5, <2>1, <2>2, <3>1, <3>2, AllHandled
      <3> QED BY <3>3 DEF x
    <2>4. DataPhase'
      BY <1>1, <2>3 DEF DataPhase, DdlHandled
    <2>5. IndexStage' /\ AnalyzeStage' /\ ChecksumStage'
      BY <1>1, <1>2, StageKeep DEF Stages
    <2>6. \A p \in Parts : /\ written[p] \in Nat /\ written[p] <= NumChunks[p]
      BY DEF TypeOK, Stages, ChunkCounts
    <2>7. \A p \in Parts : /\ available'[p] \in {available[p], written'[p]}
                           /\ written'[p] >= written[p]
                           /\ written'[p] <= NumChunks[p]
      BY <1>2, <2>6
    <2>8. ChunkCounts'
      BY <1>1, <1>2, <2>7, CountsKeep DEF Stages
    <2> QED BY <2>4, <2>5, <2>8 DEF Stages
  <1> QED BY <1>4, <1>5 DEF TypeOK

\* The handler of the end of a task: the counters.
LEMMA CountsEnd ==
  ASSUME TypeOK, EventTaskMatch, Account, IndexStage, ChunkCounts, HandleEnd
  PROVE  ChunkCounts'
  <1> USE DEF dumpVars
  <1>0. PICK w \in Workers :
           /\ w = Head(queue).worker /\ Reports(w)
           /\ Head(queue).kind = task[w].kind
           /\ Issued(WorkOf(w)) /\ ~Handled(WorkOf(w)) /\ WorkOf(w) \in ran
           /\ task[w].kind # "chunk" => task[w].index = 0
           /\ task[w].kind \in {"chunk", "checksum"} => task[w].of \in Parts
           /\ task[w].kind \in {"ddl", "index", "analyze"} => task[w].of \in Tables
    BY EndReads
  <1>1. ran' = ran /\ \A x : Handled(x)' <=> Handled(x) \/ x = WorkOf(w)
    BY <1>0, AccountEnd
  <1>2. PICK q : q = task[w].of
    OBVIOUS
  <1>3. PICK n \in Nat : n = task[w].index
    BY DEF TypeOK, Tasks
  <1>4. /\ loaded' = IF task[w].kind = "chunk" THEN [loaded EXCEPT ![q] = @ + 1]
                     ELSE loaded
        /\ UNCHANGED <<written, available, consumed>>
    BY <1>0, <1>2 DEF HandleEnd
  <1>5. WorkOf(w) = <<task[w].kind, q, n>>
    BY <1>2, <1>3 DEF WorkOf
  <1> SUFFICES ASSUME NEW p \in Parts
               PROVE  loaded'[p] = Cardinality(DoneChunks(p)')
    BY <1>1, <1>4 DEF ChunkCounts
  <1>6. loaded[p] = Cardinality(DoneChunks(p)) /\ loaded \in [Parts -> Nat]
    BY DEF ChunkCounts, TypeOK
  <1>7. CASE task[w].kind = "chunk" /\ q = p
    <2>1. n \in 0..(consumed[p] - 1) /\ <<p, n>> \notin PrevLoaded
      <3>1. n < consumed[p] /\ <<p, n>> \notin PrevLoaded
        BY <1>0, <1>5, <1>7 DEF Issued
      <3>2. consumed[p] \in Nat
        BY DEF TypeOK
      <3> QED BY <3>1, <3>2
    <2>2. DoneChunks(p)' = DoneChunks(p) \cup {n}
      <3>1. \A i : Handled(<<"chunk", p, i>>)' <=> Handled(<<"chunk", p, i>>) \/ i = n
        BY <1>1, <1>5, <1>7
      <3> QED BY <1>4, <2>1, <3>1 DEF DoneChunks
    <2>3. n \notin DoneChunks(p)
      BY <1>0, <1>5, <1>7, <2>1 DEF DoneChunks
    <2>4. Cardinality(DoneChunks(p)') = Cardinality(DoneChunks(p)) + 1
      BY <2>2, <2>3, DoneFinite, FS_AddElement
    <2>5. loaded'[p] = loaded[p] + 1
      BY <1>4, <1>6, <1>7
    <2> QED BY <1>6, <2>4, <2>5
  <1>8. CASE ~(task[w].kind = "chunk" /\ q = p)
    <2>1. \A i : Handled(<<"chunk", p, i>>)' <=> Handled(<<"chunk", p, i>>)
      BY <1>1, <1>5, <1>8
    <2>2. DoneChunks(p)' = DoneChunks(p)
      BY <1>4, <2>1 DEF DoneChunks
    <2>3. loaded'[p] = loaded[p]
      BY <1>4, <1>6, <1>8
    <2> QED BY <1>6, <2>2, <2>3
  <1> QED BY <1>7, <1>8

\* The handler of the end of a task: the stages.
LEMMA StagesEnd ==
  ASSUME TypeOK, EventTaskMatch, Account, Stages, HandleEnd
  PROVE  Stages'
  <1>0. PICK w \in Workers :
           /\ w = Head(queue).worker /\ Reports(w)
           /\ Head(queue).kind = task[w].kind
           /\ Issued(WorkOf(w)) /\ ~Handled(WorkOf(w)) /\ WorkOf(w) \in ran
           /\ task[w].kind # "chunk" => task[w].index = 0
           /\ task[w].kind \in {"chunk", "checksum"} => task[w].of \in Parts
           /\ task[w].kind \in {"ddl", "index", "analyze"} => task[w].of \in Tables
    BY EndReads
  <1>1. ran' = ran /\ \A x : Handled(x)' <=> Handled(x) \/ x = WorkOf(w)
    BY <1>0, AccountEnd DEF Stages
  <1>2. ChunkCounts'
    BY CountsEnd DEF Stages
  <1>3. PICK x : x = task[w].of
    OBVIOUS
  <1>4. /\ indexes \in [Tables -> {"none", "todo", "scheduled", "created"}]
        /\ analyze \in [Tables -> {"todo", "scheduled", "finished"}]
        /\ checksum \in [Parts -> {"none", "todo", "scheduled", "verified"}]
    BY DEF TypeOK
  <1>5. /\ indexes' = CASE task[w].kind = "ddl" /\ x \in DeferredIdx ->
                             [indexes EXCEPT ![x] = "todo"]
                        [] task[w].kind = "index" -> [indexes EXCEPT ![x] = "created"]
                        [] OTHER -> indexes
        /\ analyze' = IF task[w].kind = "analyze"
                      THEN [analyze EXCEPT ![x] = "finished"] ELSE analyze
        /\ checksum' = IF task[w].kind = "checksum"
                       THEN [checksum EXCEPT ![x] = "verified"] ELSE checksum
        /\ UNCHANGED <<phase, interrupt, mpc>>
    BY <1>0, <1>3 DEF HandleEnd
  <1>6. WorkOf(w) = <<task[w].kind, x, task[w].index>>
    BY <1>3 DEF WorkOf
  <1>7. /\ \A t : DataRan(t)' <=> DataRan(t)
        /\ \A t : IndexesRan(t)' <=> IndexesRan(t)
        /\ \A t : Analyzed(t)' <=> Analyzed(t)
        /\ \A p, i : ChunkRan(p, i)' <=> ChunkRan(p, i)
    BY <1>1 DEF ChunkRan, DataRan, IndexesRan, Analyzed, PartsOf
  <1>8. IndexStage'
    <2> SUFFICES ASSUME NEW t \in Tables
                 PROVE  /\ indexes'[t] # "none" =>
                             t \in DeferredIdx /\ Handled(<<"ddl", t, 0>>)'
                        /\ t \in DeferredIdx /\ Handled(<<"ddl", t, 0>>)' =>
                             indexes'[t] # "none"
                        /\ indexes'[t] \in {"scheduled", "created"} => DataRan(t)
                        /\ indexes'[t] = "created" => <<"index", t, 0>> \in ran
      BY <1>1, <1>7 DEF IndexStage
    <2>1. /\ indexes[t] # "none" => t \in DeferredIdx /\ Handled(<<"ddl", t, 0>>)
          /\ t \in DeferredIdx /\ Handled(<<"ddl", t, 0>>) => indexes[t] # "none"
          /\ indexes[t] \in {"scheduled", "created"} => DataRan(t)
          /\ indexes[t] = "created" => <<"index", t, 0>> \in ran
      BY DEF Stages, IndexStage
    <2>2. CASE task[w].kind = "ddl"
      <3>1. WorkOf(w) = <<"ddl", x, 0>>
        BY <1>0, <1>6, <2>2
      <3>2. Handled(<<"ddl", t, 0>>)' <=> Handled(<<"ddl", t, 0>>) \/ t = x
        BY <1>1, <3>1
      <3>3. indexes'[t] = IF t = x /\ x \in DeferredIdx THEN "todo" ELSE indexes[t]
        BY <1>4, <1>5, <2>2
      <3> QED BY <2>1, <3>2, <3>3
    <2>3. CASE task[w].kind = "index"
      <3>1. WorkOf(w) = <<"index", x, 0>>
        BY <1>0, <1>6, <2>3
      <3>2. Handled(<<"ddl", t, 0>>)' <=> Handled(<<"ddl", t, 0>>)
        BY <1>1, <3>1
      <3>3. indexes'[t] = IF t = x THEN "created" ELSE indexes[t]
        BY <1>4, <1>5, <2>3
      <3>4. t = x => indexes[t] \in {"scheduled", "created"}
        BY <1>0, <3>1 DEF Issued
      <3> QED BY <1>0, <2>1, <3>1, <3>2, <3>3, <3>4
    <2>4. CASE task[w].kind \notin {"ddl", "index"}
      <3>1. Handled(<<"ddl", t, 0>>)' <=> Handled(<<"ddl", t, 0>>)
        BY <1>1, <1>6, <2>4
      <3>2. indexes' = indexes
        BY <1>5, <2>4
      <3> QED BY <2>1, <3>1, <3>2
    <2> QED BY <2>2, <2>3, <2>4
  <1>9. AnalyzeStage'
    <2>1. CASE task[w].kind = "analyze"
      <3>1. WorkOf(w) = <<"analyze", x, 0>>
        BY <1>0, <1>6, <2>1
      <3>2. analyze[x] # "todo" /\ AnalyzeMode # "off"
        BY <1>0, <3>1 DEF Issued
      <3>3. \A t \in Tables : analyze'[t] = IF t = x THEN "finished" ELSE analyze[t]
        BY <1>4, <1>5, <2>1
      <3> QED BY <1>0, <1>1, <1>7, <3>1, <3>2, <3>3 DEF Stages, AnalyzeStage
    <2>2. CASE task[w].kind # "analyze"
      BY <1>1, <1>5, <1>7, <2>2 DEF Stages, AnalyzeStage
    <2> QED BY <2>1, <2>2
  <1>10. ChecksumStage'
    <2>1. CASE task[w].kind = "checksum"
      <3>1. WorkOf(w) = <<"checksum", x, 0>>
        BY <1>0, <1>6, <2>1
      <3>2. checksum[x] \in {"scheduled", "verified"}
        BY <1>0, <3>1 DEF Issued
      <3>3. \A p \in Parts : checksum'[p] = IF p = x THEN "verified" ELSE checksum[p]
        BY <1>4, <1>5, <2>1
      <3> QED BY <1>7, <3>2, <3>3 DEF Stages, ChecksumStage
    <2>2. CASE task[w].kind # "checksum"
      BY <1>5, <1>7, <2>2 DEF Stages, ChecksumStage
    <2> QED BY <2>1, <2>2
  <1>11. DataPhase'
    <2>1. Scheduling' <=> Scheduling
      BY <1>5 DEF Scheduling
    <2> QED BY <1>1, <1>5, <2>1, PhaseKeep DEF Stages
  <1> QED BY <1>2, <1>8, <1>9, <1>10, <1>11 DEF Stages

\* A chunk is handed out, or passed over because an earlier run loaded it.
LEMMA CountsChunk ==
  ASSUME TypeOK, Account, Stages, IdleHere, NextChunk
  PROVE  ChunkCounts'
  <1> USE DEF restVars, dumpVars, stageVars
  <1>0. PICK p \in Candidates :
          /\ consumed' = [consumed EXCEPT ![p] = @ + 1]
          /\ loaded' = IF <<p, consumed[p]>> \in PrevLoaded
                       THEN [loaded EXCEPT ![p] = @ + 1] ELSE loaded
    BY DEF NextChunk
  <1>1. /\ UNCHANGED <<written, available, ddlTodo, indexes, analyze, checksum>>
        /\ mpc = "schedule" /\ phase = "data"
    BY DEF NextChunk
  <1>2. ran' = ran /\ \A x : Handled(x)' <=> Handled(x)
    BY AccountSchedule DEF Stages
  <1>3. p \in Parts /\ consumed[p] < available[p]
    BY Offered
  <1>4. PICK n \in Nat : n = consumed[p]
    BY <1>3 DEF TypeOK
  <1>5. /\ consumed \in [Parts -> Nat] /\ loaded \in [Parts -> Nat]
        /\ available[p] \in Nat
    BY <1>3 DEF TypeOK
  <1>6. /\ consumed'[p] = n + 1
        /\ \A q \in Parts : q # p => consumed'[q] = consumed[q]
    BY <1>0, <1>3, <1>4, <1>5
  <1>7. \A t \in Tables : <<"ddl", t, 0>> \in ran
    <2>1. Scheduling
      BY <1>1 DEF Scheduling
    <2> QED BY <1>1, <2>1 DEF Stages, DataPhase, DdlHandled, Handled
  <1>8. ASSUME NEW q \in Parts, q # p
        PROVE  DoneChunks(q)' = DoneChunks(q) /\ loaded'[q] = loaded[q]
    BY <1>0, <1>2, <1>5, <1>6, <1>8 DEF DoneChunks
  <1>9. loaded[p] = Cardinality(DoneChunks(p))
    BY <1>3 DEF Stages, ChunkCounts
  <1>10. \A i \in 0..((n + 1) - 1) : i \in 0..(n - 1) \/ i = n
    OBVIOUS
  <1>11. n \in 0..((n + 1) - 1) /\ 0..(n - 1) \subseteq 0..((n + 1) - 1)
         /\ n \notin 0..(n - 1)
    OBVIOUS
  <1>12. loaded'[p] = Cardinality(DoneChunks(p)')
    <2>1. CASE <<p, n>> \in PrevLoaded
      <3>1. DoneChunks(p)' = DoneChunks(p) \cup {n}
        BY <1>2, <1>4, <1>6, <1>10, <1>11, <2>1 DEF DoneChunks
      <3>2. n \notin DoneChunks(p)
        BY <1>4, <1>11 DEF DoneChunks
      <3>3. Cardinality(DoneChunks(p)') = Cardinality(DoneChunks(p)) + 1
        BY <1>3, <3>1, <3>2, DoneFinite, FS_AddElement
      <3>4. loaded'[p] = loaded[p] + 1
        BY <1>0, <1>3, <1>4, <1>5, <2>1
      <3> QED BY <1>9, <3>3, <3>4
    <2>2. CASE <<p, n>> \notin PrevLoaded
      <3>1. Issues(<<"chunk", p, n>>)
        BY <1>0, <1>1, <1>3, <1>4, <2>2, IssueChunk
      <3>2. ~Handled(<<"chunk", p, n>>)
        BY <3>1 DEF Issues, Handled, Account, Ledger, RanIssued
      <3>3. DoneChunks(p)' = DoneChunks(p)
        BY <1>2, <1>4, <1>6, <1>10, <1>11, <2>2, <3>2 DEF DoneChunks
      <3>4. loaded'[p] = loaded[p]
        BY <1>0, <1>4, <2>2
      <3> QED BY <1>9, <3>3, <3>4
    <2> QED BY <2>1, <2>2
  <1> SUFFICES ASSUME NEW q \in Parts
               PROVE  /\ consumed'[q] <= available[q] /\ available[q] <= written[q]
                      /\ written[q] <= NumChunks[q]
                      /\ loaded'[q] = Cardinality(DoneChunks(q)')
                      /\ <<"ddl", TableOf[q], 0>> \in ran
    BY <1>1, <1>2 DEF ChunkCounts
  <1>13. /\ consumed[q] <= available[q] /\ available[q] <= written[q]
         /\ written[q] <= NumChunks[q]
         /\ loaded[q] = Cardinality(DoneChunks(q))
    BY DEF Stages, ChunkCounts
  <1>14. <<"ddl", TableOf[q], 0>> \in ran
    BY <1>7, SchedulerAssumption
  <1>15. CASE q = p
    BY <1>3, <1>4, <1>5, <1>6, <1>12, <1>13, <1>14, <1>15
  <1>16. CASE q # p
    BY <1>6, <1>8, <1>13, <1>14, <1>16
  <1> QED BY <1>15, <1>16

\* The indexes of a table are in place when there is nothing left to create.
LEMMA IndexesPlaced ==
  ASSUME Stages, phase = "data", Scheduling, NEW t \in Tables, indexes_created(t)
  PROVE  IndexesRan(t)
  BY DEF Stages, DataPhase, DdlHandled, IndexStage, indexes_created, IndexesRan

\* The calls of schedule_next().
LEMMA StagesSchedule ==
  ASSUME TypeOK, TypeOK', Account, Stages, IdleHere,
         NextTableDdl \/ NextChunk \/ NextIndex \/ NextAnalyze \/ NextChecksum
  PROVE  Stages'
  <1> USE DEF restVars, dataVars, dumpVars
  <1>0. /\ UNCHANGED <<written, available, phase, interrupt>>
        /\ mpc \in {"schedule", "indexes", "analyze", "checksum"}
    BY DEF NextTableDdl, NextChunk, NextIndex, NextAnalyze, NextChecksum
  <1>1. Scheduling
    BY <1>0 DEF Scheduling
  <1>2. ran' = ran /\ ran \subseteq ran' /\ \A x : Handled(x)' <=> Handled(x)
    BY AccountSchedule DEF Stages
  <1>3. DataPhase'
    BY <1>0, <1>1, <1>2, PhaseKeep DEF Stages
  <1>4. ChunkCounts /\ IndexStage /\ AnalyzeStage /\ ChecksumStage
    BY DEF Stages
  <1>5. CASE NextTableDdl
    <2>1. UNCHANGED <<consumed, loaded, indexes, analyze, checksum>>
      BY <1>5 DEF NextTableDdl
    <2> QED BY <1>0, <1>1, <1>2, <2>1, StagesFrame
  <1>6. CASE NextChunk
    <2>1. UNCHANGED <<indexes, analyze, checksum>>
      BY <1>6 DEF NextChunk, stageVars
    <2>2. IndexStage' /\ AnalyzeStage' /\ ChecksumStage'
      BY <1>2, <1>4, <2>1, StageKeep
    <2>3. ChunkCounts'
      BY <1>6, CountsChunk
    <2> QED BY <1>3, <2>2, <2>3 DEF Stages
  <1>7. /\ \A t : DataRan(t)' <=> DataRan(t)
        /\ \A t : IndexesRan(t)' <=> IndexesRan(t)
        /\ \A t : Analyzed(t)' <=> Analyzed(t)
        /\ \A p, i : ChunkRan(p, i)' <=> ChunkRan(p, i)
    BY <1>2 DEF ChunkRan, DataRan, IndexesRan, Analyzed, PartsOf
  <1>8. ASSUME NextIndex \/ NextAnalyze \/ NextChecksum
        PROVE  ChunkCounts' /\ phase = "data"
    <2>1. UNCHANGED <<consumed, loaded>> /\ mpc \in {"indexes", "analyze", "checksum"}
      BY <1>8 DEF NextIndex, NextAnalyze, NextChecksum
    <2>2. \A p \in Parts : written[p] \in Nat /\ written[p] <= NumChunks[p]
      BY <1>4 DEF TypeOK, ChunkCounts
    <2>3. \A p \in Parts : /\ available'[p] \in {available[p], written'[p]}
                           /\ written'[p] >= written[p]
                           /\ written'[p] <= NumChunks[p]
      BY <1>0, <2>2
    <2> QED BY <1>2, <1>4, <2>1, <2>3, CountsKeep DEF IdleHere
  <1>9. CASE NextIndex
    <2>1. /\ UNCHANGED <<analyze, checksum>>
          /\ \/ indexes' = indexes
             \/ \E t \in Tables : /\ IndexDue(t)
                                  /\ indexes' = [indexes EXCEPT ![t] = "scheduled"]
      BY <1>9 DEF NextIndex
    <2>2. AnalyzeStage' /\ ChecksumStage'
      BY <1>2, <1>4, <1>7, <2>1 DEF AnalyzeStage, ChecksumStage
    <2>3. ASSUME indexes' = indexes PROVE IndexStage'
      BY <1>2, <1>4, <1>7, <2>3 DEF IndexStage
    <2>4. ASSUME NEW t \in Tables, IndexDue(t),
                 indexes' = [indexes EXCEPT ![t] = "scheduled"]
          PROVE  IndexStage'
      <3>1. DataRan(t) /\ indexes[t] = "todo"
        BY <1>4, <2>4, TableLoaded DEF IndexDue
      <3>2. \A u \in Tables : indexes'[u] = IF u = t THEN "scheduled" ELSE indexes[u]
        BY <2>4 DEF TypeOK
      <3> QED BY <1>2, <1>4, <1>7, <3>1, <3>2 DEF IndexStage
    <2> QED BY <1>3, <1>8, <1>9, <2>1, <2>2, <2>3, <2>4 DEF Stages
  <1>10. CASE NextAnalyze
    <2>1. /\ UNCHANGED <<indexes, checksum>>
          /\ \/ analyze' = analyze
             \/ \E t \in Tables : /\ AnalyzeDue(t)
                                  /\ analyze' = [analyze EXCEPT ![t] = "scheduled"]
      BY <1>10 DEF NextAnalyze
    <2>2. IndexStage' /\ ChecksumStage'
      BY <1>2, <1>4, <1>7, <2>1 DEF IndexStage, ChecksumStage
    <2>3. ASSUME analyze' = analyze PROVE AnalyzeStage'
      BY <1>2, <1>4, <1>7, <2>3 DEF AnalyzeStage
    <2>4. ASSUME NEW t \in Tables, AnalyzeDue(t),
                 analyze' = [analyze EXCEPT ![t] = "scheduled"]
          PROVE  AnalyzeStage'
      <3>1. DataRan(t) /\ indexes_created(t) /\ analyze[t] = "todo"
        BY <1>4, <2>4, TableLoaded DEF AnalyzeDue
      <3>2. IndexesRan(t)
        BY <1>1, <1>8, <1>10, <3>1, IndexesPlaced
      <3>3. \A u \in Tables : analyze'[u] = IF u = t THEN "scheduled" ELSE analyze[u]
        BY <2>4 DEF TypeOK
      <3> QED BY <1>2, <1>4, <1>7, <3>1, <3>2, <3>3 DEF AnalyzeStage
    <2> QED BY <1>3, <1>8, <1>10, <2>1, <2>2, <2>3, <2>4 DEF Stages
  <1>11. CASE NextChecksum
    <2>1. /\ UNCHANGED <<indexes, analyze>>
          /\ \/ checksum' = checksum
             \/ \E p \in Parts : /\ ChecksumDue(p)
                                 /\ \E to \in {"verified", "scheduled"} :
                                      checksum' = [checksum EXCEPT ![p] = to]
      BY <1>11 DEF NextChecksum
    <2>2. IndexStage' /\ AnalyzeStage'
      BY <1>2, <1>4, <1>7, <2>1 DEF IndexStage, AnalyzeStage
    <2>3. ASSUME checksum' = checksum PROVE ChecksumStage'
      BY <1>2, <1>4, <1>7, <2>3 DEF ChecksumStage
    <2>4. ASSUME NEW p \in Parts, ChecksumDue(p), NEW to \in {"verified", "scheduled"},
                 checksum' = [checksum EXCEPT ![p] = to]
          PROVE  ChecksumStage'
      <3>1. /\ AllChunksAre(p, loaded) /\ indexes_created(TableOf[p])
            /\ analyze[TableOf[p]] = "finished" /\ TableOf[p] \in Tables
        BY <2>4, SchedulerAssumption DEF ChecksumDue
      <3>2. \A i \in 0..(NumChunks[p] - 1) : ChunkRan(p, i)
        BY <1>4, <3>1, LoadedRan
      <3>3. IndexesRan(TableOf[p])
        BY <1>1, <1>8, <1>11, <3>1, IndexesPlaced
      <3>4. Analyzed(TableOf[p])
        BY <1>4, <3>1 DEF AnalyzeStage, Analyzed
      <3>5. \A q \in Parts : checksum'[q] = IF q = p THEN to ELSE checksum[q]
        BY <2>4 DEF TypeOK
      <3> QED BY <1>4, <1>7, <3>2, <3>3, <3>4, <3>5 DEF ChecksumStage
    <2> QED BY <1>3, <1>8, <1>11, <2>1, <2>2, <2>3, <2>4 DEF Stages
  <1> QED BY <1>5, <1>6, <1>9, <1>10, <1>11

----------------------------------------------------------------------------
(* The weights.                                                             *)

\* The account of the weights, before and after a step.
LEMMA AccountingIs ==
  /\ WeightAccounting <=> weight = WeightSum(task) /\ weight \in 0..threads_count
  /\ WeightAccounting' <=> weight' = WeightSum(task') /\ weight' \in 0..threads_count
  <1>1. WeightAccounting <=> /\ weight = (CHOOSE g : IsSum(g, task))[Workers]
                             /\ weight \in 0..threads_count
    BY DEF WeightAccounting, MapThenSumSet, MapThenFoldSet, IsSum, SumStep, Taker
  <1>2. WeightAccounting' <=> /\ weight' = (CHOOSE g : IsSum(g, task'))[Workers]
                              /\ weight' \in 0..threads_count
    BY DEF WeightAccounting, MapThenSumSet, MapThenFoldSet, IsSum, SumStep, Taker
  <1>3. /\ WeightSum(task) = (CHOOSE g : IsSum(g, task))[Workers]
        /\ WeightSum(task') = (CHOOSE g : IsSum(g, task'))[Workers]
    BY SumIs
  <1> QED BY <1>1, <1>2, <1>3

\* The tasks, pending and held, stay the same.
LEMMA WeightsFrame ==
  ASSUME Weights, UNCHANGED <<task, weight, pending, top>>,
         phase' \in {phase, "data"}, Scheduling' => Scheduling /\ cur' = cur,
         \A i \in 1..Len(idle') : task[idle'[i]].weight = 0
  PROVE  Weights'
  <1>1. WeightAccounting'
    BY AccountingIs DEF Weights
  <1>2. phase' = "ddl" => phase = "ddl"
    OBVIOUS
  <1> QED BY <1>1, <1>2 DEF Weights

\* The first task of the queue weighs as much as its position.
LEMMA TopWeight ==
  ASSUME TypeOK, TopPosition, Weights, ~PendingEmpty
  PROVE  TopTask \in Tasks /\ TopTask.weight = top
  <1>1. pending[top] # <<>> /\ top \in 1..threads_count
    BY TopMeaning DEF TypeOK, TopIsHeaviest
  <1>2. pending[top] \in Seq(Tasks)
    BY <1>1 DEF TypeOK
  <1>3. TopTask = pending[top][1] /\ 1 \in 1..Len(pending[top])
    BY <1>1, <1>2 DEF TopTask
  <1>4. TopTask \in Tasks
    BY <1>1, <1>2 DEF TopTask
  <1> QED BY <1>1, <1>3, <1>4 DEF Weights

\* A task is queued.
LEMMA WeightsPush ==
  ASSUME TypeOK, Weights,
         NEW kind, NEW of, NEW index, NEW w \in Nat \ {0},
         Push(kind, of, index, w), phase = "ddl" => w = 1,
         UNCHANGED <<task, phase, cur, idle>>, Scheduling
  PROVE  Weights'
  <1> DEFINE t == Task(kind, of, index, Cut(w))
  <1>1. Cut(w) \in 1..threads_count /\ t.weight = Cut(w)
    BY CutType DEF Task
  <1>2. /\ pending' = [pending EXCEPT ![t.weight] = Append(@, t)]
        /\ top' = Max({top, t.weight}) /\ weight' = weight
    BY DEF Push, Emplace
  <1>3. PICK b \in 1..threads_count : b = t.weight
    BY <1>1
  <1> HIDE DEF t
  <1>4. pending \in [1..threads_count -> Seq(Tasks)] /\ top \in Int
    BY PoolSize DEF TypeOK
  <1>5. \A a \in 1..threads_count : \A i \in 1..Len(pending'[a]) :
          pending'[a][i].weight = a
    <2> SUFFICES ASSUME NEW a \in 1..threads_count, NEW i \in 1..Len(pending'[a])
                 PROVE  pending'[a][i].weight = a
      OBVIOUS
    <2>1. CASE a = b
      <3>1. pending'[a] = Append(pending[a], t) /\ pending[a] \in Seq(Tasks)
        BY <1>2, <1>3, <1>4, <2>1
      <3>2. \/ i \in 1..Len(pending[a]) /\ pending'[a][i] = pending[a][i]
            \/ pending'[a][i] = t
        BY <3>1
      <3> QED BY <1>3, <2>1, <3>2 DEF Weights
    <2>2. CASE a # b
      <3>1. pending'[a] = pending[a]
        BY <1>2, <1>3, <1>4, <2>2
      <3> QED BY <3>1 DEF Weights
    <2> QED BY <2>1, <2>2
  <1>6. phase' = "ddl" => top' = 1
    <2>1. ASSUME phase = "ddl" PROVE top' = 1
      <3>1. top = 1 /\ w = 1
        BY <2>1 DEF Weights
      <3>2. Cut(w) = 1
        BY <1>1, <3>1, MinOfTwo, PoolSize DEF Cut
      <3>3. top' = Max({1, 1})
        BY <1>1, <1>2, <3>1, <3>2
      <3> QED BY <3>3, MaxOfTwo
    <2> QED BY <2>1
  <1>7. WeightAccounting'
    BY <1>2, AccountingIs DEF Weights
  <1> QED BY <1>5, <1>6, <1>7 DEF Weights

\* A READY event: the task of the worker weighs nothing any more.
LEMMA WeightsReady ==
  ASSUME TypeOK, TypeOK', Weights, HandleReady
  PROVE  Weights'
  <1>0. /\ queue # <<>> /\ queue' = Tail(queue)
        /\ mpc = "events"
    BY DEF HandleReady, Handling
  <1>1. PICK w \in Workers : w = Head(queue).worker
    BY <1>0, Taken, Members
  <1>2. /\ weight' = weight - task[w].weight
        /\ task' = [task EXCEPT ![w].weight = 0]
        /\ UNCHANGED <<pending, top, phase>>
    BY <1>1 DEF HandleReady
  <1>3. task \in [Workers -> Tasks] /\ task' \in [Workers -> Tasks]
    BY DEF TypeOK
  <1>4. /\ task'[w].weight = 0
        /\ \A v \in Workers : v # w => task'[v] = task[v]
    BY <1>2, <1>3 DEF Tasks
  <1>5. WeightSum(task') = WeightSum(task) - task[w].weight + 0
    <2>1. WeightSum(task') = WeightSum(task) - task[w].weight + task'[w].weight
      BY <1>3, <1>4, SumUpdate
    <2> QED BY <1>4, <2>1
  <1>6. weight = WeightSum(task) /\ weight \in 0..threads_count
    BY AccountingIs DEF Weights
  <1>7. task[w].weight \in Nat /\ WeightSum(task') \in Nat
    BY <1>3, SumBounds, PoolSize DEF Tasks
  <1>8. weight' = WeightSum(task') /\ weight' \in 0..threads_count
    BY <1>2, <1>5, <1>6, <1>7, PoolSize
  <1>9. WeightAccounting'
    BY <1>8, AccountingIs
  <1>10. idle \in Seq(Workers)
    BY DEF TypeOK
  <1>11. \A v \in Workers : task[v].weight = 0 => task'[v].weight = 0
    BY <1>4
  <1>12. /\ Scheduling' => task'[cur'].weight = 0
         /\ \A i \in 1..Len(idle') : task'[idle'[i]].weight = 0
    <2>1. CASE interrupt
      <3>1. idle' = Append(idle, w) /\ mpc' = mpc
        BY <1>1, <2>1 DEF HandleReady
      <3>2. ~Scheduling'
        BY <1>0, <3>1 DEF Scheduling
      <3>3. \A i \in 1..Len(idle') :
              (i \in 1..Len(idle) /\ idle'[i] = idle[i] /\ idle[i] \in Workers)
              \/ idle'[i] = w
        BY <1>10, <3>1
      <3> QED BY <1>4, <1>11, <3>2, <3>3 DEF Weights
    <2>2. CASE ~interrupt
      <3>1. idle' = idle /\ cur' = w
        BY <1>1, <2>2 DEF HandleReady
      <3>2. \A i \in 1..Len(idle) : idle[i] \in Workers
        BY Members
      <3> QED BY <1>4, <1>11, <3>1, <3>2 DEF Weights
    <2> QED BY <2>1, <2>2
  <1>13. phase' = "ddl" => top' = 1 /\ \A v \in Workers : task'[v].weight <= 1
    BY <1>2, <1>4 DEF Weights
  <1> QED BY <1>2, <1>9, <1>12, <1>13 DEF Weights

\* The worker takes the heaviest task.
LEMMA WeightsAssign ==
  ASSUME TypeOK, TypeOK', TopPosition, Handshake, Weights, AssignTask
  PROVE  Weights'
  <1>0. /\ ~PendingEmpty /\ PopTop /\ mpc = "assign" /\ mpc' = "events"
        /\ weight' = weight + TopTask.weight
        /\ task' = [task EXCEPT ![cur] = TopTask]
        /\ weight' <= threads_count /\ phase' = phase
    BY AssignFits DEF AssignTask
  <1>1. TopTask \in Tasks /\ TopTask.weight = top /\ top \in 1..threads_count
    BY <1>0, TopWeight DEF TypeOK
  <1>2. PICK w \in Workers : w = cur
    BY DEF TypeOK
  <1>3. task \in [Workers -> Tasks] /\ task' \in [Workers -> Tasks]
    BY DEF TypeOK
  <1>4. task'[w] = TopTask /\ \A v \in Workers : v # w => task'[v] = task[v]
    BY <1>0, <1>2, <1>3
  <1>5. Scheduling /\ ~Scheduling' /\ ~Stopping
    BY <1>0 DEF Scheduling, Stopping
  <1>6. task[w].weight = 0
    BY <1>2, <1>5 DEF Weights
  <1>7. WeightSum(task') = WeightSum(task) - task[w].weight + task'[w].weight
    BY <1>3, <1>4, SumUpdate
  <1>8. weight = WeightSum(task) /\ weight \in 0..threads_count
    BY AccountingIs DEF Weights
  <1>9. weight' = WeightSum(task') /\ weight' \in 0..threads_count
    BY <1>0, <1>1, <1>4, <1>6, <1>7, <1>8, PoolSize
  <1>10. WeightAccounting'
    BY <1>9, AccountingIs
  <1>11. \A a \in 1..threads_count : \A i \in 1..Len(pending'[a]) :
           pending'[a][i].weight = a
    <2> SUFFICES ASSUME NEW a \in 1..threads_count, NEW i \in 1..Len(pending'[a])
                 PROVE  pending'[a][i].weight = a
      OBVIOUS
    <2>1. /\ pending \in [1..threads_count -> Seq(Tasks)] /\ pending[top] # <<>>
          /\ pending' = [pending EXCEPT ![top] = Tail(@)]
      BY <1>0, TopMeaning DEF TypeOK, TopIsHeaviest, PopTop
    <2>2. CASE a = top
      <3>1. pending'[a] = Tail(pending[a]) /\ pending[a] \in Seq(Tasks)
            /\ pending[a] # <<>>
        BY <1>1, <2>1, <2>2
      <3>2. i + 1 \in 1..Len(pending[a]) /\ pending'[a][i] = pending[a][i + 1]
        BY <3>1
      <3> QED BY <3>2 DEF Weights
    <2>3. CASE a # top
      <3>1. pending'[a] = pending[a]
        BY <2>1, <2>3
      <3> QED BY <3>1 DEF Weights
    <2> QED BY <2>2, <2>3
  <1>12. \A i \in 1..Len(idle') : task'[idle'[i]].weight = 0
    <2>1. PICK n \in Nat : /\ n <= Len(idle)
                           /\ queue' = queue \o [i \in 1..n |-> Ready(idle[i])]
                           /\ idle' = SubSeq(idle, n + 1, Len(idle))
      BY AssignWakes
    <2>2. /\ Len(idle) \in Nat /\ Len(idle') = Len(idle) - n
          /\ \A i \in 1..Len(idle') : idle'[i] = idle[n + i]
      BY <2>1, Reposted
    <2>3. \A i \in 1..Len(idle') : n + i \in 1..Len(idle)
      BY <2>2
    <2>4. \A i \in 1..Len(idle) : idle[i] # w /\ idle[i] \in Workers
      BY <1>2, <1>5, Members DEF Handshake, CurFree
    <2>5. \A i \in 1..Len(idle) : task'[idle[i]].weight = 0
      BY <1>4, <2>4 DEF Weights
    <2> QED BY <2>2, <2>3, <2>5
  <1>13. phase' = "ddl" => top' = 1 /\ \A v \in Workers : task'[v].weight <= 1
    <2>1. ASSUME phase = "ddl"
          PROVE  top' = 1 /\ \A v \in Workers : task'[v].weight <= 1
      <3>1. top = 1 /\ \A v \in Workers : task[v].weight <= 1
        BY <2>1 DEF Weights
      <3>2. top' \in 1..top
        BY <1>0 DEF PopTop
      <3> QED BY <1>1, <1>4, <3>1, <3>2
    <2> QED BY <1>0, <2>1
  <1> QED BY <1>5, <1>10, <1>11, <1>12, <1>13 DEF Weights

\* The other steps.
LEMMA WeightsStep ==
  ASSUME TypeOK, TypeOK', TopPosition, Handshake, Weights, IdleHere, [Next]_vars
  PROVE  Weights'
  <1> USE DEF mainVars, readerVars, stageVars, dataVars, dumpVars, restVars,
              workerVars, poolVars
  <1>1. ASSUME UNCHANGED <<task, weight, pending, top, idle>>,
               phase' = phase, Scheduling' => Scheduling /\ cur' = cur
        PROVE  Weights'
    BY <1>1, WeightsFrame DEF Weights
  <1>2. ASSUME NEW w \in Workers, WorkerStep(w) PROVE Weights'
    <2>1. UNCHANGED <<task, weight, pending, top, idle, phase, cur, mpc>>
      BY <1>2 DEF WorkerStep, WConnect, WReady, WPop, WExit, WStart, WRun, WEnd,
           WFail
    <2>2. Scheduling' => Scheduling
      BY <2>1 DEF Scheduling
    <2> QED BY <1>1, <2>1, <2>2
  <1>3. CASE \/ HandleOther \/ HandleEnd \/ HandleExit \/ NoChunk \/ StartTasks
             \/ Scan \/ Check \/ StopWorkers \/ JoinWorkers \/ MainFail
             \/ FetchFail \/ Interrupt \/ DumpStep \/ UNCHANGED vars
    <2>1. UNCHANGED <<task, weight, pending, top, idle, phase, cur>>
      BY <1>3 DEF HandleOther, HandleEnd, HandleExit, NoChunk, StartTasks, Scan,
           Check, StopWorkers, JoinWorkers, MainFail, FetchFail, Interrupt,
           DumpStep, FinishDump, WriteChunk, vars
    <2>2. Scheduling' => Scheduling
      BY <1>3 DEF HandleOther, HandleEnd, HandleExit, NoChunk, StartTasks, Scan,
           Check, StopWorkers, JoinWorkers, MainFail, FetchFail, Interrupt,
           DumpStep, FinishDump, WriteChunk, vars, Scheduling, Handling
    <2> QED BY <1>1, <2>1, <2>2
  <1>4. CASE LeaveEvents
    <2>1. /\ UNCHANGED <<task, weight, pending, top>> /\ idle' = <<>>
          /\ phase' \in {phase, "data"} /\ mpc' \in {"scan", "check"}
      BY <1>4 DEF LeaveEvents
    <2>2. ~Scheduling'
      BY <2>1 DEF Scheduling
    <2>3. \A i \in 1..Len(idle') : task[idle'[i]].weight = 0
      BY <2>1
    <2> QED BY <2>1, <2>2, <2>3, WeightsFrame
  <1>5. CASE AssignIdle
    <2>1. /\ UNCHANGED <<task, weight, pending, top, phase>>
          /\ idle' = Append(idle, cur) /\ mpc = "assign" /\ mpc' = "events"
      BY <1>5 DEF AssignIdle
    <2>2. Scheduling /\ ~Scheduling'
      BY <2>1 DEF Scheduling
    <2>3. \A i \in 1..Len(idle') :
            (i \in 1..Len(idle) /\ idle'[i] = idle[i]) \/ idle'[i] = cur
      BY <2>1 DEF TypeOK
    <2>4. \A i \in 1..Len(idle') : task[idle'[i]].weight = 0
      BY <2>2, <2>3 DEF Weights
    <2> QED BY <2>1, <2>2, <2>4, WeightsFrame
  <1>6. CASE HandleReady
    BY <1>6, WeightsReady
  <1>7. CASE AssignTask
    BY <1>7, WeightsAssign
  <1>8. CASE NextTableDdl \/ NextChunk \/ NextIndex \/ NextAnalyze \/ NextChecksum
    <2>1. /\ UNCHANGED <<task, idle, phase, cur>>
          /\ mpc \in {"schedule", "indexes", "analyze", "checksum"}
      BY <1>8 DEF NextTableDdl, NextChunk, NextIndex, NextAnalyze, NextChecksum
    <2>2. Scheduling
      BY <2>1 DEF Scheduling
    <2>3. CASE UNCHANGED <<weight, pending, top>>
      BY <1>1, <2>1, <2>2, <2>3
    <2>4. ASSUME NEW kind, NEW of, NEW index, NEW w \in Nat \ {0},
                 Push(kind, of, index, w), phase = "ddl" => w = 1
          PROVE  Weights'
      BY <2>1, <2>2, <2>4, WeightsPush
    <2>5. 1 \in Nat \ {0} /\ \A t \in Tables : IndexWeight[t] \in Nat \ {0}
      BY SchedulerAssumption
    <2>6. NextIndex => phase # "ddl"
      BY DEF NextIndex, IdleHere
    <2>7. CASE NextTableDdl
      BY <2>3, <2>4, <2>5, <2>7 DEF NextTableDdl
    <2>8. CASE NextChunk
      BY <2>3, <2>4, <2>5, <2>8 DEF NextChunk
    <2>9. CASE NextIndex
      <3>1. CASE \E t \in Tables : Push("index", t, 0, IndexWeight[t])
        BY <2>4, <2>5, <2>6, <2>9, <3>1
      <3> QED BY <2>3, <2>9, <3>1 DEF NextIndex
    <2>10. CASE NextAnalyze
      BY <2>3, <2>4, <2>5, <2>10 DEF NextAnalyze
    <2>11. CASE NextChecksum
      BY <2>3, <2>4, <2>5, <2>11 DEF NextChecksum
    <2> QED BY <1>8, <2>7, <2>8, <2>9, <2>10, <2>11
  <1> QED BY <1>2, <1>3, <1>4, <1>5, <1>6, <1>7, <1>8 DEF Next, MainStep, Done

----------------------------------------------------------------------------
(* What it means that a worker is idle.                                     *)

\* A task that was told a worker, before the end of the load.
LEMMA TaskGiven ==
  ASSUME TypeOK, Handshake, ~Stopping, NEW w \in Workers, work[w] # <<>>
  PROVE  Head(work[w])
  <1>1. work[w] = <<TRUE>>
    BY DEF Handshake, WorkGiven
  <1>2. PICK b \in BOOLEAN : b = TRUE
    BY Zenon
  <1>3. work[w] = <<b>>
    BY <1>1, <1>2, Zenon
  <1>4. Head(<<b>>) = b
    OBVIOUS
  <1> QED BY <1>2, <1>3, <1>4, Zenon

\* The types of the events in the queue, after one was posted or some were
\* posted again.
LEMMA QueueTypes ==
  ASSUME TypeOK, NEW T, "READY" \in T, \A i \in 1..Len(queue) : queue[i].type \in T,
         \/ queue' = queue
         \/ queue # <<>> /\ queue' = Tail(queue)
         \/ \E e : e.type \in T /\ queue' = Append(queue, e)
         \/ \E n \in Nat : /\ n <= Len(idle)
                           /\ queue' = queue \o [i \in 1..n |-> Ready(idle[i])]
                           /\ idle' = SubSeq(idle, n + 1, Len(idle))
  PROVE  \A i \in 1..Len(queue') : queue'[i].type \in T
  <1>1. CASE queue' = queue
    BY <1>1
  <1>2. CASE queue # <<>> /\ queue' = Tail(queue)
    <2>1. /\ Len(queue) \in Nat /\ Len(queue') = Len(queue) - 1
          /\ \A i \in 1..Len(queue') : queue'[i] = queue[i + 1]
      BY <1>2, Taken
    <2>2. ASSUME NEW i \in 1..Len(queue') PROVE queue'[i].type \in T
      <3>1. i + 1 \in 1..Len(queue)
        BY <2>1
      <3> QED BY <2>1, <3>1
    <2> QED BY <2>2
  <1>3. ASSUME NEW e, e.type \in T, queue' = Append(queue, e)
        PROVE  \A i \in 1..Len(queue') : queue'[i].type \in T
    <2>1. /\ Len(queue) \in Nat /\ Len(queue') = Len(queue) + 1
          /\ \A i \in 1..Len(queue) : queue'[i] = queue[i]
          /\ queue'[Len(queue) + 1] = e
      BY <1>3, Posted
    <2>2. \A i \in 1..Len(queue') : i \in 1..Len(queue) \/ i = Len(queue) + 1
      BY <2>1
    <2> QED BY <1>3, <2>1, <2>2
  <1>4. ASSUME NEW n \in Nat, n <= Len(idle),
               queue' = queue \o [i \in 1..n |-> Ready(idle[i])],
               idle' = SubSeq(idle, n + 1, Len(idle))
        PROVE  \A i \in 1..Len(queue') : queue'[i].type \in T
    <2>0. PICK l \in Nat : l = Len(queue)
      BY DEF TypeOK
    <2>1. /\ Len(queue') = l + n
          /\ \A i \in 1..l : queue'[i] = queue[i]
          /\ \A i \in 1..n : queue'[l + i] = Ready(idle[i])
      BY <1>4, <2>0, Reposted
    <2>2. \A i \in 1..(l + n) : i \in 1..l \/ (i - l \in 1..n /\ i = l + (i - l))
      BY <2>0
    <2>3. \A u : Ready(u).type = "READY"
      BY DEF Ready
    <2>4. ASSUME NEW i \in 1..(l + n), i \notin 1..l PROVE queue'[i].type \in T
      <3>1. queue'[i] = Ready(idle[i - l])
        BY <2>1, <2>2, <2>4
      <3> QED BY <2>3, <3>1
    <2> QED BY <2>0, <2>1, <2>2, <2>4
  <1> QED BY <1>1, <1>2, <1>3, <1>4

\* No step takes back the interrupt or the end of the load.
LEMMA LastingStep ==
  ASSUME [Next]_vars PROVE Lasting
  <1> USE DEF mainVars, restVars
  <1>1. interrupt' = interrupt \/ interrupt' = TRUE
    BY DEF Next, MainStep, Done, HandleOther, HandleReady, HandleExit, HandleEnd,
           LeaveEvents, NextTableDdl, NextChunk, NoChunk, NextIndex, NextAnalyze,
           NextChecksum, AssignIdle, AssignTask, StartTasks, Scan, Check,
           StopWorkers, JoinWorkers, MainFail, FetchFail, Interrupt, DumpStep,
           FinishDump, WriteChunk, WorkerStep, WConnect, WReady, WPop, WExit,
           WStart, WRun, WEnd, WFail, vars
  <1>2. interrupt => interrupt'
    BY <1>1, Zenon
  <1>3. Stopping => mpc' \in {mpc, "stopped"}
    BY DEF Stopping, Next, MainStep, Done, HandleOther, HandleReady,
           HandleExit, HandleEnd, LeaveEvents, NextTableDdl, NextChunk, NoChunk,
           NextIndex, NextAnalyze, NextChecksum, AssignIdle, AssignTask, StartTasks,
           Scan, Check, StopWorkers, JoinWorkers, MainFail, FetchFail, Interrupt,
           DumpStep, FinishDump, WriteChunk, WorkerStep, WConnect, WReady, WPop,
           WExit, WStart, WRun, WEnd, WFail, vars, Handling
  <1> QED BY <1>2, <1>3 DEF Lasting, Stopping

\* A worker leaves with an interrupt, or when it is told to stop.
LEMMA PresentStep ==
  ASSUME TypeOK, TopPosition, Handshake, Present, [Next]_vars
  PROVE  Present'
  <1> USE DEF mainVars, readerVars, stageVars, dataVars, dumpVars, restVars,
              workerVars, poolVars
  <1> DEFINE T == {"CONNECTED", "READY", "START", "END"}
             Kept == /\ live' = Workers
                     /\ \A v \in Workers : wpc'[v] # "exited"
                     /\ \A i \in 1..Len(queue') : queue'[i].type \in T
  <1>0. SUFFICES ASSUME ~interrupt', ~Stopping' PROVE Kept
    BY DEF Present
  <1>1. Lasting
    BY LastingStep
  <1>2. ~interrupt
    BY <1>0, <1>1 DEF Lasting
  <1>3. ~Stopping
    BY <1>0, <1>1 DEF Lasting
  <1>4. /\ live = Workers
        /\ \A v \in Workers : wpc[v] # "exited"
        /\ \A i \in 1..Len(queue) : queue[i].type \in T
    <2>1. /\ live = Workers
          /\ \A v \in Workers : wpc[v] # "exited"
          /\ \A i \in 1..Len(queue) : queue[i].type \notin {"EXIT", "FATAL_ERROR"}
      BY <1>2, <1>3 DEF Present
    <2>2. ASSUME NEW i \in 1..Len(queue)
          PROVE  queue[i].type \in T
      <3>1. queue[i] \in Events
        BY DEF TypeOK
      <3>2. queue[i].type \in {"CONNECTED", "READY", "START", "END", "EXIT",
                               "FATAL_ERROR"}
        BY <3>1 DEF Events
      <3> QED BY <2>1, <3>2
    <2> QED BY <2>1, <2>2
  <1>5. "READY" \in T
    OBVIOUS
  <1>6. ASSUME NEW w \in Workers, WorkerStep(w) PROVE Kept
    <2>0. wpc \in [Workers -> {"connect", "ready", "wait", "exec", "run", "end",
                               "exited"}]
      BY DEF TypeOK
    <2>1. ~WFail(w)
      BY <1>0 DEF WFail
    <2>2. ~WExit(w)
      BY <1>2, <1>3, TaskGiven DEF WExit
    <2>3. \/ WConnect(w) \/ WReady(w) \/ WPop(w) \/ WStart(w) \/ WRun(w) \/ WEnd(w)
      BY <1>6, <2>1, <2>2 DEF WorkerStep
    <2>4. live' = live /\ \E to \in {"ready", "wait", "exec", "run", "end"} :
                            wpc' = [wpc EXCEPT ![w] = to]
      BY <2>3 DEF WConnect, WReady, WPop, WStart, WRun, WEnd
    <2>5. \A v \in Workers : wpc'[v] # "exited"
      BY <1>4, <2>0, <2>4
    <2>6. \A k : Event(k, w).type = k
      BY DEF Event
    <2>7. Ready(w).type = "READY"
      BY DEF Ready
    <2>8. queue' = queue \/ \E e : e.type \in T /\ queue' = Append(queue, e)
      <3>1. \/ queue' = queue \/ queue' = Append(queue, Ready(w))
            \/ \E k \in T : queue' = Append(queue, Event(k, w))
        BY <2>3 DEF WConnect, WReady, WPop, WStart, WRun, WEnd
      <3> HIDE DEF T
      <3>2. ASSUME queue' = Append(queue, Ready(w))
            PROVE  \E e : e.type \in T /\ queue' = Append(queue, e)
        <4>1. Ready(w).type \in T
          BY <1>5, <2>7
        <4> QED BY <3>2, <4>1, Zenon
      <3>3. ASSUME NEW k \in T, queue' = Append(queue, Event(k, w))
            PROVE  \E e : e.type \in T /\ queue' = Append(queue, e)
        <4>1. Event(k, w).type \in T
          BY <2>6
        <4> QED BY <3>3, <4>1, Zenon
      <3> QED BY <3>1, <3>2, <3>3
    <2> HIDE DEF T
    <2>9. \A i \in 1..Len(queue') : queue'[i].type \in T
      BY <1>4, <1>5, <2>8, QueueTypes
    <2> QED BY <1>4, <2>4, <2>5, <2>9
  <1>7. ASSUME wpc' = wpc, live' = live,
               queue' = queue \/ (queue # <<>> /\ queue' = Tail(queue))
        PROVE  Kept
    <2> HIDE DEF T
    <2>1. \A i \in 1..Len(queue') : queue'[i].type \in T
      BY <1>4, <1>5, <1>7, QueueTypes
    <2> QED BY <1>4, <1>7, <2>1
  <1>8. CASE HandleExit
    <2>1. /\ queue # <<>> /\ queue' = Tail(queue)
          /\ Head(queue).type \in {"EXIT", "FATAL_ERROR"}
      BY <1>8 DEF HandleExit, Handling
    <2>2. Head(queue) = queue[1] /\ 1 \in 1..Len(queue)
      BY <2>1, Taken
    <2> QED BY <1>4, <2>1, <2>2
  <1>9. CASE LeaveEvents
    <2>1. idle \in Seq(Workers) /\ DOMAIN idle = 1..Len(idle) /\ Len(idle) \in Nat
      BY DEF TypeOK
    <2>2. SubSeq(idle, Len(idle) + 1, Len(idle)) = <<>>
      BY <2>1
    <2>3. /\ queue' = queue \o [i \in 1..Len(idle) |-> Ready(idle[i])]
          /\ idle' = SubSeq(idle, Len(idle) + 1, Len(idle))
          /\ UNCHANGED <<wpc, live>>
      BY <1>9, <2>1, <2>2 DEF LeaveEvents
    <2>4. \E n \in Nat : /\ n <= Len(idle)
                         /\ queue' = queue \o [i \in 1..n |-> Ready(idle[i])]
                         /\ idle' = SubSeq(idle, n + 1, Len(idle))
      BY <2>1, <2>3
    <2> HIDE DEF T
    <2>5. \A i \in 1..Len(queue') : queue'[i].type \in T
      BY <1>4, <1>5, <2>4, QueueTypes
    <2> QED BY <1>4, <2>3, <2>5
  <1>10. CASE AssignTask
    <2>1. UNCHANGED <<wpc, live>>
      BY <1>10 DEF AssignTask
    <2>2. \E n \in Nat : /\ n <= Len(idle)
                         /\ queue' = queue \o [i \in 1..n |-> Ready(idle[i])]
                         /\ idle' = SubSeq(idle, n + 1, Len(idle))
      BY <1>10, AssignWakes
    <2> HIDE DEF T
    <2>3. \A i \in 1..Len(queue') : queue'[i].type \in T
      BY <1>4, <1>5, <2>2, QueueTypes
    <2> QED BY <1>4, <2>1, <2>3
  <1>11. CASE HandleOther \/ HandleReady \/ HandleEnd
    BY <1>7, <1>11 DEF HandleOther, HandleReady, HandleEnd, Handling
  <1>12. CASE \/ NextTableDdl \/ NextChunk \/ NoChunk \/ NextIndex \/ NextAnalyze
              \/ NextChecksum \/ AssignIdle \/ StartTasks \/ Scan \/ Check
              \/ StopWorkers \/ JoinWorkers \/ MainFail \/ FetchFail \/ Interrupt
              \/ DumpStep \/ UNCHANGED vars
    BY <1>7, <1>12 DEF NextTableDdl, NextChunk, NoChunk, NextIndex, NextAnalyze,
           NextChecksum, AssignIdle, StartTasks, Scan, Check, StopWorkers,
           JoinWorkers, MainFail, FetchFail, Interrupt, DumpStep, FinishDump,
           WriteChunk, vars
  <1> QED BY <1>6, <1>8, <1>9, <1>10, <1>11, <1>12 DEF Next, MainStep, Done

\* Where the main thread is, and in which phase.
LEMMA IdleHereStep ==
  ASSUME TypeOK, IdleHere, [Next]_vars
  PROVE  IdleHere'
  <1> USE DEF mainVars, readerVars, stageVars, dataVars, dumpVars, restVars,
              workerVars, poolVars
  <1>1. phase \in {"ddl", "data"}
    BY DEF TypeOK
  <1>2. ASSUME UNCHANGED <<mpc, idle, phase>>, interrupt' = interrupt \/ interrupt' = TRUE
        PROVE  IdleHere'
    <2>1. interrupt => interrupt'
      BY <1>2, Zenon
    <2> QED BY <1>2, <2>1 DEF IdleHere
  <1>3. ASSUME NEW w \in Workers, WorkerStep(w) PROVE IdleHere'
    BY <1>2, <1>3 DEF WorkerStep, WConnect, WReady, WPop, WExit, WStart, WRun,
           WEnd, WFail
  <1>4. CASE HandleOther \/ HandleEnd \/ HandleExit \/ Interrupt \/ DumpStep
             \/ UNCHANGED vars
    BY <1>2, <1>4 DEF HandleOther, HandleEnd, HandleExit, Interrupt, DumpStep,
           FinishDump, WriteChunk, vars
  <1>5. ASSUME mpc' \in {"events", "schedule", "assign", "join", "joining", "stopped"}
        PROVE  IdleHere'
    BY <1>5 DEF IdleHere
  <1>6. CASE HandleReady
    <2>1. CASE interrupt
      BY <1>5, <1>6, <2>1 DEF HandleReady, Handling
    <2>2. CASE ~interrupt
      BY <1>5, <1>6, <2>2 DEF HandleReady
    <2> QED BY <2>1, <2>2
  <1>7. CASE LeaveEvents
    <2>1. idle' = <<>> /\ mpc' \in {"scan", "check"} /\ phase' = "data"
      BY <1>1, <1>7 DEF LeaveEvents
    <2> QED BY <2>1 DEF IdleHere
  <1>8. CASE NextTableDdl \/ AssignIdle \/ AssignTask \/ StopWorkers \/ JoinWorkers
             \/ MainFail \/ FetchFail
    BY <1>5, <1>8 DEF NextTableDdl, AssignIdle, AssignTask, StopWorkers,
           JoinWorkers, MainFail, FetchFail, Push
  <1>9. CASE NextChunk \/ NoChunk \/ NextIndex \/ NextAnalyze \/ NextChecksum
    <2>1. phase = "data" /\ phase' = phase
      BY <1>9 DEF NextChunk, NoChunk, NextIndex, NextAnalyze, NextChecksum, IdleHere
    <2>2. mpc' \in {"schedule", "indexes", "analyze", "checksum", "assign"}
      BY <1>9 DEF NextChunk, NoChunk, NextIndex, NextAnalyze, NextChecksum, Push
    <2> QED BY <2>1, <2>2 DEF IdleHere
  <1>10. CASE StartTasks
    <2>1. CASE interrupt
      <3>1. mpc' = "check" /\ interrupt' = interrupt /\ idle' = idle /\ mpc = "start"
        BY <1>10, <2>1 DEF StartTasks
      <3>2. interrupt'
        BY <2>1, <3>1
      <3> QED BY <3>1, <3>2 DEF IdleHere
    <2>2. CASE ~interrupt
      BY <1>5, <1>10, <2>2 DEF StartTasks
    <2> QED BY <2>1, <2>2
  <1>11. CASE Scan
    <2>1. /\ mpc = "scan" /\ UNCHANGED <<idle, phase>>
          /\ mpc' \in {"scan", "check", "events"}
      BY <1>11 DEF Scan
    <2> QED BY <2>1 DEF IdleHere
  <1>12. CASE Check
    <2>1. CASE interrupt
      BY <1>5, <1>12, <2>1 DEF Check
    <2>2. CASE ~interrupt
      <3>1. /\ mpc = "check" /\ UNCHANGED <<idle, phase>>
            /\ mpc' \in {"scan", "join"}
        BY <1>12, <2>2 DEF Check
      <3> QED BY <2>2, <3>1 DEF IdleHere
    <2> QED BY <2>1, <2>2
  <1> QED BY <1>3, <1>4, <1>6, <1>7, <1>8, <1>9, <1>10, <1>11, <1>12
          DEF Next, MainStep, Done

\* A worker that has to wait in the DDL phase finds nothing pending: every task
\* weighs one, and there is room for it.  When it is the last one to wait,
\* nothing is pending in either phase.
LEMMA WaitMeans ==
  ASSUME TypeOK, TopPosition, Weights, mpc = "assign", MustWait
  PROVE  /\ phase = "ddl" => PendingEmpty
         /\ (\A w \in Workers : w = cur \/ \E i \in 1..Len(idle) : idle[i] = w)
              => PendingEmpty
  <1>0. Scheduling
    BY DEF Scheduling
  <1>1. task[cur].weight = 0 /\ cur \in Workers
    BY <1>0 DEF Weights, TypeOK
  <1>2. task \in [Workers -> Tasks] /\ weight = WeightSum(task)
    BY AccountingIs DEF Weights, TypeOK
  <1>3. ASSUME ~PendingEmpty
        PROVE  weight + top > threads_count /\ top \in 1..threads_count
    BY <1>3, TopWeight DEF MustWait, TypeOK
  <1>4. ASSUME phase = "ddl" PROVE PendingEmpty
    <2>1. top = 1 /\ \A w \in Workers : task[w].weight <= 1
      BY <1>4 DEF Weights
    <2>2. weight < threads_count /\ weight \in Nat
      BY <1>1, <1>2, <2>1, SumBounds
    <2> QED BY <1>3, <2>1, <2>2, PoolSize
  <1>5. ASSUME \A w \in Workers : w = cur \/ \E i \in 1..Len(idle) : idle[i] = w
        PROVE  PendingEmpty
    <2>1. \A w \in Workers : task[w].weight = 0
      BY <1>1, <1>5 DEF Weights
    <2>2. weight = 0
      BY <1>2, <2>1, SumBounds
    <2> QED BY <1>3, <2>2, PoolSize
  <1> QED BY <1>4, <1>5

\* The parts of IdleMeans.
DdlIdle     == phase = "ddl" /\ idle # <<>> => ddlTodo = {} /\ PendingEmpty
DdlAssign   == phase = "ddl" /\ mpc = "assign" /\ PendingEmpty => ddlTodo = {}
EventsIdle  ==
  mpc = "events" /\ (\A w \in Workers : \E i \in 1..Len(idle) : idle[i] = w)
    => PendingEmpty
CheckIdle   ==
  mpc = "check" => /\ PendingEmpty /\ \A w \in Workers : Free(w)
                   /\ \A i \in 1..Len(queue) : queue[i].type # "END"

\* What it means that workers are idle is kept.
LEMMA IdleMeansStep ==
  ASSUME TypeOK, TypeOK', TopPosition, TopPosition', Handshake, Weights, Present,
         IdleHere, IdleMeans, [Next]_vars
  PROVE  IdleMeans'
  <1> USE DEF mainVars, readerVars, stageVars, dataVars, dumpVars, restVars,
              workerVars, poolVars
  <1>0. SUFFICES ASSUME ~interrupt'
                 PROVE  DdlIdle' /\ DdlAssign' /\ EventsIdle' /\ CheckIdle'
    BY DEF IdleMeans, DdlIdle, DdlAssign, EventsIdle, CheckIdle
  <1>1. ~interrupt
    BY <1>0, LastingStep DEF Lasting
  <1>2. DdlIdle /\ DdlAssign /\ EventsIdle /\ CheckIdle
    BY <1>1 DEF IdleMeans, DdlIdle, DdlAssign, EventsIdle, CheckIdle
  <1>3. \E w \in Workers : TRUE
    BY SchedulerAssumption, FS_EmptySet DEF threads_count
  <1>4. phase \in {"ddl", "data"}
    BY DEF TypeOK
  <1>5. pending' = pending => (PendingEmpty' <=> PendingEmpty)
    BY DEF PendingEmpty
  <1>6. ASSUME UNCHANGED <<phase, idle, ddlTodo, pending, mpc>>, mpc # "check"
        PROVE  DdlIdle' /\ DdlAssign' /\ EventsIdle' /\ CheckIdle'
    BY <1>2, <1>5, <1>6 DEF DdlIdle, DdlAssign, EventsIdle, CheckIdle
  <1>7. ASSUME UNCHANGED <<phase, idle, ddlTodo, pending, mpc, queue, wpc, work>>
        PROVE  DdlIdle' /\ DdlAssign' /\ EventsIdle' /\ CheckIdle'
    BY <1>2, <1>5, <1>7 DEF DdlIdle, DdlAssign, EventsIdle, CheckIdle, Free
  <1>8. ASSUME UNCHANGED <<phase, idle, ddlTodo, pending>>,
               mpc' \notin {"events", "assign", "check"}
        PROVE  DdlIdle' /\ DdlAssign' /\ EventsIdle' /\ CheckIdle'
    BY <1>2, <1>5, <1>8 DEF DdlIdle, DdlAssign, EventsIdle, CheckIdle
  <1>9. ASSUME phase' = "data", mpc' \notin {"events", "check"}
        PROVE  DdlIdle' /\ DdlAssign' /\ EventsIdle' /\ CheckIdle'
    BY <1>9 DEF DdlIdle, DdlAssign, EventsIdle, CheckIdle
  <1>10. ASSUME NEW w \in Workers, WorkerStep(w)
         PROVE  DdlIdle' /\ DdlAssign' /\ EventsIdle' /\ CheckIdle'
    <2>1. UNCHANGED <<phase, idle, ddlTodo, pending, mpc>>
      BY <1>10 DEF WorkerStep, WConnect, WReady, WPop, WExit, WStart, WRun, WEnd,
           WFail
    <2>2. ~Free(w)
      BY <1>10 DEF WorkerStep, WConnect, WReady, WPop, WExit, WStart, WRun, WEnd,
           WFail, Free
    <2>3. mpc # "check"
      BY <1>2, <2>2 DEF CheckIdle
    <2> QED BY <1>6, <2>1, <2>3
  <1>11. CASE HandleOther \/ HandleEnd \/ HandleExit
    <2>1. UNCHANGED <<phase, idle, ddlTodo, pending, mpc>> /\ mpc # "check"
      BY <1>11 DEF HandleOther, HandleEnd, HandleExit, Handling
    <2> QED BY <1>6, <2>1
  <1>12. CASE HandleReady
    <2>1. UNCHANGED <<phase, idle, ddlTodo, pending>> /\ mpc' = "schedule"
      BY <1>1, <1>12 DEF HandleReady
    <2> QED BY <1>8, <2>1
  <1>13. CASE LeaveEvents
    <2>1. /\ mpc = "events" /\ Len(idle) >= Cardinality(live)
          /\ idle' = <<>> /\ UNCHANGED <<pending, wpc, work, ddlTodo>>
          /\ phase' = "data" /\ mpc' \in {"scan", "check"}
      BY <1>4, <1>13 DEF LeaveEvents
    <2>2. /\ \A w \in Workers : \E i \in 1..Len(idle) : idle[i] = w
          /\ \A w \in Workers : Free(w)
          /\ \A i \in 1..Len(queue) : queue[i].type # "END"
          /\ queue = <<>>
      BY <1>1, <2>1, AllIdle
    <2>3. PendingEmpty'
      BY <1>2, <1>5, <2>1, <2>2 DEF EventsIdle
    <2>4. \A w \in Workers : Free(w)'
      BY <2>1, <2>2 DEF Free
    <2>5. \A i \in 1..Len(queue') : queue'[i].type # "END"
      <3> DEFINE T == {"READY"}
      <3>1. idle \in Seq(Workers) /\ DOMAIN idle = 1..Len(idle) /\ Len(idle) \in Nat
        BY DEF TypeOK
      <3>2. SubSeq(idle, Len(idle) + 1, Len(idle)) = <<>>
        BY <3>1
      <3>3. \E n \in Nat : /\ n <= Len(idle)
                           /\ queue' = queue \o [i \in 1..n |-> Ready(idle[i])]
                           /\ idle' = SubSeq(idle, n + 1, Len(idle))
        BY <1>13, <3>1, <3>2 DEF LeaveEvents
      <3>4. "READY" \in T /\ \A i \in 1..Len(queue) : queue[i].type \in T
        BY <2>2
      <3> HIDE DEF T
      <3>5. \A i \in 1..Len(queue') : queue'[i].type \in T
        BY <3>3, <3>4, QueueTypes
      <3> QED BY <3>5 DEF T
    <2> QED BY <2>1, <2>3, <2>4, <2>5 DEF DdlIdle, DdlAssign, EventsIdle, CheckIdle
  <1>14. CASE NextTableDdl
    <2>1. mpc' = "assign" /\ UNCHANGED <<phase, idle>> /\ phase = "ddl"
      BY <1>14 DEF NextTableDdl, Push
    <2>2. CASE ddlTodo = {} /\ UNCHANGED <<ddlTodo, pending>>
      BY <1>2, <1>5, <2>1, <2>2 DEF DdlIdle, DdlAssign, EventsIdle, CheckIdle
    <2>3. ASSUME NEW t \in ddlTodo, Push("ddl", t, 0, 1)
          PROVE  DdlIdle' /\ DdlAssign' /\ EventsIdle' /\ CheckIdle'
      <3>1. idle = <<>>
        BY <1>2, <2>1 DEF DdlIdle
      <3>2. ~PendingEmpty'
        <4> DEFINE u == Task("ddl", t, 0, Cut(1))
        <4>1. u.weight \in 1..threads_count
          BY CutType DEF Task
        <4>2. pending' = [pending EXCEPT ![u.weight] = Append(@, u)]
          BY <2>3 DEF Push, Emplace
        <4>3. pending \in [1..threads_count -> Seq(Tasks)]
          BY DEF TypeOK
        <4> HIDE DEF u
        <4>4. pending'[u.weight] # <<>> /\ u.weight \in DOMAIN pending'
          BY <4>1, <4>2, <4>3
        <4> QED BY <4>4 DEF PendingEmpty
      <3> QED BY <2>1, <3>1, <3>2 DEF DdlIdle, DdlAssign, EventsIdle, CheckIdle
    <2> QED BY <1>1, <1>14, <2>2, <2>3 DEF NextTableDdl
  <1>15. CASE NextChunk \/ NoChunk \/ NextIndex \/ NextAnalyze \/ NextChecksum
    <2>1. phase' = "data"
      BY <1>15 DEF NextChunk, NoChunk, NextIndex, NextAnalyze, NextChecksum, IdleHere
    <2>2. mpc' \in {"schedule", "indexes", "analyze", "checksum", "assign"}
      BY <1>15 DEF NextChunk, NoChunk, NextIndex, NextAnalyze, NextChecksum, Push
    <2> QED BY <1>9, <2>1, <2>2
  <1>16. CASE AssignIdle
    <2>1. /\ mpc = "assign" /\ MustWait /\ idle' = Append(idle, cur)
          /\ mpc' = "events" /\ UNCHANGED <<phase, ddlTodo, pending>>
      BY <1>16 DEF AssignIdle
    <2>2. phase = "ddl" => PendingEmpty /\ ddlTodo = {}
      BY <1>2, <2>1, WaitMeans DEF DdlAssign
    <2>3. ASSUME \A w \in Workers : \E i \in 1..Len(idle') : idle'[i] = w
          PROVE  PendingEmpty
      <3>1. \A i \in 1..Len(idle') :
              (i \in 1..Len(idle) /\ idle'[i] = idle[i]) \/ idle'[i] = cur
        BY <2>1 DEF TypeOK
      <3>2. \A w \in Workers : w = cur \/ \E i \in 1..Len(idle) : idle[i] = w
        BY <2>3, <3>1
      <3> QED BY <2>1, <3>2, WaitMeans
    <2> QED BY <1>5, <2>1, <2>2, <2>3 DEF DdlIdle, DdlAssign, EventsIdle, CheckIdle
  <1>17. CASE AssignTask
    <2>1. ~PendingEmpty /\ mpc = "assign" /\ mpc' = "events" /\ phase' = phase
      BY <1>17, AssignFits DEF AssignTask
    <2>2. PICK n \in Nat : /\ n <= Len(idle)
                           /\ queue' = queue \o [i \in 1..n |-> Ready(idle[i])]
                           /\ idle' = SubSeq(idle, n + 1, Len(idle))
      BY <1>17, AssignWakes
    <2>3. /\ Len(idle) \in Nat /\ Len(idle') = Len(idle) - n
          /\ \A i \in 1..Len(idle') : idle'[i] = idle[n + i]
      BY <2>2, Reposted
    <2>4. \A i \in 1..Len(idle') : n + i \in 1..Len(idle)
      BY <2>3
    <2>5. \A i \in 1..Len(idle) : idle[i] # cur
      BY <2>1 DEF Handshake, CurFree, Scheduling, Stopping
    <2>6. EventsIdle'
      <3>1. \A i \in 1..Len(idle') : idle'[i] # cur
        BY <2>3, <2>4, <2>5
      <3>2. cur \in Workers
        BY DEF TypeOK
      <3> QED BY <3>1, <3>2 DEF EventsIdle
    <2>7. DdlIdle'
      <3>1. ASSUME phase = "ddl" PROVE idle' = <<>>
        <4>1. idle = <<>>
          BY <1>2, <2>1, <3>1 DEF DdlIdle
        <4>2. Len(idle') = 0 /\ idle' \in Seq(Workers)
          BY <2>2, <2>3, <4>1 DEF TypeOK
        <4> QED BY <4>2
      <3> QED BY <2>1, <3>1 DEF DdlIdle
    <2> QED BY <2>1, <2>6, <2>7 DEF DdlAssign, CheckIdle
  <1>18. CASE StartTasks \/ Scan
    <2>1. /\ idle' = idle /\ idle = <<>> /\ UNCHANGED <<phase, ddlTodo, pending>>
          /\ mpc' \in {"scan", "events"}
      BY <1>1, <1>18 DEF StartTasks, Scan, IdleHere
    <2>2. ~\A w \in Workers : \E i \in 1..Len(idle') : idle'[i] = w
      BY <1>3, <2>1
    <2> QED BY <1>2, <1>5, <2>1, <2>2 DEF DdlIdle, DdlAssign, EventsIdle, CheckIdle
  <1>19. CASE Check \/ StopWorkers \/ JoinWorkers \/ MainFail
    <2>1. /\ UNCHANGED <<phase, idle, ddlTodo, pending>>
          /\ mpc' \in {"join", "scan", "joining", "stopped"}
      BY <1>1, <1>19 DEF Check, StopWorkers, JoinWorkers, MainFail
    <2> QED BY <1>8, <2>1
  <1>20. CASE FetchFail \/ Interrupt
    BY <1>0, <1>20 DEF FetchFail, Interrupt
  <1>21. CASE DumpStep \/ UNCHANGED vars
    BY <1>7, <1>21 DEF DumpStep, FinishDump, WriteChunk, vars
  <1> QED BY <1>10, <1>11, <1>12, <1>13, <1>14, <1>15, <1>16, <1>17, <1>18, <1>19,
             <1>20, <1>21 DEF Next, MainStep, Done

----------------------------------------------------------------------------
(* The end of the loop.                                                     *)

\* At the end of the loop, with no interrupt and no work available: everything
\* that was to be done has been issued, and whatever was issued was executed.
LEMMA OkAtCheck ==
  ASSUME TypeOK, Account, Stages, IdleHere, IdleMeans, mpc = "check", ~interrupt,
         ~work_available
  PROVE  /\ \A t \in Tables : /\ <<"ddl", t, 0>> \in ran /\ DataRan(t)
                              /\ IndexesRan(t) /\ Analyzed(t)
         /\ \A p \in Checksums : TableOf[p] \notin NoTable =>
                                   <<"checksum", p, 0>> \in ran
  <1>1. /\ PendingEmpty /\ \A w \in Workers : Free(w)
        /\ \A i \in 1..Len(queue) : queue[i].type # "END"
    BY DEF IdleMeans
  <1>2. ~Stopping /\ phase = "data" /\ DdlHandled
    BY DEF Stopping, IdleHere, Stages, DataPhase
  <1>3. ASSUME NEW x \in Items, Issued(x),
               ~(x[1] = "checksum" /\ TableOf[x[2]] \in NoTable)
        PROVE  x \in ran
    <2>1. Handled(x)
      BY <1>1, <1>2, <1>3, AllHandled
    <2> QED BY <2>1 DEF Handled
  <1>4. \A t \in Tables : <<"ddl", t, 0>> \in ran
    BY <1>2 DEF DdlHandled, Handled
  <1>5. \A t \in Tables : /\ all_data_scheduled(t) /\ indexes[t] # "todo"
                          /\ analyze[t] # "todo" /\ all_data_verified(t)
    BY DEF work_available
  <1>6. ASSUME NEW t \in Tables, NEW p \in PartsOf(t),
               NEW i \in 0..(NumChunks[p] - 1)
        PROVE  ChunkRan(p, i)
    <2>1. p \in Parts /\ NumChunks[p] \in Nat /\ consumed[p] = NumChunks[p]
      BY <1>5, <1>6, SchedulerAssumption DEF PartsOf, all_data_scheduled, AllChunksAre
    <2>2. i \in Nat /\ i < consumed[p]
      BY <2>1
    <2>3. /\ <<"chunk", p, i>> \in Items /\ <<"chunk", p, i>>[1] = "chunk"
          /\ <<"chunk", p, i>>[2] = p /\ <<"chunk", p, i>>[3] = i
      BY <2>1, <2>2, Triple DEF Kinds
    <2>4. CASE <<p, i>> \in PrevLoaded
      BY <2>4 DEF ChunkRan
    <2>5. CASE <<p, i>> \notin PrevLoaded
      <3> DEFINE x == <<"chunk", p, i>>
      <3>1. x[1] = "chunk" /\ x[2] = p /\ x[3] = i /\ x \in Items
        BY <2>3
      <3> HIDE DEF x
      <3>2. Issued(x)
        BY <2>1, <2>2, <2>5, <3>1 DEF Issued
      <3>3. x \in ran
        BY <1>3, <3>1, <3>2
      <3> QED BY <3>3 DEF ChunkRan, x
    <2> QED BY <2>4, <2>5
  <1>7. ASSUME NEW t \in Tables PROVE IndexesRan(t)
    <2> SUFFICES ASSUME t \in DeferredIdx PROVE <<"index", t, 0>> \in ran
      BY DEF IndexesRan
    <2>1. indexes[t] \in {"scheduled", "created"}
      BY <1>2, <1>5 DEF DdlHandled, Stages, IndexStage, TypeOK
    <2> DEFINE x == <<"index", t, 0>>
    <2>2. x[1] = "index" /\ x[2] = t /\ x[3] = 0 /\ x \in Items
      BY Triple DEF Kinds
    <2> HIDE DEF x
    <2>3. Issued(x)
      BY <2>1, <2>2 DEF Issued
    <2>4. x \in ran
      BY <1>3, <2>2, <2>3
    <2> QED BY <2>4 DEF x
  <1>8. ASSUME NEW t \in Tables PROVE Analyzed(t)
    <2> DEFINE Wanted ==
          AnalyzeMode = "on" \/ (AnalyzeMode = "histogram" /\ t \in Histograms)
    <2> SUFFICES ASSUME Wanted PROVE <<"analyze", t, 0>> \in ran
      BY DEF Analyzed
    <2> DEFINE x == <<"analyze", t, 0>>
    <2>2. x[1] = "analyze" /\ x[2] = t /\ x[3] = 0 /\ x \in Items
      BY Triple DEF Kinds
    <2> HIDE DEF x
    <2>3. Issued(x)
      BY <1>5, <2>2 DEF Issued
    <2>4. x \in ran
      BY <1>3, <2>2, <2>3
    <2> QED BY <2>4 DEF x
  <1>9. ASSUME NEW p \in Checksums, TableOf[p] \notin NoTable
        PROVE  <<"checksum", p, 0>> \in ran
    <2>1. p \in Parts /\ TableOf[p] \in Tables /\ p \in PartsOf(TableOf[p])
      BY SchedulerAssumption DEF PartsOf
    <2>2. checksum[p] = "verified"
      BY <1>5, <2>1 DEF all_data_verified, Stages, ChecksumStage
    <2> DEFINE x == <<"checksum", p, 0>>
    <2>3. x[1] = "checksum" /\ x[2] = p /\ x[3] = 0 /\ x \in Items
      BY <2>1, Triple DEF Kinds
    <2> HIDE DEF x
    <2>4. Issued(x)
      BY <2>1, <2>2, <2>3 DEF Issued
    <2>5. x \in ran
      BY <1>3, <1>9, <2>3, <2>4
    <2> QED BY <2>5 DEF x
  <1>10. \A t \in Tables : DataRan(t)
    BY <1>6 DEF DataRan
  <1> QED BY <1>4, <1>7, <1>8, <1>9, <1>10

\* Success is reported at the end of the loop only, and stays true.
LEMMA OkStep ==
  ASSUME TypeOK, Account, Stages, Idleness, OkMeansAllDone, ran \subseteq ran',
         [Next]_vars
  PROVE  OkMeansAllDone'
  <1> DEFINE AllDone ==
        /\ \A t \in Tables : /\ <<"ddl", t, 0>> \in ran /\ DataRan(t)
                             /\ IndexesRan(t) /\ Analyzed(t)
        /\ \A p \in Checksums : TableOf[p] \notin NoTable =>
                                  <<"checksum", p, 0>> \in ran
  <1>1. AllDone => AllDone'
    BY RanGrows
  <1>2. (OkMeansAllDone <=> (result = "ok" => AllDone))
        /\ (OkMeansAllDone' <=> (result' = "ok" => AllDone'))
    BY DEF OkMeansAllDone
  <1>3. CASE Check
    <2>1. \/ result' = result \/ result' = "error"
          \/ mpc = "check" /\ ~interrupt /\ ~work_available
      BY <1>3 DEF Check
    <2>2. CASE mpc = "check" /\ ~interrupt /\ ~work_available
      <3>1. AllDone
        BY <2>2, OkAtCheck DEF Idleness
      <3> HIDE DEF AllDone
      <3> QED BY <1>1, <1>2, <3>1
    <2> HIDE DEF AllDone
    <2> QED BY <1>1, <1>2, <2>1, <2>2
  <1>4. ASSUME ~Check PROVE result' = result \/ result' = "error"
    <2>1. ASSUME NEW w \in Workers, WorkerStep(w) PROVE result' = result
      BY <2>1 DEF WorkerStep, WConnect, WReady, WPop, WExit, WStart, WRun, WEnd,
                  WFail, mainVars
    <2>2. CASE HandleOther \/ HandleEnd \/ HandleReady \/ HandleExit \/ LeaveEvents
      BY <2>2 DEF HandleOther, HandleEnd, HandleReady, HandleExit, LeaveEvents,
                  mainVars
    <2>3. CASE \/ NextTableDdl \/ NextChunk \/ NoChunk \/ NextIndex \/ NextAnalyze
               \/ NextChecksum
      BY <2>3 DEF NextTableDdl, NextChunk, NoChunk, NextIndex, NextAnalyze,
                  NextChecksum, restVars
    <2>4. CASE \/ StartTasks \/ AssignIdle \/ AssignTask \/ Scan \/ StopWorkers
               \/ JoinWorkers
      BY <2>4 DEF StartTasks, AssignIdle, AssignTask, Scan, StopWorkers, JoinWorkers
    <2>5. CASE MainFail \/ FetchFail \/ Interrupt \/ DumpStep \/ UNCHANGED vars
      BY <2>5 DEF MainFail, FetchFail, Interrupt, DumpStep, FinishDump, WriteChunk,
                  mainVars, vars
    <2> QED BY <1>4, <2>1, <2>2, <2>3, <2>4, <2>5 DEF Next, MainStep, Done
  <1> HIDE DEF AllDone
  <1>5. CASE ~Check
    BY <1>1, <1>2, <1>4, <1>5
  <1> QED BY <1>3, <1>5

----------------------------------------------------------------------------
(* The invariant in the initial states, and in a step.                      *)

\* Nothing is issued, queued or in a worker's hands in the beginning.
LEMMA NothingInit ==
  ASSUME Init
  PROVE  /\ \A x : ~Queued(x) /\ ~Alive(x)
         /\ \A x \in Items : ~Issued(x)
         /\ \A w \in Workers : ~Unrun(w) /\ ~HasEnd(w) /\ ~Owns(w)
         /\ \A x : ~Handled(x)
  <1>1. /\ queue = <<>> /\ Len(queue) = 0 /\ ran = {}
        /\ \A w \in Workers : wpc[w] = "connect"
        /\ \A a \in 1..threads_count : pending[a] = <<>> /\ Len(pending[a]) = 0
    BY DEF Init
  <1>2. \A w \in Workers : ~Unrun(w) /\ ~HasEnd(w) /\ ~Owns(w)
    <2>1. \A w \in Workers : ~Unrun(w) /\ wpc[w] # "end"
      BY <1>1, Zenon DEF Unrun
    <2>2. \A w \in Workers : ~HasEnd(w)
      BY <1>1 DEF HasEnd
    <2> QED BY <2>1, <2>2 DEF Owns, Ended
  <1>3. \A x : ~Queued(x)
    BY <1>1 DEF Queued
  <1>4. ASSUME NEW x \in Items, Issued(x) PROVE FALSE
    <2>1. x[3] \in Nat
      BY DEF Items
    <2>2. \A p \in Parts : consumed[p] = 0
      BY DEF Init
    <2>3. \A t \in Tables : /\ t \in ddlTodo
                            /\ indexes[t] = "none"
                            /\ AnalyzeMode # "off" => analyze[t] = "todo"
      BY DEF Init
    <2>4. \A p \in Parts : checksum[p] \in {"todo", "none"}
      BY DEF Init
    <2> QED BY <1>4, <2>1, <2>2, <2>3, <2>4 DEF Issued
  <1> QED BY <1>1, <1>2, <1>3, <1>4 DEF Alive, Handled

\* The account is empty in the beginning.
LEMMA AccountInit == Init => Account
  <1> SUFFICES ASSUME Init PROVE Account
    OBVIOUS
  <1>1. /\ ran = {} /\ \A w \in Workers : work[w] = <<>> /\ Len(work[w]) = 0
        /\ \A a \in 1..threads_count : pending[a] = <<>> /\ Len(pending[a]) = 0
        /\ \A p \in Parts : inflight[p] = 0
    BY DEF Init
  <1>2. WorkHeads
    <2>1. \A w \in Workers : work[w] = <<>> /\ 2..Len(work[w]) = {}
      BY <1>1
    <2> QED BY <2>1, Zenon DEF WorkHeads
  <1>3. EndOnce
    BY NothingInit DEF EndOnce, OneEnd, HasEnd
  <1>4. PendingFresh /\ PendingDistinct
    BY <1>1, NothingInit DEF PendingFresh, PendingDistinct
  <1>5. Owned /\ OwnersDistinct /\ RanIssued
    BY <1>1, NothingInit DEF Owned, OwnersDistinct, RanIssued, Owns
  <1>6. NothingLost
    BY NothingInit DEF NothingLost
  <1>7. SerialOne
    BY <1>1, NothingInit, SchedulerAssumption DEF SerialOne
  <1> QED BY <1>2, <1>3, <1>4, <1>5, <1>6, <1>7 DEF Account, Ledger

\* No stage has begun in the beginning.
LEMMA StagesInit == Init => Stages
  <1> SUFFICES ASSUME Init PROVE Stages
    OBVIOUS
  <1>1. ASSUME NEW p \in Parts
        PROVE  /\ consumed[p] = 0 /\ available[p] = 0 /\ written[p] = 0
               /\ loaded[p] = 0 /\ NumChunks[p] \in Nat
               /\ Cardinality(DoneChunks(p)) = 0
    <2>1. /\ consumed[p] = 0 /\ available[p] = 0 /\ written[p] = 0
          /\ loaded[p] = 0 /\ NumChunks[p] \in Nat
      BY SchedulerAssumption DEF Init
    <2>2. DoneChunks(p) = {}
      BY <2>1 DEF DoneChunks
    <2> QED BY <2>1, <2>2, FS_EmptySet
  <1>2. ChunkCounts
    BY <1>1 DEF ChunkCounts
  <1>3. IndexStage
    <2>1. \A t \in Tables : indexes[t] = "none"
      BY DEF Init
    <2> QED BY <2>1, NothingInit DEF IndexStage
  <1>4. AnalyzeStage
    <2>1. \A t \in Tables : IF AnalyzeMode = "off" THEN analyze[t] = "finished"
                            ELSE analyze[t] = "todo"
      BY DEF Init
    <2> QED BY <2>1 DEF AnalyzeStage
  <1>5. ChecksumStage
    <2>1. \A p \in Parts : IF p \in Checksums THEN checksum[p] = "todo"
                           ELSE checksum[p] = "none"
      BY DEF Init
    <2> QED BY <2>1 DEF ChecksumStage
  <1>6. DataPhase
    BY DEF Init, DataPhase
  <1> QED BY <1>2, <1>3, <1>4, <1>5, <1>6 DEF Stages

\* Nobody holds any weight, is idle or gone in the beginning.
LEMMA IdleInit == Init => Weights /\ Idleness
  <1> SUFFICES ASSUME Init PROVE Weights /\ Idleness
    OBVIOUS
  <1>1. task \in [Workers -> Tasks]
    BY TypeInit DEF TypeOK
  <1>2. \A w \in Workers : task[w].weight = 0
    BY DEF Init, NoTask, Task
  <1>3. WeightSum(task) = 0 /\ weight = 0
    BY <1>1, <1>2, SumBounds DEF Init
  <1>4. WeightAccounting
    BY <1>3, AccountingIs, PoolSize
  <1>5. /\ \A a \in 1..threads_count : pending[a] = <<>> /\ Len(pending[a]) = 0
        /\ idle = <<>> /\ Len(idle) = 0 /\ top = 1
    BY DEF Init
  <1>6. ~Scheduling
    BY DEF Init, Scheduling
  <1>7. Weights
    BY <1>2, <1>4, <1>5, <1>6 DEF Weights
  <1>8. Present
    <2>1. live = Workers /\ Len(queue) = 0 /\ \A w \in Workers : wpc[w] = "connect"
      BY DEF Init
    <2> QED BY <2>1 DEF Present
  <1>9. IdleHere
    BY DEF Init, IdleHere
  <1>10. IdleMeans
    BY DEF Init, IdleMeans
  <1> QED BY <1>7, <1>8, <1>9, <1>10 DEF Idleness

\* Every step keeps the account and the stages.
LEMMA AccountNext ==
  ASSUME TypeOK, TypeOK', TopPosition, Handshake, EventTaskMatch, Account, Stages,
         Idleness, [Next]_vars
  PROVE  Account' /\ Stages' /\ ran \subseteq ran'
  <1>1. CASE \E w \in Workers : WorkerStep(w)
    BY <1>1, AccountWorker, StagesWorker
  <1>2. CASE \/ HandleOther \/ HandleReady \/ HandleExit
             \/ NoChunk \/ AssignIdle \/ StartTasks \/ Scan \/ Check \/ StopWorkers
             \/ JoinWorkers \/ MainFail \/ FetchFail \/ Interrupt \/ DumpStep
             \/ UNCHANGED vars
    BY <1>2, AccountLoop, StagesLoop
  <1>3. CASE LeaveEvents
    BY <1>3, AccountLoop, StagesLeave
  <1>4. CASE HandleEnd
    BY <1>4, AccountEnd, StagesEnd DEF Stages
  <1>5. CASE AssignTask
    BY <1>5, AccountAssign, StagesAssign
  <1>6. CASE NextTableDdl \/ NextChunk \/ NextIndex \/ NextAnalyze \/ NextChecksum
    BY <1>6, AccountSchedule, StagesSchedule DEF Stages, Idleness
  <1> QED BY <1>1, <1>2, <1>3, <1>4, <1>5, <1>6 DEF Next, MainStep, Done

\* What a worker that runs a task may rely on.
LEMMA RunsIssued ==
  ASSUME SchedInv, NEW w \in Workers, wpc[w] = "run"
  PROVE  /\ TypeOK /\ Stages /\ WorkOf(w) \notin ran
         /\ Issued(WorkOf(w))
         /\ WorkOf(w) = <<task[w].kind, task[w].of, task[w].index>>
         /\ task[w].index \in Nat
  <1>1. TypeOK /\ Owned /\ Stages
    BY DEF SchedInv, IInv, Account, Ledger
  <1>2. Unrun(w) /\ Owns(w)
    BY DEF Unrun, Owns
  <1>3. task[w].index \in Nat
    BY <1>1 DEF TypeOK, Tasks
  <1> QED BY <1>1, <1>2, <1>3 DEF Owned, WorkOf

----------------------------------------------------------------------------
(* The theorems.                                                            *)

\* IInv is an inductive invariant of the scheduler.
THEOREM Inductive == Spec => []IInv
  <1>1. Init => IInv
    BY TypeInit, HandshakeInit DEF IInv
  <1>2. IInv /\ [Next]_vars => IInv'
    BY TypeNext, HandshakeNext, MatchNext DEF IInv
  <1> QED BY <1>1, <1>2, PTL DEF Spec

\* The variables of the main thread, of the workers and of the queues always
\* have their types: in particular m_top_pos stays within m_tasks although
\* pop_top() counts it down, and no task weighs more than the pool.
THEOREM TypeCorrect == Spec => []TypeOK
  <1>1. IInv => TypeOK
    BY DEF IInv
  <1> QED BY <1>1, Inductive, PTL

\* Priority_queue: whatever was queued and taken before, m_top_pos is the
\* position of the heaviest pending task.
THEOREM QueueCorrect == Spec => []TopIsHeaviest
  <1>1. IInv => TopIsHeaviest
    BY TopMeaning DEF IInv
  <1> QED BY <1>1, Inductive, PTL

\* Worker::schedule() never replaces a task in use: the worker it is called for
\* is blocked, has no work given and no event about its old task is queued.
THEOREM ScheduleSafe == Spec => []TaskReplacedWhenFree
  <1>1. IInv => TaskReplacedWhenFree
    BY DEF IInv, Handshake, Stopping, CurFree, Scheduling, Free, Quiet,
           TaskReplacedWhenFree
  <1> QED BY <1>1, Inductive, PTL

\* The handlers of *_START and *_END find in worker->current_task() the task
\* the event is about, whenever they get to it.
THEOREM EventsCorrect == Spec => []EventTaskMatch
  <1>1. IInv => EventTaskMatch
    BY DEF IInv
  <1> QED BY <1>1, Inductive, PTL

\* The whole invariant of the scheduler is inductive.
THEOREM SchedulerInductive == Spec => []SchedInv
  <1>1. Init => SchedInv
    <2>1. Init => OkMeansAllDone
      BY DEF Init, OkMeansAllDone
    <2> QED BY <2>1, TypeInit, HandshakeInit, AccountInit, StagesInit, IdleInit
            DEF SchedInv, IInv
  <1>2. SchedInv /\ [Next]_vars => SchedInv'
    <2> SUFFICES ASSUME SchedInv, [Next]_vars PROVE SchedInv'
      OBVIOUS
    <2>1. /\ TypeOK /\ TopPosition /\ Handshake /\ EventTaskMatch /\ Account
          /\ Stages /\ Weights /\ Idleness /\ Present /\ IdleHere /\ IdleMeans
          /\ OkMeansAllDone
      BY DEF SchedInv, IInv, Idleness
    <2>2. TypeOK' /\ TopPosition'
      BY <2>1, TypeNext
    <2>3. Handshake' /\ EventTaskMatch'
      BY <2>1, HandshakeNext, MatchNext
    <2>4. Account' /\ Stages' /\ ran \subseteq ran'
      BY <2>1, <2>2, AccountNext
    <2>5. Weights'
      BY <2>1, <2>2, WeightsStep
    <2>6. Present' /\ IdleHere' /\ IdleMeans'
      BY <2>1, <2>2, PresentStep, IdleHereStep, IdleMeansStep
    <2>7. OkMeansAllDone'
      BY <2>1, <2>4, OkStep
    <2> QED BY <2>2, <2>3, <2>4, <2>5, <2>6, <2>7 DEF SchedInv, IInv, Idleness
  <1> QED BY <1>1, <1>2, PTL DEF Spec

\* m_current_weight is always the weight of what the workers hold, and never
\* exceeds the pool: READY events that are posted again give nothing back twice.
THEOREM WeightCorrect == Spec => []WeightAccounting
  <1>1. SchedInv => WeightAccounting
    BY DEF SchedInv, Weights
  <1> QED BY <1>1, SchedulerInductive, PTL

\* Two workers never load chunks of one Serial part at the same time.
THEOREM SerialCorrect == Spec => []SerialExclusive
  <1>1. SchedInv => SerialExclusive
    <2> SUFFICES ASSUME SchedInv, NEW v \in Workers, NEW w \in Workers,
                        v # w, wpc[v] = "run", wpc[w] = "run",
                        task[v].kind = "chunk", task[w].kind = "chunk",
                        task[v].of = task[w].of, task[v].of \in Serial
                 PROVE  FALSE
      BY DEF SerialExclusive
    <2>1. TypeOK /\ SerialOne /\ OwnersDistinct
      BY DEF SchedInv, IInv, Account, Ledger
    <2>2. Unrun(v) /\ Unrun(w) /\ Owns(v) /\ Owns(w)
      BY DEF Unrun, Owns
    <2>3. task[v].index \in Nat /\ task[w].index \in Nat
      BY <2>1 DEF TypeOK, Tasks
    <2> DEFINE p == task[v].of
               i == task[v].index
               j == task[w].index
    <2>4. WorkOf(v) = <<"chunk", p, i>> /\ WorkOf(w) = <<"chunk", p, j>>
      BY DEF WorkOf
    <2>5. Alive(<<"chunk", p, i>>) /\ Alive(<<"chunk", p, j>>)
      BY <2>2, <2>4 DEF Alive
    <2>6. i = j
      BY <2>1, <2>3, <2>5 DEF SerialOne
    <2> QED BY <2>1, <2>2, <2>4, <2>6 DEF OwnersDistinct
  <1> QED BY <1>1, SchedulerInductive, PTL

\* A table's data is loaded after its DDL, its indexes after all its data, then
\* it is analyzed and its checksums are verified, whichever workers do it.
THEOREM StagesCorrect == Spec => []StageOrder
  <1>1. SchedInv => StageOrder
    <2> SUFFICES ASSUME SchedInv, NEW w \in Workers, wpc[w] = "run"
                 PROVE  LET x == task[w].of
                            t == IF task[w].kind \in {"chunk", "checksum"}
                                 THEN TableOf[x] ELSE x
                        IN  CASE task[w].kind = "chunk" -> <<"ddl", t, 0>> \in ran
                              [] task[w].kind = "index" -> DataRan(t)
                              [] task[w].kind = "analyze" ->
                                   DataRan(t) /\ IndexesRan(t)
                              [] task[w].kind = "checksum" ->
                                   /\ \A i \in 0..(NumChunks[x] - 1) : ChunkRan(x, i)
                                   /\ IndexesRan(t) /\ Analyzed(t)
                              [] OTHER -> TRUE
      BY DEF StageOrder
    <2> DEFINE k == task[w].kind
               x == task[w].of
               n == task[w].index
    <2>1. /\ TypeOK /\ Stages /\ Issued(WorkOf(w)) /\ WorkOf(w) = <<k, x, n>>
          /\ n \in Nat
      BY RunsIssued
    <2>2. ChunkCounts /\ IndexStage /\ AnalyzeStage /\ ChecksumStage
      BY <2>1 DEF Stages
    <2> DEFINE y == WorkOf(w)
    <2>3. y[1] = k /\ y[2] = x /\ y[3] = n
      BY <2>1
    <2> HIDE DEF y
    <2>4. Issued(y)
      BY <2>1 DEF y
    <2> HIDE DEF k, x, n
    <2>5. k = "chunk" => <<"ddl", TableOf[x], 0>> \in ran
      <3> SUFFICES ASSUME k = "chunk" PROVE <<"ddl", TableOf[x], 0>> \in ran
        OBVIOUS
      <3>1. x \in Parts /\ n < consumed[x]
        BY <2>3, <2>4 DEF Issued
      <3>2. consumed[x] \in Nat
        BY <2>1, <3>1 DEF TypeOK
      <3> QED BY <2>1, <2>2, <3>1, <3>2 DEF ChunkCounts
    <2>6. k = "index" => DataRan(x)
      BY <2>2, <2>3, <2>4 DEF Issued, IndexStage
    <2>7. k = "analyze" => DataRan(x) /\ IndexesRan(x)
      BY <2>2, <2>3, <2>4 DEF Issued, AnalyzeStage
    <2>8. k = "checksum" => /\ \A i \in 0..(NumChunks[x] - 1) : ChunkRan(x, i)
                            /\ IndexesRan(TableOf[x]) /\ Analyzed(TableOf[x])
      BY <2>2, <2>3, <2>4 DEF Issued, ChecksumStage
    <2> QED BY <2>5, <2>6, <2>7, <2>8 DEF k, x
  <1> QED BY <1>1, SchedulerInductive, PTL

\* execute_tasks() succeeds only when all the work of the dump was executed.
THEOREM OkCorrect == Spec => []OkMeansAllDone
  <1>1. SchedInv => OkMeansAllDone
    BY DEF SchedInv
  <1> QED BY <1>1, SchedulerInductive, PTL

\* Nothing is executed twice, and nothing that an earlier run has loaded.
THEOREM OnceCorrect == Spec => ExecutedOnce
  <1> DEFINE Once == \A w \in Workers : wpc[w] = "run" /\ wpc'[w] = "end" =>
                       /\ WorkOf(w) \notin ran
                       /\ task[w].kind = "chunk" =>
                            <<task[w].of, task[w].index>> \notin PrevLoaded
  <1>1. SchedInv /\ [Next]_vars => [Once]_vars
    <2> SUFFICES ASSUME SchedInv, NEW w \in Workers, wpc[w] = "run"
                 PROVE  /\ WorkOf(w) \notin ran
                        /\ task[w].kind = "chunk" =>
                             <<task[w].of, task[w].index>> \notin PrevLoaded
      OBVIOUS
    <2> DEFINE y == WorkOf(w)
    <2>1. /\ y \notin ran /\ Issued(y)
          /\ y[1] = task[w].kind /\ y[2] = task[w].of /\ y[3] = task[w].index
      BY RunsIssued
    <2> HIDE DEF y
    <2>2. task[w].kind = "chunk" => <<task[w].of, task[w].index>> \notin PrevLoaded
      BY <2>1 DEF Issued
    <2> QED BY <2>1, <2>2 DEF y
  <1> QED BY <1>1, SchedulerInductive, PTL DEF Spec, ExecutedOnce
=============================================================================
