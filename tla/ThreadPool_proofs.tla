-------------------------- MODULE ThreadPool_proofs --------------------------
(***************************************************************************)
(* Proofs about ThreadPool, for any number of workers and tasks and any    *)
(* use of the pool:                                                        *)
(*                                                                         *)
(*   - DoneCorrect: DONE, and a process() that returns, mean that every    *)
(*     task was processed once;                                            *)
(*   - BookkeepingCorrect: tasks_done() comes after the last add_task();   *)
(*   - FailureShown: the failure of a worker stays visible;                *)
(*   - DestructionCorrect: every thread is joined once.                    *)
(***************************************************************************)
EXTENDS ThreadPool, FiniteSetTheorems, SequenceTheorems, TLAPS

-----------------------------------------------------------------------------
(* Types *)

WorkerPcs == {"none", "pop", "popped", "run", "ran", "leave", "guard", "exit"}
MainPcs   == {"none", "pop", "popped", "run", "ran", "finish", "setdone", "join", "kill",
              "rethrow", "returned", "threw"}
OwnerPcs  == {"start", "async", "add", "process", "poll", "wait", "destroy", "kill",
              "waitasync", "end"}
Pcs       == WorkerPcs \cup MainPcs \cup OwnerPcs

QueuesOK ==
  /\ workerTasks \in [1..4 -> Seq(Tasks)] /\ workerGuards \in Nat
  /\ mainTasks \in Seq(Tasks) /\ mainGuards \in Nat

MembersOK ==
  /\ activeThreads \in Int
  /\ workerInterrupt \in BOOLEAN /\ interruptFlag \in BOOLEAN /\ allPushed \in BOOLEAN
  /\ asyncState \in {"IDLE", "PRODUCING", "PROCESSING", "DONE", "TERMINATED"}
  /\ failed \in SUBSET Workers /\ joined \in SUBSET Workers
  /\ cleared \in BOOLEAN /\ aborted \in BOOLEAN

\* Each thread is in its own code, and runs a task only if it has one.
ThreadsOK ==
  /\ pc \in [Threads -> Pcs]
  /\ es \in [Threads -> {"no", "set", "state", "workers", "main"}]
  /\ got \in [Threads -> Tasks \cup {None}]
  /\ joining \in [{Owner, Main} -> Workers]
  /\ \A w \in Workers : pc[w] \in WorkerPcs
  /\ pc[Main] \in MainPcs /\ pc[Owner] \in OwnerPcs
  /\ \A x \in Threads : pc[x] = "run" => got[x] \in Tasks

CallerOK ==
  /\ use \in Uses /\ added \in SUBSET use.tasks
  /\ taskProducers \in Int /\ processed \in [Tasks -> Nat]

Shape == QueuesOK /\ MembersOK /\ ThreadsOK /\ CallerOK

\* The threads of a pool are different ones.
LEMMA ThreadNames ==
  /\ NumWorkers \in Nat /\ NumWorkers >= 1 /\ Workers = 1..NumWorkers
  /\ Owner \notin Workers /\ Main \notin Workers /\ Owner # Main
  /\ Workers \subseteq Threads /\ Owner \in Threads /\ Main \in Threads
  /\ \A x \in Threads : x \in Workers \/ x = Owner \/ x = Main
  BY PoolAssumption DEF Workers, Owner, Main, Threads

\* The tasks of a use.
LEMMA UseTasks ==
  ASSUME use \in Uses
  PROVE  /\ use.tasks \subseteq Tasks /\ None \notin Tasks
         /\ HasFlag \in BOOLEAN
         /\ "external" \in Faults => HasFlag
         /\ \A t \in Tasks : Priority[t] \in 1..4
  <1>1. use \in Use
    BY PoolAssumption
  <1>2. use.tasks \subseteq Tasks /\ use.hasFlag \in BOOLEAN
    BY <1>1 DEF Use
  <1>3. None \notin Tasks /\ \A t \in Tasks : Priority[t] \in 1..4
    BY PoolAssumption
  <1>4. "external" \in use.faults => use.hasFlag
    BY PoolAssumption
  <1>. QED  BY <1>2, <1>3, <1>4 DEF HasFlag, Faults

\* The pool is created with its threads not yet started.
LEMMA InitShape == Init => Shape
  <1> SUFFICES ASSUME Init PROVE Shape
    OBVIOUS
  <1>1. QueuesOK
    BY DEF Init, QueuesOK
  <1>2. MembersOK
    <2>1. /\ workerInterrupt \in BOOLEAN /\ interruptFlag \in BOOLEAN
          /\ allPushed \in BOOLEAN /\ cleared \in BOOLEAN /\ aborted \in BOOLEAN
      BY Zenon DEF Init
    <2>2. activeThreads \in Int
      BY ThreadNames DEF Init
    <2>3. /\ asyncState \in {"IDLE", "PRODUCING", "PROCESSING", "DONE", "TERMINATED"}
          /\ failed \in SUBSET Workers /\ joined \in SUBSET Workers
      BY DEF Init
    <2>. QED  BY <2>1, <2>2, <2>3 DEF MembersOK
  <1>3. ThreadsOK
    <2>1. pc = [x \in Threads |-> IF x = Owner THEN "start" ELSE "none"]
          /\ es = [x \in Threads |-> "no"] /\ got = [x \in Threads |-> None]
          /\ joining = [x \in {Owner, Main} |-> 1]
      BY DEF Init
    <2>2. 1 \in Workers
      BY ThreadNames
    <2>. QED  BY <2>1, <2>2, ThreadNames DEF ThreadsOK, Pcs, WorkerPcs, MainPcs, OwnerPcs
  <1>4. CallerOK
    BY DEF Init, CallerOK
  <1>. QED  BY <1>1, <1>2, <1>3, <1>4 DEF Shape

\* The deque that pop() takes from.
LEMMA NextPriorityIs ==
  /\ NextPriority \in 0..4
  /\ NextPriority > 0 => workerTasks[NextPriority] # <<>>
  /\ NextPriority = 0 => \A p \in 1..4 : workerTasks[p] = <<>>
  <1> DEFINE ready == {p \in 1..4 : workerTasks[p] # <<>>}
  <1>1. CASE ready = {}
    BY <1>1 DEF NextPriority
  <1>2. CASE ready # {}
    <2>1. \E p \in ready : \A q \in ready : q <= p
      <3>1. ready \subseteq {1, 2, 3, 4}
        OBVIOUS
      <3>2. CASE 4 \in ready
        BY <3>1, <3>2
      <3>3. CASE 4 \notin ready /\ 3 \in ready
        BY <3>1, <3>3
      <3>4. CASE 4 \notin ready /\ 3 \notin ready /\ 2 \in ready
        BY <3>1, <3>4
      <3>5. CASE 4 \notin ready /\ 3 \notin ready /\ 2 \notin ready
        BY <1>2, <3>1, <3>5
      <3>. QED  BY <3>2, <3>3, <3>4, <3>5
    <2>2. NextPriority \in ready
      BY <1>2, <2>1 DEF NextPriority
    <2>. QED  BY <2>2
  <1>. QED  BY <1>1, <1>2

-----------------------------------------------------------------------------
(* The invariant *)

\* Before process_async() nothing has happened yet.
Fresh ==
  pc[Owner] \in {"start", "async"} =>
    /\ \A w \in Workers : pc[w] \in {"none", "pop"}
    /\ pc[Main] = "none"
    /\ \A x \in Threads : es[x] = "no"
    /\ \A p \in 1..4 : workerTasks[p] = <<>>
    /\ workerGuards = 0 /\ ~workerInterrupt /\ failed = {} /\ ~allPushed

\* process() has not been called yet while its caller gets there.
Early ==
  /\ pc[Owner] = "async" => Style # "sync"
  /\ pc[Owner] \in {"start", "async", "process"} => pc[Main] = "none"
  /\ pc[Owner] = "add" /\ Style = "sync" => pc[Main] = "none"

\* emergency_shutdown() goes on only after it has set the flag.
Flagged == \A x \in Threads : es[x] \in {"state", "workers", "main"} => workerInterrupt

\* The workers that m_active_threads counts: those that have not left, and those
\* that failed.
Live == {w \in Workers : pc[w] \notin {"guard", "exit"} \/ w \in failed}

Counted ==
  /\ activeThreads = Cardinality(Live)
  /\ \A w \in failed : pc[w] = "exit"
  /\ \A w \in Workers : pc[w] = "guard" => activeThreads = 0

\* A worker that sees a guard sees it after all the tasks, and process() sees one
\* after all the results, unless the pool is being shut down.
Empty == allPushed /\ \A p \in 1..4 : workerTasks[p] = <<>>
Quiet == activeThreads = 0 /\ mainTasks = <<>>

Guards ==
  /\ workerGuards > 0 => allPushed \/ workerInterrupt
  /\ \A w \in Workers :
        \/ pc[w] = "popped" /\ got[w] = None
        \/ pc[w] = "leave"
        \/ pc[w] \in {"guard", "exit"} /\ w \notin failed
        => Empty \/ Interrupted
  /\ mainGuards > 0 => activeThreads = 0 \/ workerInterrupt
  /\ pc[Main] = "popped" /\ got[Main] = None => Quiet \/ Interrupted
  /\ pc[Main] = "finish" => Quiet \/ Interrupted
  /\ pc[Main] = "setdone" => Quiet

\* A failure is about to be shown in m_async_state, or is.
Shown ==
  /\ failed # {} => (\E x \in Threads : es[x] \in {"set", "state"}) \/ asyncState = "TERMINATED"
  /\ workerInterrupt /\ activeThreads > 0 =>
        (\E x \in Threads : es[x] = "state") \/ asyncState = "TERMINATED"

Has(s, e)   == \E i \in 1..Len(s) : s[i] = e
Distinct(s) == \A i, j \in 1..Len(s) : s[i] = s[j] => i = j

\* Where a task is: waiting for a worker, with one, waiting for process(), in its
\* hands, or finished.
Queued == {t \in Tasks : \E p \in 1..4 : Has(workerTasks[p], t)}
Held   == [w \in Workers |-> {t \in Tasks : pc[w] \in {"popped", "run"} /\ got[w] = t}]
Ready  == {t \in Tasks : Has(mainTasks, t)}
InHand == {t \in Tasks : pc[Main] \in {"popped", "run"} /\ got[Main] = t}
Over   == {t \in Tasks : processed[t] # 0}

\* No queue has a task twice.
Once ==
  /\ \A p \in 1..4 : Distinct(workerTasks[p])
  /\ \A p \in 1..4, t \in Tasks : Has(workerTasks[p], t) => Priority[t] = p
  /\ Distinct(mainTasks)
  /\ \A t \in Tasks : processed[t] \in {0, 1}

\* A task that was added is in one place at most.
Apart ==
  /\ Queued \cup Ready \cup InHand \cup Over \subseteq added
  /\ \A w \in Workers : Held[w] \subseteq added
  /\ \A w \in Workers : Held[w] \cap (Queued \cup Ready \cup InHand \cup Over) = {}
  /\ \A v, w \in Workers : v # w => Held[v] \cap Held[w] = {}
  /\ Queued \cap Ready = {} /\ Queued \cap InHand = {} /\ Queued \cap Over = {}
  /\ Ready \cap InHand = {} /\ Ready \cap Over = {} /\ InHand \cap Over = {}

\* The task is somewhere.
Present(t) == t \in Queued \cup Ready \cup InHand \cup Over \/ \E w \in Workers : t \in Held[w]

Broken == Interrupted \/ failed # {} \/ pc[Main] \in {"kill", "threw"}

\* None is lost unless something failed or was interrupted.
NoneLost == Broken \/ \A t \in added : Present(t)

\* Producing tasks whose process_data has not ended.
Left(t) == processed[t] # 0 \/ (pc[Main] \in {"kill", "threw"} /\ got[Main] = t)
Open    == {t \in added \cap Producers : ~Left(t)}
Unit    == IF \/ pc[Owner] \in {"start", "async", "add"}
              \/ ~StopsEarly /\ ~(Roots \subseteq added)
           THEN 1 ELSE 0

\* task_producers counts them, and the owner while it adds tasks.
Counter ==
  /\ taskProducers >= Unit + Cardinality(Open)
  /\ allPushed => taskProducers = 0
  /\ \A t \in use.tasks : processed[t] # 0 => Children(t) \subseteq added

\* Everything was processed.
Settled == allPushed /\ AllProcessed

Result ==
  /\ pc[Main] = "setdone" => Settled
  /\ asyncState = "DONE" => Settled /\ pc[Main] \in {"join", "rethrow", "returned", "threw"}
  /\ pc[Main] \in {"join", "rethrow"} => Settled \/ Interrupted
  /\ Uninterrupted /\ (workerInterrupt \/ interruptFlag \/ \E x \in Threads : es[x] # "no") =>
        \/ failed # {}
        \/ pc[Main] \in {"kill", "threw"}
        \/ pc[Owner] \in {"kill", "waitasync", "end"}
  /\ pc[Main] = "returned" /\ Uninterrupted =>
        Settled \/ pc[Owner] \in {"kill", "waitasync", "end"}

\* An owner that throws while process_async() runs: then two threads join.
Races == "owner" \in Faults /\ Style # "sync"

\* Otherwise the owner joins only when process() never ran or has joined them all.
Turns ==
  /\ Early
  /\ pc[Owner] = "kill" => pc[Main] = "none"
  /\ pc[Owner] \in {"destroy", "waitasync", "end"} => pc[Main] \in {"none", "returned", "threw"}

\* The workers are joined from the first to the last, by the owner or by process().
Joining ==
  /\ \A w \in joined : At(w, "exit")
  /\ cleared => joined = Workers
  /\ pc[Owner] = "kill" => ~cleared /\ joined = 1..(joining[Owner] - 1)
  /\ pc[Owner] \in {"waitasync", "end"} => cleared
  /\ pc[Owner] \notin {"kill", "waitasync", "end"} =>
        /\ joining[Owner] = 1
        /\ ~cleared => joined = 1..(joining[Main] - 1)
        /\ cleared => pc[Main] \in {"rethrow", "returned", "threw"}
  /\ pc[Main] \in {"rethrow", "returned", "threw"} => cleared
  /\ pc[Main] \notin {"join", "kill", "rethrow", "returned", "threw"} => joining[Main] = 1

Joins == Races \/ (~aborted /\ Turns /\ Joining)

-----------------------------------------------------------------------------
(* Types are kept *)

\* Taking the first element of a sequence, and appending one.
LEMMA SeqParts ==
  ASSUME NEW S, NEW s \in Seq(S)
  PROVE  /\ Len(s) \in Nat
         /\ \A i \in 1..Len(s) : s[i] \in S
         /\ s # <<>> => /\ Head(s) \in S /\ Head(s) = s[1] /\ Tail(s) \in Seq(S)
                        /\ Len(s) > 0 /\ Len(Tail(s)) = Len(s) - 1
                        /\ \A i \in 1..(Len(s) - 1) : Tail(s)[i] = s[i + 1]
         /\ \A e \in S : /\ Append(s, e) \in Seq(S) /\ Len(Append(s, e)) = Len(s) + 1
                         /\ Append(s, e)[Len(s) + 1] = e
                         /\ \A i \in 1..Len(s) : Append(s, e)[i] = s[i]
  OBVIOUS

\* What pop() of the workers' queue does.
LEMMA PopIs ==
  ASSUME Shape, NEW w \in Workers, PopWorkerTasks(w)
  PROVE  \/ \E p \in 1..4 :
              /\ workerTasks[p] # <<>> /\ workerTasks[p] \in Seq(Tasks)
              /\ got' = [got EXCEPT ![w] = Head(workerTasks[p])]
              /\ workerTasks' = [workerTasks EXCEPT ![p] = Tail(workerTasks[p])]
              /\ workerGuards' = workerGuards
         \/ /\ \A p \in 1..4 : workerTasks[p] = <<>>
            /\ workerGuards > 0 /\ workerGuards' = workerGuards - 1
            /\ got' = [got EXCEPT ![w] = None]
            /\ workerTasks' = workerTasks
  <1>1. NextPriority \in 0..4 /\ (NextPriority > 0 => workerTasks[NextPriority] # <<>>)
        /\ (NextPriority = 0 => \A p \in 1..4 : workerTasks[p] = <<>>)
    BY NextPriorityIs
  <1>2. workerTasks \in [1..4 -> Seq(Tasks)]
    BY DEF Shape, QueuesOK
  <1>3. CASE NextPriority > 0
    <2>1. /\ got' = [got EXCEPT ![w] = Head(workerTasks[NextPriority])]
          /\ workerTasks' = [workerTasks EXCEPT ![NextPriority] = Tail(@)]
          /\ workerGuards' = workerGuards
      BY <1>3 DEF PopWorkerTasks
    <2>2. NextPriority \in 1..4
      BY <1>1, <1>3
    <2>. HIDE DEF NextPriority
    <2>. QED  BY <1>1, <1>2, <1>3, <2>1, <2>2
  <1>4. CASE NextPriority = 0
    BY <1>1, <1>4 DEF PopWorkerTasks
  <1>. QED  BY <1>1, <1>3, <1>4

\* A thread moves within its own code.
LEMMA Moves ==
  ASSUME ThreadsOK, NEW x \in Threads, NEW l, pc' = [pc EXCEPT ![x] = l],
         x \in Workers => l \in WorkerPcs,
         x = Main => l \in MainPcs,
         x = Owner => l \in OwnerPcs
  PROVE  /\ pc' \in [Threads -> Pcs] /\ pc'[x] = l
         /\ \A y \in Threads : y # x => pc'[y] = pc[y]
         /\ \A w \in Workers : pc'[w] \in WorkerPcs
         /\ pc'[Main] \in MainPcs /\ pc'[Owner] \in OwnerPcs
  <1>1. pc \in [Threads -> Pcs] /\ l \in Pcs
    BY ThreadNames DEF ThreadsOK, Pcs
  <1>2. pc' \in [Threads -> Pcs] /\ pc'[x] = l /\ \A y \in Threads : y # x => pc'[y] = pc[y]
    BY <1>1
  <1>. QED  BY <1>2, ThreadNames DEF ThreadsOK

\* The queues.
LEMMA QueuesStep == Shape /\ [Next]_vars => QueuesOK'
  <1> SUFFICES ASSUME Shape, [Next]_vars PROVE QueuesOK'
    OBVIOUS
  <1>1. ASSUME NEW x \in Threads, SetInterrupt(x), UNCHANGED use PROVE QueuesOK'
    BY <1>1 DEF Shape, QueuesOK, SetInterrupt, queues
  <1>2. ASSUME NEW x \in Threads, SetTerminated(x), UNCHANGED use PROVE QueuesOK'
    BY <1>2 DEF Shape, QueuesOK, SetTerminated, queues
  <1>3. ASSUME NEW x \in Threads, ShutdownWorkers(x), UNCHANGED use PROVE QueuesOK'
    BY <1>3, ThreadNames DEF Shape, QueuesOK, ShutdownWorkers
  <1>4. ASSUME NEW x \in Threads, ShutdownMain(x), UNCHANGED use PROVE QueuesOK'
    BY <1>4 DEF Shape, QueuesOK, ShutdownMain
  <1>5. ASSUME NEW w \in Workers, WorkerPop(w), UNCHANGED use PROVE QueuesOK'
    <2>1. PopWorkerTasks(w) /\ UNCHANGED <<mainTasks, mainGuards>>
      BY <1>5 DEF WorkerPop
    <2>2. workerTasks \in [1..4 -> Seq(Tasks)] /\ workerGuards \in Nat
          /\ mainTasks \in Seq(Tasks) /\ mainGuards \in Nat
      BY DEF Shape, QueuesOK
    <2>3. CASE \E p \in 1..4 :
                 /\ workerTasks[p] # <<>> /\ workerTasks[p] \in Seq(Tasks)
                 /\ workerTasks' = [workerTasks EXCEPT ![p] = Tail(workerTasks[p])]
                 /\ workerGuards' = workerGuards
      BY <2>1, <2>2, <2>3, SeqParts DEF QueuesOK
    <2>4. CASE workerTasks' = workerTasks /\ workerGuards > 0 /\ workerGuards' = workerGuards - 1
      BY <2>1, <2>2, <2>4 DEF QueuesOK
    <2>. QED  BY <2>1, <2>3, <2>4, PopIs
  <1>6. ASSUME NEW w \in Workers, WorkerCheck(w), UNCHANGED use PROVE QueuesOK'
    BY <1>6 DEF Shape, QueuesOK, WorkerCheck, queues
  <1>7. ASSUME NEW w \in Workers, Produce(w), UNCHANGED use PROVE QueuesOK'
    <2>1. got[w] \in Tasks
      BY <1>7, ThreadNames DEF Shape, ThreadsOK, Produce, At
    <2>. QED  BY <1>7, <2>1 DEF Shape, QueuesOK, Produce
  <1>8. ASSUME NEW w \in Workers, ProduceThrows(w), UNCHANGED use PROVE QueuesOK'
    BY <1>8 DEF Shape, QueuesOK, ProduceThrows, queues
  <1>9. ASSUME NEW w \in Workers, WorkerAgain(w), UNCHANGED use PROVE QueuesOK'
    BY <1>9 DEF Shape, QueuesOK, WorkerAgain, queues
  <1>10. ASSUME NEW w \in Workers, WorkerLeave(w), UNCHANGED use PROVE QueuesOK'
    BY <1>10 DEF Shape, QueuesOK, WorkerLeave, queues
  <1>11. ASSUME NEW w \in Workers, WorkerGuard(w), UNCHANGED use PROVE QueuesOK'
    BY <1>11 DEF Shape, QueuesOK, WorkerGuard
  <1>12. ASSUME NEW x \in Threads, Join(x), UNCHANGED use PROVE QueuesOK'
    BY <1>12 DEF Shape, QueuesOK, Join, queues
  <1>13. ASSUME NEW x \in Threads, JoinThrows(x), UNCHANGED use PROVE QueuesOK'
    BY <1>13 DEF Shape, QueuesOK, JoinThrows, queues
  <1>14. ASSUME MainPop, UNCHANGED use PROVE QueuesOK'
    <2>1. mainTasks \in Seq(Tasks) /\ mainGuards \in Nat
      BY DEF Shape, QueuesOK
    <2>2. mainTasks' \in Seq(Tasks) /\ mainGuards' \in Nat
      <3>1. mainTasks # <<>> => Tail(mainTasks) \in Seq(Tasks)
        BY <2>1, SeqParts
      <3>2. CASE mainTasks # <<>>
        BY <1>14, <2>1, <3>1, <3>2 DEF MainPop, PopMainTasks
      <3>3. CASE mainTasks = <<>>
        BY <1>14, <2>1, <3>3 DEF MainPop, PopMainTasks
      <3>. QED  BY <3>2, <3>3
    <2>. QED  BY <1>14, <2>2 DEF Shape, QueuesOK, MainPop
  <1>15. ASSUME MainCheck, UNCHANGED use PROVE QueuesOK'
    BY <1>15 DEF Shape, QueuesOK, MainCheck, queues
  <1>16. ASSUME NEW t \in use.tasks, ProcessAdds(t), UNCHANGED use PROVE QueuesOK'
    <2>1. t \in Tasks /\ Priority[t] \in 1..4
      BY UseTasks DEF Shape, CallerOK
    <2>2. workerTasks \in [1..4 -> Seq(Tasks)]
      BY DEF Shape, QueuesOK
    <2>3. workerTasks' = [workerTasks EXCEPT ![Priority[t]] = Append(@, t)]
      BY <1>16 DEF ProcessAdds, AddTask
    <2>4. workerTasks' \in [1..4 -> Seq(Tasks)]
      BY <2>1, <2>2, <2>3
    <2>. QED  BY <1>16, <2>4 DEF Shape, QueuesOK, ProcessAdds
  <1>17. ASSUME Process, UNCHANGED use PROVE QueuesOK'
    BY <1>17, ThreadNames DEF Shape, QueuesOK, Process, LeaveTask, MaybeTasksDone
  <1>18. ASSUME ProcessThrows, UNCHANGED use PROVE QueuesOK'
    BY <1>18, ThreadNames DEF Shape, QueuesOK, ProcessThrows, LeaveTask,
       MaybeTasksDone
  <1>19. ASSUME MainAgain, UNCHANGED use PROVE QueuesOK'
    BY <1>19 DEF Shape, QueuesOK, MainAgain, queues
  <1>20. ASSUME MainFinish, UNCHANGED use PROVE QueuesOK'
    BY <1>20 DEF Shape, QueuesOK, MainFinish, queues
  <1>21. ASSUME MainSetDone, UNCHANGED use PROVE QueuesOK'
    BY <1>21 DEF Shape, QueuesOK, MainSetDone, queues
  <1>22. ASSUME MainRethrow, UNCHANGED use PROVE QueuesOK'
    BY <1>22 DEF Shape, QueuesOK, MainRethrow, queues
  <1>23. ASSUME StartThreads, UNCHANGED use PROVE QueuesOK'
    BY <1>23 DEF Shape, QueuesOK, StartThreads, queues
  <1>24. ASSUME ProcessAsync, UNCHANGED use PROVE QueuesOK'
    BY <1>24 DEF Shape, QueuesOK, ProcessAsync, queues
  <1>25. ASSUME NEW t \in use.tasks, OwnerAdd(t), UNCHANGED use PROVE QueuesOK'
    <2>1. t \in Tasks /\ Priority[t] \in 1..4
      BY UseTasks DEF Shape, CallerOK
    <2>2. workerTasks \in [1..4 -> Seq(Tasks)]
      BY DEF Shape, QueuesOK
    <2>3. workerTasks' = [workerTasks EXCEPT ![Priority[t]] = Append(@, t)]
      BY <1>25 DEF OwnerAdd, AddTask
    <2>4. workerTasks' \in [1..4 -> Seq(Tasks)]
      BY <2>1, <2>2, <2>3
    <2>. QED  BY <1>25, <2>4 DEF Shape, QueuesOK, OwnerAdd
  <1>26. ASSUME OwnerTasksDone, UNCHANGED use PROVE QueuesOK'
    BY <1>26, ThreadNames DEF Shape, QueuesOK, OwnerTasksDone, MaybeTasksDone
  <1>27. ASSUME OwnerProcess, UNCHANGED use PROVE QueuesOK'
    BY <1>27 DEF Shape, QueuesOK, OwnerProcess, queues
  <1>28. ASSUME OwnerPolled, UNCHANGED use PROVE QueuesOK'
    BY <1>28 DEF Shape, QueuesOK, OwnerPolled, queues
  <1>29. ASSUME OwnerTerminate, UNCHANGED use PROVE QueuesOK'
    BY <1>29 DEF Shape, QueuesOK, OwnerTerminate, queues
  <1>30. ASSUME OwnerWait, UNCHANGED use PROVE QueuesOK'
    BY <1>30 DEF Shape, QueuesOK, OwnerWait, queues
  <1>31. ASSUME OwnerThrows, UNCHANGED use PROVE QueuesOK'
    BY <1>31 DEF Shape, QueuesOK, OwnerThrows, queues
  <1>32. ASSUME Destroy, UNCHANGED use PROVE QueuesOK'
    BY <1>32 DEF Shape, QueuesOK, Destroy, queues
  <1>33. ASSUME WaitForAsyncThread, UNCHANGED use PROVE QueuesOK'
    BY <1>33 DEF Shape, QueuesOK, WaitForAsyncThread, queues
  <1>34. ASSUME External, UNCHANGED use PROVE QueuesOK'
    BY <1>34 DEF Shape, QueuesOK, External, queues
  <1>35. CASE UNCHANGED vars
    BY <1>35 DEF Shape, QueuesOK, vars, queues
  <1>. QED  BY <1>1, <1>2, <1>3, <1>4, <1>5, <1>6, <1>7, <1>8, <1>9, <1>10, <1>11, <1>12,
               <1>13, <1>14, <1>15, <1>16, <1>17, <1>18, <1>19, <1>20, <1>21, <1>22, <1>23,
               <1>24, <1>25, <1>26, <1>27, <1>28, <1>29, <1>30, <1>31, <1>32, <1>33, <1>34,
               <1>35 DEF Next, Step, ThreadStep, EmergencyShutdown, WorkerStep, MainStep,
               OwnerStep

\* The members of the pool.
LEMMA MembersStep == Shape /\ [Next]_vars => MembersOK'
  <1> SUFFICES ASSUME Shape, [Next]_vars PROVE MembersOK'
    OBVIOUS
  <1>1. ASSUME NEW x \in Threads, SetInterrupt(x), UNCHANGED use PROVE MembersOK'
    <2>1. workerInterrupt' \in BOOLEAN /\ interruptFlag' \in BOOLEAN
      <3>1. HasFlag \in BOOLEAN /\ interruptFlag \in BOOLEAN
        BY UseTasks DEF Shape, CallerOK, MembersOK
      <3>2. workerInterrupt' = TRUE /\ interruptFlag' = (HasFlag \/ interruptFlag)
        BY <1>1 DEF SetInterrupt
      <3>. QED  BY <3>1, <3>2, Zenon
    <2>2. UNCHANGED <<members, aborted>>
      BY <1>1 DEF SetInterrupt
    <2>. QED  BY <2>1, <2>2 DEF Shape, MembersOK, members
  <1>2. ASSUME NEW x \in Threads, SetTerminated(x), UNCHANGED use PROVE MembersOK'
    BY <1>2 DEF Shape, MembersOK, SetTerminated, flags, members, threads
  <1>3. ASSUME NEW x \in Threads, ShutdownWorkers(x), UNCHANGED use PROVE MembersOK'
    BY <1>3 DEF Shape, MembersOK, ShutdownWorkers, flags, members, threads
  <1>4. ASSUME NEW x \in Threads, ShutdownMain(x), UNCHANGED use PROVE MembersOK'
    BY <1>4 DEF Shape, MembersOK, ShutdownMain, flags, members, threads
  <1>5. ASSUME NEW w \in Workers, WorkerPop(w), UNCHANGED use PROVE MembersOK'
    BY <1>5 DEF Shape, MembersOK, WorkerPop, flags, members, threads
  <1>6. ASSUME NEW w \in Workers, WorkerCheck(w), UNCHANGED use PROVE MembersOK'
    BY <1>6 DEF Shape, MembersOK, WorkerCheck, flags, members, threads
  <1>7. ASSUME NEW w \in Workers, Produce(w), UNCHANGED use PROVE MembersOK'
    BY <1>7 DEF Shape, MembersOK, Produce, flags, members, threads
  <1>8. ASSUME NEW w \in Workers, ProduceThrows(w), UNCHANGED use PROVE MembersOK'
    BY <1>8 DEF Shape, MembersOK, ProduceThrows, flags, members, threads
  <1>9. ASSUME NEW w \in Workers, WorkerAgain(w), UNCHANGED use PROVE MembersOK'
    BY <1>9 DEF Shape, MembersOK, WorkerAgain, flags, members, threads
  <1>10. ASSUME NEW w \in Workers, WorkerLeave(w), UNCHANGED use PROVE MembersOK'
    BY <1>10 DEF Shape, MembersOK, WorkerLeave, flags, members, threads
  <1>11. ASSUME NEW w \in Workers, WorkerGuard(w), UNCHANGED use PROVE MembersOK'
    BY <1>11 DEF Shape, MembersOK, WorkerGuard, flags, members, threads
  <1>12. ASSUME NEW x \in Threads, Join(x), UNCHANGED use PROVE MembersOK'
    <2>1. joining[x] \in Workers /\ joined \in SUBSET Workers
      BY <1>12 DEF Join, Shape, ThreadsOK, MembersOK
    <2>2. joined' \in SUBSET Workers
      BY <1>12, <2>1 DEF Join
    <2>3. cleared' \in BOOLEAN
      BY <1>12, Zenon DEF Join, Shape, MembersOK
    <2>. QED  BY <1>12, <2>2, <2>3 DEF Shape, MembersOK, Join, flags
  <1>13. ASSUME NEW x \in Threads, JoinThrows(x), UNCHANGED use PROVE MembersOK'
    <2>1. aborted' \in BOOLEAN
      BY <1>13, Zenon DEF JoinThrows, Shape, MembersOK
    <2>. QED  BY <1>13, <2>1 DEF Shape, MembersOK, JoinThrows, flags, members
  <1>14. ASSUME MainPop, UNCHANGED use PROVE MembersOK'
    BY <1>14 DEF Shape, MembersOK, MainPop, flags, members, threads
  <1>15. ASSUME MainCheck, UNCHANGED use PROVE MembersOK'
    BY <1>15 DEF Shape, MembersOK, MainCheck, flags, members, threads
  <1>16. ASSUME NEW t \in use.tasks, ProcessAdds(t), UNCHANGED use PROVE MembersOK'
    BY <1>16 DEF Shape, MembersOK, ProcessAdds, flags, members, threads
  <1>17. ASSUME Process, UNCHANGED use PROVE MembersOK'
    <2>1. allPushed' \in BOOLEAN
      BY <1>17, Zenon DEF Process, LeaveTask, MaybeTasksDone, Shape, MembersOK
    <2>. QED  BY <1>17, <2>1 DEF Shape, MembersOK, Process, flags
  <1>18. ASSUME ProcessThrows, UNCHANGED use PROVE MembersOK'
    <2>1. allPushed' \in BOOLEAN
      BY <1>18, Zenon DEF ProcessThrows, LeaveTask, MaybeTasksDone, Shape,
         MembersOK
    <2>. QED  BY <1>18, <2>1 DEF Shape, MembersOK, ProcessThrows, flags
  <1>19. ASSUME MainAgain, UNCHANGED use PROVE MembersOK'
    BY <1>19 DEF Shape, MembersOK, MainAgain, flags, members, threads
  <1>20. ASSUME MainFinish, UNCHANGED use PROVE MembersOK'
    BY <1>20 DEF Shape, MembersOK, MainFinish, flags, members, threads
  <1>21. ASSUME MainSetDone, UNCHANGED use PROVE MembersOK'
    BY <1>21 DEF Shape, MembersOK, MainSetDone, flags, members, threads
  <1>22. ASSUME MainRethrow, UNCHANGED use PROVE MembersOK'
    BY <1>22 DEF Shape, MembersOK, MainRethrow, flags, members, threads
  <1>23. ASSUME StartThreads, UNCHANGED use PROVE MembersOK'
    BY <1>23 DEF Shape, MembersOK, StartThreads, flags, members, threads
  <1>24. ASSUME ProcessAsync, UNCHANGED use PROVE MembersOK'
    BY <1>24 DEF Shape, MembersOK, ProcessAsync, flags, members, threads
  <1>25. ASSUME NEW t \in use.tasks, OwnerAdd(t), UNCHANGED use PROVE MembersOK'
    BY <1>25 DEF Shape, MembersOK, OwnerAdd, flags, members, threads
  <1>26. ASSUME OwnerTasksDone, UNCHANGED use PROVE MembersOK'
    <2>1. allPushed' \in BOOLEAN
      BY <1>26, Zenon DEF OwnerTasksDone, MaybeTasksDone, Shape, MembersOK
    <2>. QED  BY <1>26, <2>1 DEF Shape, MembersOK, OwnerTasksDone, flags
  <1>27. ASSUME OwnerProcess, UNCHANGED use PROVE MembersOK'
    BY <1>27 DEF Shape, MembersOK, OwnerProcess, flags, members, threads
  <1>28. ASSUME OwnerPolled, UNCHANGED use PROVE MembersOK'
    BY <1>28 DEF Shape, MembersOK, OwnerPolled, flags, members, threads
  <1>29. ASSUME OwnerTerminate, UNCHANGED use PROVE MembersOK'
    BY <1>29 DEF Shape, MembersOK, OwnerTerminate, flags, members, threads
  <1>30. ASSUME OwnerWait, UNCHANGED use PROVE MembersOK'
    BY <1>30 DEF Shape, MembersOK, OwnerWait, flags, members, threads
  <1>31. ASSUME OwnerThrows, UNCHANGED use PROVE MembersOK'
    BY <1>31 DEF Shape, MembersOK, OwnerThrows, flags, members, threads
  <1>32. ASSUME Destroy, UNCHANGED use PROVE MembersOK'
    BY <1>32 DEF Shape, MembersOK, Destroy, flags, members, threads
  <1>33. ASSUME WaitForAsyncThread, UNCHANGED use PROVE MembersOK'
    BY <1>33 DEF Shape, MembersOK, WaitForAsyncThread, flags, members, threads
  <1>34. ASSUME External, UNCHANGED use PROVE MembersOK'
    <2>1. interruptFlag' \in BOOLEAN
      BY <1>34, Zenon DEF External
    <2>. QED  BY <1>34, <2>1 DEF Shape, MembersOK, External, members, threads
  <1>35. CASE UNCHANGED vars
    BY <1>35 DEF Shape, MembersOK, vars, flags, members, threads
  <1>. QED  BY <1>1, <1>2, <1>3, <1>4, <1>5, <1>6, <1>7, <1>8, <1>9, <1>10, <1>11, <1>12,
               <1>13, <1>14, <1>15, <1>16, <1>17, <1>18, <1>19, <1>20, <1>21, <1>22, <1>23,
               <1>24, <1>25, <1>26, <1>27, <1>28, <1>29, <1>30, <1>31, <1>32, <1>33, <1>34,
               <1>35 DEF Next, Step, ThreadStep, EmergencyShutdown, WorkerStep, MainStep,
               OwnerStep

\* The caller's own bookkeeping.
LEMMA CallerStep == Shape /\ [Next]_vars => CallerOK'
  <1> SUFFICES ASSUME Shape, [Next]_vars PROVE CallerOK'
    OBVIOUS
  <1>1. ASSUME NEW x \in Threads, SetInterrupt(x), UNCHANGED use PROVE CallerOK'
    BY <1>1 DEF Shape, CallerOK, SetInterrupt, caller
  <1>2. ASSUME NEW x \in Threads, SetTerminated(x), UNCHANGED use PROVE CallerOK'
    BY <1>2 DEF Shape, CallerOK, SetTerminated, caller
  <1>3. ASSUME NEW x \in Threads, ShutdownWorkers(x), UNCHANGED use PROVE CallerOK'
    BY <1>3 DEF Shape, CallerOK, ShutdownWorkers, caller
  <1>4. ASSUME NEW x \in Threads, ShutdownMain(x), UNCHANGED use PROVE CallerOK'
    BY <1>4 DEF Shape, CallerOK, ShutdownMain, caller
  <1>5. ASSUME NEW w \in Workers, WorkerPop(w), UNCHANGED use PROVE CallerOK'
    BY <1>5 DEF Shape, CallerOK, WorkerPop, caller
  <1>6. ASSUME NEW w \in Workers, WorkerCheck(w), UNCHANGED use PROVE CallerOK'
    BY <1>6 DEF Shape, CallerOK, WorkerCheck, caller
  <1>7. ASSUME NEW w \in Workers, Produce(w), UNCHANGED use PROVE CallerOK'
    BY <1>7 DEF Shape, CallerOK, Produce, caller
  <1>8. ASSUME NEW w \in Workers, ProduceThrows(w), UNCHANGED use PROVE CallerOK'
    BY <1>8 DEF Shape, CallerOK, ProduceThrows, caller
  <1>9. ASSUME NEW w \in Workers, WorkerAgain(w), UNCHANGED use PROVE CallerOK'
    BY <1>9 DEF Shape, CallerOK, WorkerAgain, caller
  <1>10. ASSUME NEW w \in Workers, WorkerLeave(w), UNCHANGED use PROVE CallerOK'
    BY <1>10 DEF Shape, CallerOK, WorkerLeave, caller
  <1>11. ASSUME NEW w \in Workers, WorkerGuard(w), UNCHANGED use PROVE CallerOK'
    BY <1>11 DEF Shape, CallerOK, WorkerGuard, caller
  <1>12. ASSUME NEW x \in Threads, Join(x), UNCHANGED use PROVE CallerOK'
    BY <1>12 DEF Shape, CallerOK, Join, caller
  <1>13. ASSUME NEW x \in Threads, JoinThrows(x), UNCHANGED use PROVE CallerOK'
    BY <1>13 DEF Shape, CallerOK, JoinThrows, caller
  <1>14. ASSUME MainPop, UNCHANGED use PROVE CallerOK'
    BY <1>14 DEF Shape, CallerOK, MainPop, caller
  <1>15. ASSUME MainCheck, UNCHANGED use PROVE CallerOK'
    BY <1>15 DEF Shape, CallerOK, MainCheck, caller
  <1>16. ASSUME NEW t \in use.tasks, ProcessAdds(t), UNCHANGED use PROVE CallerOK'
    BY <1>16 DEF Shape, CallerOK, ProcessAdds, AddTask
  <1>17. ASSUME Process, UNCHANGED use PROVE CallerOK'
    <2>1. taskProducers' \in Int
      BY <1>17 DEF Process, LeaveTask, MaybeTasksDone, Shape, CallerOK
    <2>2. processed' \in [Tasks -> Nat]
      <3>1. got[Main] \in Tasks
        BY <1>17, ThreadNames DEF Process, At, Shape, ThreadsOK
      <3>. QED  BY <1>17, <3>1 DEF Process, Shape, CallerOK
    <2>. QED  BY <1>17, <2>1, <2>2 DEF Shape, CallerOK, Process
  <1>18. ASSUME ProcessThrows, UNCHANGED use PROVE CallerOK'
    <2>1. taskProducers' \in Int
      BY <1>18 DEF ProcessThrows, LeaveTask, MaybeTasksDone, Shape, CallerOK
    <2>. QED  BY <1>18, <2>1 DEF Shape, CallerOK, ProcessThrows
  <1>19. ASSUME MainAgain, UNCHANGED use PROVE CallerOK'
    BY <1>19 DEF Shape, CallerOK, MainAgain, caller
  <1>20. ASSUME MainFinish, UNCHANGED use PROVE CallerOK'
    BY <1>20 DEF Shape, CallerOK, MainFinish, caller
  <1>21. ASSUME MainSetDone, UNCHANGED use PROVE CallerOK'
    BY <1>21 DEF Shape, CallerOK, MainSetDone, caller
  <1>22. ASSUME MainRethrow, UNCHANGED use PROVE CallerOK'
    BY <1>22 DEF Shape, CallerOK, MainRethrow, caller
  <1>23. ASSUME StartThreads, UNCHANGED use PROVE CallerOK'
    BY <1>23 DEF Shape, CallerOK, StartThreads, caller
  <1>24. ASSUME ProcessAsync, UNCHANGED use PROVE CallerOK'
    BY <1>24 DEF Shape, CallerOK, ProcessAsync, caller
  <1>25. ASSUME NEW t \in use.tasks, OwnerAdd(t), UNCHANGED use PROVE CallerOK'
    BY <1>25 DEF Shape, CallerOK, OwnerAdd, AddTask
  <1>26. ASSUME OwnerTasksDone, UNCHANGED use PROVE CallerOK'
    <2>1. taskProducers' \in Int
      BY <1>26 DEF OwnerTasksDone, MaybeTasksDone, Shape, CallerOK
    <2>. QED  BY <1>26, <2>1 DEF Shape, CallerOK, OwnerTasksDone
  <1>27. ASSUME OwnerProcess, UNCHANGED use PROVE CallerOK'
    BY <1>27 DEF Shape, CallerOK, OwnerProcess, caller
  <1>28. ASSUME OwnerPolled, UNCHANGED use PROVE CallerOK'
    BY <1>28 DEF Shape, CallerOK, OwnerPolled, caller
  <1>29. ASSUME OwnerTerminate, UNCHANGED use PROVE CallerOK'
    BY <1>29 DEF Shape, CallerOK, OwnerTerminate, caller
  <1>30. ASSUME OwnerWait, UNCHANGED use PROVE CallerOK'
    BY <1>30 DEF Shape, CallerOK, OwnerWait, caller
  <1>31. ASSUME OwnerThrows, UNCHANGED use PROVE CallerOK'
    BY <1>31 DEF Shape, CallerOK, OwnerThrows, caller
  <1>32. ASSUME Destroy, UNCHANGED use PROVE CallerOK'
    BY <1>32 DEF Shape, CallerOK, Destroy, caller
  <1>33. ASSUME WaitForAsyncThread, UNCHANGED use PROVE CallerOK'
    BY <1>33 DEF Shape, CallerOK, WaitForAsyncThread, caller
  <1>34. ASSUME External, UNCHANGED use PROVE CallerOK'
    BY <1>34 DEF Shape, CallerOK, External, caller
  <1>35. CASE UNCHANGED vars
    BY <1>35 DEF Shape, CallerOK, vars, caller
  <1>. QED  BY <1>1, <1>2, <1>3, <1>4, <1>5, <1>6, <1>7, <1>8, <1>9, <1>10, <1>11, <1>12,
               <1>13, <1>14, <1>15, <1>16, <1>17, <1>18, <1>19, <1>20, <1>21, <1>22, <1>23,
               <1>24, <1>25, <1>26, <1>27, <1>28, <1>29, <1>30, <1>31, <1>32, <1>33, <1>34,
               <1>35 DEF Next, Step, ThreadStep, EmergencyShutdown, WorkerStep, MainStep,
               OwnerStep

\* One thread moves, and the tasks of the others stay.
LEMMA ThreadsKept ==
  ASSUME ThreadsOK, NEW x \in Threads, NEW l, pc' = [pc EXCEPT ![x] = l],
         x \in Workers => l \in WorkerPcs,
         x = Main => l \in MainPcs,
         x = Owner => l \in OwnerPcs,
         es' \in [Threads -> {"no", "set", "state", "workers", "main"}],
         got' \in [Threads -> Tasks \cup {None}],
         \A y \in Threads : y # x => got'[y] = got[y],
         l = "run" => got'[x] \in Tasks,
         joining' \in [{Owner, Main} -> Workers]
  PROVE  ThreadsOK'
  <1>1. /\ pc' \in [Threads -> Pcs] /\ pc'[x] = l
        /\ \A y \in Threads : y # x => pc'[y] = pc[y]
        /\ \A w \in Workers : pc'[w] \in WorkerPcs
        /\ pc'[Main] \in MainPcs /\ pc'[Owner] \in OwnerPcs
    BY Moves
  <1>2. \A y \in Threads : pc'[y] = "run" => got'[y] \in Tasks
    BY <1>1 DEF ThreadsOK
  <1>. QED  BY <1>1, <1>2 DEF ThreadsOK

\* The call of emergency_shutdown().
LEMMA EmergencyIs ==
  ASSUME ThreadsOK, NEW x \in Threads, Emergency(x)
  PROVE  /\ es' \in [Threads -> {"no", "set", "state", "workers", "main"}]
         /\ es'[x] \in {"no", "set"} /\ (workerInterrupt <=> es'[x] = "no")
         /\ \A y \in Threads : y # x => es'[y] = es[y]
  BY DEF Emergency, ThreadsOK

\* The threads.
LEMMA ThreadsStep == Shape /\ [Next]_vars => ThreadsOK'
  <1> SUFFICES ASSUME Shape, [Next]_vars PROVE ThreadsOK'
    OBVIOUS
  <1>1. ASSUME NEW x \in Threads, SetInterrupt(x), UNCHANGED use PROVE ThreadsOK'
    <2>1. es' \in [Threads -> {"no", "set", "state", "workers", "main"}]
      BY <1>1 DEF SetInterrupt, Shape, ThreadsOK
    <2>. QED  BY <1>1, <2>1 DEF Shape, ThreadsOK, SetInterrupt
  <1>2. ASSUME NEW x \in Threads, SetTerminated(x), UNCHANGED use PROVE ThreadsOK'
    <2>1. es' \in [Threads -> {"no", "set", "state", "workers", "main"}]
      BY <1>2 DEF SetTerminated, Shape, ThreadsOK
    <2>. QED  BY <1>2, <2>1 DEF Shape, ThreadsOK, SetTerminated
  <1>3. ASSUME NEW x \in Threads, ShutdownWorkers(x), UNCHANGED use PROVE ThreadsOK'
    <2>1. es' \in [Threads -> {"no", "set", "state", "workers", "main"}]
      BY <1>3 DEF ShutdownWorkers, Shape, ThreadsOK
    <2>. QED  BY <1>3, <2>1 DEF Shape, ThreadsOK, ShutdownWorkers
  <1>4. ASSUME NEW x \in Threads, ShutdownMain(x), UNCHANGED use PROVE ThreadsOK'
    <2>1. es' \in [Threads -> {"no", "set", "state", "workers", "main"}]
      BY <1>4 DEF ShutdownMain, Shape, ThreadsOK
    <2>. QED  BY <1>4, <2>1 DEF Shape, ThreadsOK, ShutdownMain
  <1>5. ASSUME NEW w \in Workers, WorkerPop(w), UNCHANGED use PROVE ThreadsOK'
    <2> DEFINE l == "popped"
    <2>1. pc' = [pc EXCEPT ![w] = l] /\ joining' = joining
      BY <1>5 DEF WorkerPop, Goto
    <2>2. l \in WorkerPcs
      BY DEF WorkerPcs
    <2>3. es' \in [Threads -> {"no", "set", "state", "workers", "main"}]
      BY <1>5 DEF WorkerPop, Shape, ThreadsOK
    <2>4. /\ got' \in [Threads -> Tasks \cup {None}]
          /\ \A y \in Threads : y # w => got'[y] = got[y]
      <3>1. PopWorkerTasks(w) /\ got \in [Threads -> Tasks \cup {None}] /\ w \in Threads
        BY <1>5, ThreadNames DEF WorkerPop, Shape, ThreadsOK
      <3>2. PICK e : got' = [got EXCEPT ![w] = e] /\ e \in Tasks \cup {None}
        BY <3>1, PopIs, SeqParts
      <3>. QED  BY <3>1, <3>2
    <2>5. l # "run"
      OBVIOUS
    <2>6. joining' \in [{Owner, Main} -> Workers] /\ w \in Threads /\ ThreadsOK
      BY <2>1, ThreadNames DEF Shape, ThreadsOK
    <2>. HIDE DEF l
    <2>. QED  BY <2>1, <2>2, <2>3, <2>4, <2>5, <2>6, ThreadsKept, ThreadNames
  <1>6. ASSUME NEW w \in Workers, WorkerCheck(w), UNCHANGED use PROVE ThreadsOK'
    <2> DEFINE l == IF Interrupted \/ got[w] = None THEN "leave" ELSE "run"
    <2>1. pc' = [pc EXCEPT ![w] = l] /\ joining' = joining
      BY <1>6 DEF WorkerCheck, Goto
    <2>2. l \in WorkerPcs
      BY DEF WorkerPcs
    <2>3. es' \in [Threads -> {"no", "set", "state", "workers", "main"}]
      BY <1>6 DEF WorkerCheck, Shape, ThreadsOK
    <2>4. /\ got' \in [Threads -> Tasks \cup {None}]
          /\ \A y \in Threads : y # w => got'[y] = got[y]
      BY <1>6 DEF WorkerCheck, Shape, ThreadsOK
    <2>5. l = "run" => got'[w] \in Tasks
      BY <1>6, ThreadNames DEF WorkerCheck, Shape, ThreadsOK
    <2>6. joining' \in [{Owner, Main} -> Workers] /\ w \in Threads /\ ThreadsOK
      BY <2>1, ThreadNames DEF Shape, ThreadsOK
    <2>. HIDE DEF l
    <2>. QED  BY <2>1, <2>2, <2>3, <2>4, <2>5, <2>6, ThreadsKept, ThreadNames
  <1>7. ASSUME NEW w \in Workers, Produce(w), UNCHANGED use PROVE ThreadsOK'
    <2> DEFINE l == "ran"
    <2>1. pc' = [pc EXCEPT ![w] = l] /\ joining' = joining
      BY <1>7 DEF Produce, Goto
    <2>2. l \in WorkerPcs
      BY DEF WorkerPcs
    <2>3. es' \in [Threads -> {"no", "set", "state", "workers", "main"}]
      BY <1>7 DEF Produce, Shape, ThreadsOK
    <2>4. /\ got' \in [Threads -> Tasks \cup {None}]
          /\ \A y \in Threads : y # w => got'[y] = got[y]
      BY <1>7 DEF Produce, Shape, ThreadsOK
    <2>5. l # "run"
      OBVIOUS
    <2>6. joining' \in [{Owner, Main} -> Workers] /\ w \in Threads /\ ThreadsOK
      BY <2>1, ThreadNames DEF Shape, ThreadsOK
    <2>. HIDE DEF l
    <2>. QED  BY <2>1, <2>2, <2>3, <2>4, <2>5, <2>6, ThreadsKept, ThreadNames
  <1>8. ASSUME NEW w \in Workers, ProduceThrows(w), UNCHANGED use PROVE ThreadsOK'
    <2> DEFINE l == "exit"
    <2>1. pc' = [pc EXCEPT ![w] = l] /\ joining' = joining
      BY <1>8 DEF ProduceThrows, Goto
    <2>2. l \in WorkerPcs
      BY DEF WorkerPcs
    <2>3. es' \in [Threads -> {"no", "set", "state", "workers", "main"}]
      BY <1>8, EmergencyIs, ThreadNames DEF ProduceThrows, Shape
    <2>4. /\ got' \in [Threads -> Tasks \cup {None}]
          /\ \A y \in Threads : y # w => got'[y] = got[y]
      BY <1>8 DEF ProduceThrows, Shape, ThreadsOK
    <2>5. l # "run"
      OBVIOUS
    <2>6. joining' \in [{Owner, Main} -> Workers] /\ w \in Threads /\ ThreadsOK
      BY <2>1, ThreadNames DEF Shape, ThreadsOK
    <2>. HIDE DEF l
    <2>. QED  BY <2>1, <2>2, <2>3, <2>4, <2>5, <2>6, ThreadsKept, ThreadNames
  <1>9. ASSUME NEW w \in Workers, WorkerAgain(w), UNCHANGED use PROVE ThreadsOK'
    <2> DEFINE l == IF Interrupted THEN "leave" ELSE "pop"
    <2>1. pc' = [pc EXCEPT ![w] = l] /\ joining' = joining
      BY <1>9 DEF WorkerAgain, Goto
    <2>2. l \in WorkerPcs
      BY DEF WorkerPcs
    <2>3. es' \in [Threads -> {"no", "set", "state", "workers", "main"}]
      BY <1>9 DEF WorkerAgain, Shape, ThreadsOK
    <2>4. /\ got' \in [Threads -> Tasks \cup {None}]
          /\ \A y \in Threads : y # w => got'[y] = got[y]
      BY <1>9 DEF WorkerAgain, Shape, ThreadsOK
    <2>5. l # "run"
      OBVIOUS
    <2>6. joining' \in [{Owner, Main} -> Workers] /\ w \in Threads /\ ThreadsOK
      BY <2>1, ThreadNames DEF Shape, ThreadsOK
    <2>. HIDE DEF l
    <2>. QED  BY <2>1, <2>2, <2>3, <2>4, <2>5, <2>6, ThreadsKept, ThreadNames
  <1>10. ASSUME NEW w \in Workers, WorkerLeave(w), UNCHANGED use PROVE ThreadsOK'
    <2> DEFINE l == IF activeThreads = 1 THEN "guard" ELSE "exit"
    <2>1. pc' = [pc EXCEPT ![w] = l] /\ joining' = joining
      BY <1>10 DEF WorkerLeave, Goto
    <2>2. l \in WorkerPcs
      BY DEF WorkerPcs
    <2>3. es' \in [Threads -> {"no", "set", "state", "workers", "main"}]
      BY <1>10 DEF WorkerLeave, Shape, ThreadsOK
    <2>4. /\ got' \in [Threads -> Tasks \cup {None}]
          /\ \A y \in Threads : y # w => got'[y] = got[y]
      BY <1>10 DEF WorkerLeave, Shape, ThreadsOK
    <2>5. l # "run"
      OBVIOUS
    <2>6. joining' \in [{Owner, Main} -> Workers] /\ w \in Threads /\ ThreadsOK
      BY <2>1, ThreadNames DEF Shape, ThreadsOK
    <2>. HIDE DEF l
    <2>. QED  BY <2>1, <2>2, <2>3, <2>4, <2>5, <2>6, ThreadsKept, ThreadNames
  <1>11. ASSUME NEW w \in Workers, WorkerGuard(w), UNCHANGED use PROVE ThreadsOK'
    <2> DEFINE l == "exit"
    <2>1. pc' = [pc EXCEPT ![w] = l] /\ joining' = joining
      BY <1>11 DEF WorkerGuard, Goto
    <2>2. l \in WorkerPcs
      BY DEF WorkerPcs
    <2>3. es' \in [Threads -> {"no", "set", "state", "workers", "main"}]
      BY <1>11 DEF WorkerGuard, Shape, ThreadsOK
    <2>4. /\ got' \in [Threads -> Tasks \cup {None}]
          /\ \A y \in Threads : y # w => got'[y] = got[y]
      BY <1>11 DEF WorkerGuard, Shape, ThreadsOK
    <2>5. l # "run"
      OBVIOUS
    <2>6. joining' \in [{Owner, Main} -> Workers] /\ w \in Threads /\ ThreadsOK
      BY <2>1, ThreadNames DEF Shape, ThreadsOK
    <2>. HIDE DEF l
    <2>. QED  BY <2>1, <2>2, <2>3, <2>4, <2>5, <2>6, ThreadsKept, ThreadNames
  <1>12. ASSUME NEW x \in Threads, Join(x), UNCHANGED use PROVE ThreadsOK'
    <2>1. x \in {Owner, Main} /\ joining[x] \in Workers
      BY <1>12 DEF Join, Shape, ThreadsOK
    <2>2. /\ es' = es /\ got' = got /\ es \in [Threads -> {"no", "set", "state", "workers", "main"}]
          /\ got \in [Threads -> Tasks \cup {None}]
      BY <1>12 DEF Join, Shape, ThreadsOK
    <2>3. CASE joining[x] = NumWorkers
      <3>1. pc' = [pc EXCEPT ![x] = AfterJoin(x)] /\ joining' = joining
        BY <1>12, <2>3 DEF Join, Goto
      <3>2. AfterJoin(x) \in (IF x = Owner THEN {"waitasync"} ELSE {"threw", "rethrow"})
        BY DEF AfterJoin
      <3>3. /\ x \notin Workers /\ (x = Main => AfterJoin(x) \in MainPcs)
            /\ (x = Owner => AfterJoin(x) \in OwnerPcs) /\ AfterJoin(x) # "run"
        BY <2>1, <3>2, ThreadNames DEF MainPcs, OwnerPcs
      <3>4. joining' \in [{Owner, Main} -> Workers]
        BY <3>1 DEF Shape, ThreadsOK
      <3>. HIDE DEF AfterJoin
      <3>. QED  BY <2>2, <3>1, <3>3, <3>4, ThreadsKept DEF Shape
    <2>4. CASE joining[x] # NumWorkers
      <3>1. joining[x] + 1 \in Workers
        BY <2>1, <2>4, ThreadNames
      <3>2. joining' \in [{Owner, Main} -> Workers] /\ pc' = pc
        BY <1>12, <2>1, <2>4, <3>1 DEF Join, Shape, ThreadsOK
      <3>. QED  BY <2>2, <3>2 DEF Shape, ThreadsOK
    <2>. QED  BY <2>3, <2>4
  <1>13. ASSUME NEW x \in Threads, JoinThrows(x), UNCHANGED use PROVE ThreadsOK'
    <2>1. /\ es' = es /\ got' = got /\ joining' = joining
          /\ es \in [Threads -> {"no", "set", "state", "workers", "main"}]
          /\ got \in [Threads -> Tasks \cup {None}]
          /\ joining \in [{Owner, Main} -> Workers]
      BY <1>13 DEF JoinThrows, Shape, ThreadsOK
    <2>2. CASE x = Owner
      BY <1>13, <2>1, <2>2 DEF JoinThrows, Shape, ThreadsOK
    <2>3. CASE x # Owner
      <3>1. pc' = [pc EXCEPT ![x] = "threw"] /\ x = Main
        BY <1>13, <2>3 DEF JoinThrows, Goto
      <3>. QED  BY <2>1, <3>1, ThreadsKept, ThreadNames DEF Shape, MainPcs
    <2>. QED  BY <2>2, <2>3
  <1>14. ASSUME MainPop, UNCHANGED use PROVE ThreadsOK'
    <2> DEFINE l == "popped"
    <2>1. pc' = [pc EXCEPT ![Main] = l] /\ joining' = joining
      BY <1>14 DEF MainPop, Goto
    <2>2. l \in MainPcs
      BY DEF MainPcs
    <2>3. es' \in [Threads -> {"no", "set", "state", "workers", "main"}]
      BY <1>14 DEF MainPop, Shape, ThreadsOK
    <2>4. /\ got' \in [Threads -> Tasks \cup {None}]
          /\ \A y \in Threads : y # Main => got'[y] = got[y]
      <3>1. mainTasks \in Seq(Tasks) /\ got \in [Threads -> Tasks \cup {None}]
        BY DEF Shape, ThreadsOK, QueuesOK
      <3>2. PICK e : got' = [got EXCEPT ![Main] = e] /\ e \in Tasks \cup {None}
        BY <1>14, <3>1, SeqParts DEF MainPop, PopMainTasks
      <3>. QED  BY <3>1, <3>2, ThreadNames
    <2>5. l # "run"
      OBVIOUS
    <2>6. joining' \in [{Owner, Main} -> Workers] /\ Main \in Threads /\ ThreadsOK
      BY <2>1, ThreadNames DEF Shape, ThreadsOK
    <2>. HIDE DEF l
    <2>. QED  BY <2>1, <2>2, <2>3, <2>4, <2>5, <2>6, ThreadsKept, ThreadNames
  <1>15. ASSUME MainCheck, UNCHANGED use PROVE ThreadsOK'
    <2> DEFINE l == IF Interrupted \/ got[Main] = None THEN "finish" ELSE "run"
    <2>1. pc' = [pc EXCEPT ![Main] = l] /\ joining' = joining
      BY <1>15 DEF MainCheck, Goto
    <2>2. l \in MainPcs
      BY DEF MainPcs
    <2>3. es' \in [Threads -> {"no", "set", "state", "workers", "main"}]
      BY <1>15 DEF MainCheck, Shape, ThreadsOK
    <2>4. /\ got' \in [Threads -> Tasks \cup {None}]
          /\ \A y \in Threads : y # Main => got'[y] = got[y]
      BY <1>15 DEF MainCheck, Shape, ThreadsOK
    <2>5. l = "run" => got'[Main] \in Tasks
      BY <1>15, ThreadNames DEF MainCheck, Shape, ThreadsOK
    <2>6. joining' \in [{Owner, Main} -> Workers] /\ Main \in Threads /\ ThreadsOK
      BY <2>1, ThreadNames DEF Shape, ThreadsOK
    <2>. HIDE DEF l
    <2>. QED  BY <2>1, <2>2, <2>3, <2>4, <2>5, <2>6, ThreadsKept, ThreadNames
  <1>16. ASSUME NEW t \in use.tasks, ProcessAdds(t), UNCHANGED use PROVE ThreadsOK'
    BY <1>16 DEF Shape, ThreadsOK, ProcessAdds, threads
  <1>17. ASSUME Process, UNCHANGED use PROVE ThreadsOK'
    <2> DEFINE l == "ran"
    <2>1. pc' = [pc EXCEPT ![Main] = l] /\ joining' = joining
      BY <1>17 DEF Process, Goto
    <2>2. l \in MainPcs
      BY DEF MainPcs
    <2>3. es' \in [Threads -> {"no", "set", "state", "workers", "main"}]
      BY <1>17, EmergencyIs, ThreadNames DEF Process, Shape, ThreadsOK
    <2>4. /\ got' \in [Threads -> Tasks \cup {None}]
          /\ \A y \in Threads : y # Main => got'[y] = got[y]
      BY <1>17 DEF Process, Shape, ThreadsOK
    <2>5. l # "run"
      OBVIOUS
    <2>6. joining' \in [{Owner, Main} -> Workers] /\ Main \in Threads /\ ThreadsOK
      BY <2>1, ThreadNames DEF Shape, ThreadsOK
    <2>. HIDE DEF l
    <2>. QED  BY <2>1, <2>2, <2>3, <2>4, <2>5, <2>6, ThreadsKept, ThreadNames
  <1>18. ASSUME ProcessThrows, UNCHANGED use PROVE ThreadsOK'
    <2> DEFINE l == IF cleared THEN "threw" ELSE "kill"
    <2>1. pc' = [pc EXCEPT ![Main] = l] /\ joining' = joining
      BY <1>18 DEF ProcessThrows, Goto, KillThreads
    <2>2. l \in MainPcs
      BY DEF MainPcs
    <2>3. es' \in [Threads -> {"no", "set", "state", "workers", "main"}]
      BY <1>18, EmergencyIs, ThreadNames DEF ProcessThrows, KillThreads, Shape,
         ThreadsOK
    <2>4. /\ got' \in [Threads -> Tasks \cup {None}]
          /\ \A y \in Threads : y # Main => got'[y] = got[y]
      BY <1>18 DEF ProcessThrows, Shape, ThreadsOK
    <2>5. l # "run"
      OBVIOUS
    <2>6. joining' \in [{Owner, Main} -> Workers] /\ Main \in Threads /\ ThreadsOK
      BY <2>1, ThreadNames DEF Shape, ThreadsOK
    <2>. HIDE DEF l
    <2>. QED  BY <2>1, <2>2, <2>3, <2>4, <2>5, <2>6, ThreadsKept, ThreadNames
  <1>19. ASSUME MainAgain, UNCHANGED use PROVE ThreadsOK'
    <2> DEFINE l == IF Interrupted THEN "finish" ELSE "pop"
    <2>1. pc' = [pc EXCEPT ![Main] = l] /\ joining' = joining
      BY <1>19 DEF MainAgain, Goto
    <2>2. l \in MainPcs
      BY DEF MainPcs
    <2>3. es' \in [Threads -> {"no", "set", "state", "workers", "main"}]
      BY <1>19 DEF MainAgain, Shape, ThreadsOK
    <2>4. /\ got' \in [Threads -> Tasks \cup {None}]
          /\ \A y \in Threads : y # Main => got'[y] = got[y]
      BY <1>19 DEF MainAgain, Shape, ThreadsOK
    <2>5. l # "run"
      OBVIOUS
    <2>6. joining' \in [{Owner, Main} -> Workers] /\ Main \in Threads /\ ThreadsOK
      BY <2>1, ThreadNames DEF Shape, ThreadsOK
    <2>. HIDE DEF l
    <2>. QED  BY <2>1, <2>2, <2>3, <2>4, <2>5, <2>6, ThreadsKept, ThreadNames
  <1>20. ASSUME MainFinish, UNCHANGED use PROVE ThreadsOK'
    <2> DEFINE l == IF Interrupted THEN "join" ELSE "setdone"
    <2>1. pc' = [pc EXCEPT ![Main] = l] /\ joining' = joining
      BY <1>20 DEF MainFinish, Goto
    <2>2. l \in MainPcs
      BY DEF MainPcs
    <2>3. es' \in [Threads -> {"no", "set", "state", "workers", "main"}]
      BY <1>20 DEF MainFinish, Shape, ThreadsOK
    <2>4. /\ got' \in [Threads -> Tasks \cup {None}]
          /\ \A y \in Threads : y # Main => got'[y] = got[y]
      BY <1>20 DEF MainFinish, Shape, ThreadsOK
    <2>5. l # "run"
      OBVIOUS
    <2>6. joining' \in [{Owner, Main} -> Workers] /\ Main \in Threads /\ ThreadsOK
      BY <2>1, ThreadNames DEF Shape, ThreadsOK
    <2>. HIDE DEF l
    <2>. QED  BY <2>1, <2>2, <2>3, <2>4, <2>5, <2>6, ThreadsKept, ThreadNames
  <1>21. ASSUME MainSetDone, UNCHANGED use PROVE ThreadsOK'
    <2> DEFINE l == "join"
    <2>1. pc' = [pc EXCEPT ![Main] = l] /\ joining' = joining
      BY <1>21 DEF MainSetDone, Goto
    <2>2. l \in MainPcs
      BY DEF MainPcs
    <2>3. es' \in [Threads -> {"no", "set", "state", "workers", "main"}]
      BY <1>21 DEF MainSetDone, Shape, ThreadsOK
    <2>4. /\ got' \in [Threads -> Tasks \cup {None}]
          /\ \A y \in Threads : y # Main => got'[y] = got[y]
      BY <1>21 DEF MainSetDone, Shape, ThreadsOK
    <2>5. l # "run"
      OBVIOUS
    <2>6. joining' \in [{Owner, Main} -> Workers] /\ Main \in Threads /\ ThreadsOK
      BY <2>1, ThreadNames DEF Shape, ThreadsOK
    <2>. HIDE DEF l
    <2>. QED  BY <2>1, <2>2, <2>3, <2>4, <2>5, <2>6, ThreadsKept, ThreadNames
  <1>22. ASSUME MainRethrow, UNCHANGED use PROVE ThreadsOK'
    <2> DEFINE l == IF failed # {} THEN "threw" ELSE "returned"
    <2>1. pc' = [pc EXCEPT ![Main] = l] /\ joining' = joining
      BY <1>22 DEF MainRethrow, Goto
    <2>2. l \in MainPcs
      BY DEF MainPcs
    <2>3. es' \in [Threads -> {"no", "set", "state", "workers", "main"}]
      BY <1>22 DEF MainRethrow, Shape, ThreadsOK
    <2>4. /\ got' \in [Threads -> Tasks \cup {None}]
          /\ \A y \in Threads : y # Main => got'[y] = got[y]
      BY <1>22 DEF MainRethrow, Shape, ThreadsOK
    <2>5. l # "run"
      OBVIOUS
    <2>6. joining' \in [{Owner, Main} -> Workers] /\ Main \in Threads /\ ThreadsOK
      BY <2>1, ThreadNames DEF Shape, ThreadsOK
    <2>. HIDE DEF l
    <2>. QED  BY <2>1, <2>2, <2>3, <2>4, <2>5, <2>6, ThreadsKept, ThreadNames
  <1>23. ASSUME StartThreads, UNCHANGED use PROVE ThreadsOK'
    <2>1. /\ \A x \in Threads : pc'[x] = IF x \in Workers THEN "pop"
                                  ELSE IF x = Owner
                                       THEN IF Style = "sync" THEN "add" ELSE "async"
                                       ELSE pc[x]
          /\ pc' = [x \in Threads |-> pc'[x]]
          /\ es' = es /\ got' = got /\ joining' = joining
      BY <1>23 DEF StartThreads
    <2>2. /\ \A w \in Workers : pc'[w] \in WorkerPcs /\ pc'[w] # "run"
          /\ pc'[Main] = pc[Main] /\ pc'[Owner] \in OwnerPcs /\ pc'[Owner] # "run"
      BY <2>1, ThreadNames DEF WorkerPcs, OwnerPcs
    <2>3. \A x \in Threads : pc'[x] \in Pcs
      BY <2>2, ThreadNames DEF Pcs, Shape, ThreadsOK
    <2>4. \A x \in Threads : pc'[x] = "run" => got[x] \in Tasks
      BY <2>2, ThreadNames DEF Shape, ThreadsOK
    <2>5. pc' \in [Threads -> Pcs]
      BY <2>1, <2>3
    <2>. QED  BY <2>1, <2>2, <2>4, <2>5 DEF Shape, ThreadsOK
  <1>24. ASSUME ProcessAsync, UNCHANGED use PROVE ThreadsOK'
    <2>1. /\ pc' = [pc EXCEPT ![Owner] = "add", ![Main] = "pop"]
          /\ es' = es /\ got' = got /\ joining' = joining /\ pc \in [Threads -> Pcs]
      BY <1>24 DEF ProcessAsync, Shape, ThreadsOK
    <2>2. /\ pc' \in [Threads -> Pcs] /\ pc'[Owner] = "add" /\ pc'[Main] = "pop"
          /\ \A w \in Workers : pc'[w] = pc[w]
      BY <2>1, ThreadNames DEF Pcs, WorkerPcs, OwnerPcs
    <2>3. \A x \in Threads : pc'[x] = "run" => got[x] \in Tasks
      BY <2>2, ThreadNames DEF Shape, ThreadsOK
    <2>. QED  BY <2>1, <2>2, <2>3 DEF Shape, ThreadsOK, MainPcs, OwnerPcs
  <1>25. ASSUME NEW t \in use.tasks, OwnerAdd(t), UNCHANGED use PROVE ThreadsOK'
    BY <1>25 DEF Shape, ThreadsOK, OwnerAdd, threads
  <1>26. ASSUME OwnerTasksDone, UNCHANGED use PROVE ThreadsOK'
    <2> DEFINE l == IF Style = "sync" THEN "process" ELSE "poll"
    <2>1. pc' = [pc EXCEPT ![Owner] = l] /\ joining' = joining
      BY <1>26 DEF OwnerTasksDone, Goto
    <2>2. l \in OwnerPcs
      BY DEF OwnerPcs
    <2>3. es' \in [Threads -> {"no", "set", "state", "workers", "main"}]
      BY <1>26 DEF OwnerTasksDone, Shape, ThreadsOK
    <2>4. /\ got' \in [Threads -> Tasks \cup {None}]
          /\ \A y \in Threads : y # Owner => got'[y] = got[y]
      BY <1>26 DEF OwnerTasksDone, Shape, ThreadsOK
    <2>5. l # "run"
      OBVIOUS
    <2>6. joining' \in [{Owner, Main} -> Workers] /\ Owner \in Threads /\ ThreadsOK
      BY <2>1, ThreadNames DEF Shape, ThreadsOK
    <2>. HIDE DEF l
    <2>. QED  BY <2>1, <2>2, <2>3, <2>4, <2>5, <2>6, ThreadsKept, ThreadNames
  <1>27. ASSUME OwnerProcess, UNCHANGED use PROVE ThreadsOK'
    <2>1. /\ pc' = [pc EXCEPT ![Owner] = "wait", ![Main] = "pop"]
          /\ es' = es /\ got' = got /\ joining' = joining /\ pc \in [Threads -> Pcs]
      BY <1>27 DEF OwnerProcess, Shape, ThreadsOK
    <2>2. /\ pc' \in [Threads -> Pcs] /\ pc'[Owner] = "wait" /\ pc'[Main] = "pop"
          /\ \A w \in Workers : pc'[w] = pc[w]
      BY <2>1, ThreadNames DEF Pcs, WorkerPcs, OwnerPcs
    <2>3. \A x \in Threads : pc'[x] = "run" => got[x] \in Tasks
      BY <2>2, ThreadNames DEF Shape, ThreadsOK
    <2>. QED  BY <2>1, <2>2, <2>3 DEF Shape, ThreadsOK, MainPcs, OwnerPcs
  <1>28. ASSUME OwnerPolled, UNCHANGED use PROVE ThreadsOK'
    <2> DEFINE l == "wait"
    <2>1. pc' = [pc EXCEPT ![Owner] = l] /\ joining' = joining
      BY <1>28 DEF OwnerPolled, Goto
    <2>2. l \in OwnerPcs
      BY DEF OwnerPcs
    <2>3. es' \in [Threads -> {"no", "set", "state", "workers", "main"}]
      BY <1>28 DEF OwnerPolled, Shape, ThreadsOK
    <2>4. /\ got' \in [Threads -> Tasks \cup {None}]
          /\ \A y \in Threads : y # Owner => got'[y] = got[y]
      BY <1>28 DEF OwnerPolled, Shape, ThreadsOK
    <2>5. l # "run"
      OBVIOUS
    <2>6. joining' \in [{Owner, Main} -> Workers] /\ Owner \in Threads /\ ThreadsOK
      BY <2>1, ThreadNames DEF Shape, ThreadsOK
    <2>. HIDE DEF l
    <2>. QED  BY <2>1, <2>2, <2>3, <2>4, <2>5, <2>6, ThreadsKept, ThreadNames
  <1>29. ASSUME OwnerTerminate, UNCHANGED use PROVE ThreadsOK'
    <2> DEFINE l == "wait"
    <2>1. pc' = [pc EXCEPT ![Owner] = l] /\ joining' = joining
      BY <1>29 DEF OwnerTerminate, Goto
    <2>2. l \in OwnerPcs
      BY DEF OwnerPcs
    <2>3. es' \in [Threads -> {"no", "set", "state", "workers", "main"}]
      BY <1>29, EmergencyIs, ThreadNames DEF OwnerTerminate, Shape
    <2>4. /\ got' \in [Threads -> Tasks \cup {None}]
          /\ \A y \in Threads : y # Owner => got'[y] = got[y]
      BY <1>29 DEF OwnerTerminate, Shape, ThreadsOK
    <2>5. l # "run"
      OBVIOUS
    <2>6. joining' \in [{Owner, Main} -> Workers] /\ Owner \in Threads /\ ThreadsOK
      BY <2>1, ThreadNames DEF Shape, ThreadsOK
    <2>. HIDE DEF l
    <2>. QED  BY <2>1, <2>2, <2>3, <2>4, <2>5, <2>6, ThreadsKept, ThreadNames
  <1>30. ASSUME OwnerWait, UNCHANGED use PROVE ThreadsOK'
    <2> DEFINE l == "destroy"
    <2>1. pc' = [pc EXCEPT ![Owner] = l] /\ joining' = joining
      BY <1>30 DEF OwnerWait, Goto
    <2>2. l \in OwnerPcs
      BY DEF OwnerPcs
    <2>3. es' \in [Threads -> {"no", "set", "state", "workers", "main"}]
      BY <1>30 DEF OwnerWait, Shape, ThreadsOK
    <2>4. /\ got' \in [Threads -> Tasks \cup {None}]
          /\ \A y \in Threads : y # Owner => got'[y] = got[y]
      BY <1>30 DEF OwnerWait, Shape, ThreadsOK
    <2>5. l # "run"
      OBVIOUS
    <2>6. joining' \in [{Owner, Main} -> Workers] /\ Owner \in Threads /\ ThreadsOK
      BY <2>1, ThreadNames DEF Shape, ThreadsOK
    <2>. HIDE DEF l
    <2>. QED  BY <2>1, <2>2, <2>3, <2>4, <2>5, <2>6, ThreadsKept, ThreadNames
  <1>31. ASSUME OwnerThrows, UNCHANGED use PROVE ThreadsOK'
    <2> DEFINE l == "destroy"
    <2>1. pc' = [pc EXCEPT ![Owner] = l] /\ joining' = joining
      BY <1>31 DEF OwnerThrows, Goto
    <2>2. l \in OwnerPcs
      BY DEF OwnerPcs
    <2>3. es' \in [Threads -> {"no", "set", "state", "workers", "main"}]
      BY <1>31 DEF OwnerThrows, Shape, ThreadsOK
    <2>4. /\ got' \in [Threads -> Tasks \cup {None}]
          /\ \A y \in Threads : y # Owner => got'[y] = got[y]
      BY <1>31 DEF OwnerThrows, Shape, ThreadsOK
    <2>5. l # "run"
      OBVIOUS
    <2>6. joining' \in [{Owner, Main} -> Workers] /\ Owner \in Threads /\ ThreadsOK
      BY <2>1, ThreadNames DEF Shape, ThreadsOK
    <2>. HIDE DEF l
    <2>. QED  BY <2>1, <2>2, <2>3, <2>4, <2>5, <2>6, ThreadsKept, ThreadNames
  <1>32. ASSUME Destroy, UNCHANGED use PROVE ThreadsOK'
    <2> DEFINE l == IF cleared THEN "waitasync" ELSE "kill"
    <2>1. pc' = [pc EXCEPT ![Owner] = l] /\ joining' = joining
      BY <1>32 DEF Destroy, Goto, KillThreads
    <2>2. l \in OwnerPcs
      BY DEF OwnerPcs
    <2>3. es' \in [Threads -> {"no", "set", "state", "workers", "main"}]
      BY <1>32, EmergencyIs, ThreadNames DEF Destroy, KillThreads, Shape,
         ThreadsOK
    <2>4. /\ got' \in [Threads -> Tasks \cup {None}]
          /\ \A y \in Threads : y # Owner => got'[y] = got[y]
      BY <1>32 DEF Destroy, Shape, ThreadsOK
    <2>5. l # "run"
      OBVIOUS
    <2>6. joining' \in [{Owner, Main} -> Workers] /\ Owner \in Threads /\ ThreadsOK
      BY <2>1, ThreadNames DEF Shape, ThreadsOK
    <2>. HIDE DEF l
    <2>. QED  BY <2>1, <2>2, <2>3, <2>4, <2>5, <2>6, ThreadsKept, ThreadNames
  <1>33. ASSUME WaitForAsyncThread, UNCHANGED use PROVE ThreadsOK'
    <2> DEFINE l == "end"
    <2>1. pc' = [pc EXCEPT ![Owner] = l] /\ joining' = joining
      BY <1>33 DEF WaitForAsyncThread, Goto
    <2>2. l \in OwnerPcs
      BY DEF OwnerPcs
    <2>3. es' \in [Threads -> {"no", "set", "state", "workers", "main"}]
      BY <1>33 DEF WaitForAsyncThread, Shape, ThreadsOK
    <2>4. /\ got' \in [Threads -> Tasks \cup {None}]
          /\ \A y \in Threads : y # Owner => got'[y] = got[y]
      BY <1>33 DEF WaitForAsyncThread, Shape, ThreadsOK
    <2>5. l # "run"
      OBVIOUS
    <2>6. joining' \in [{Owner, Main} -> Workers] /\ Owner \in Threads /\ ThreadsOK
      BY <2>1, ThreadNames DEF Shape, ThreadsOK
    <2>. HIDE DEF l
    <2>. QED  BY <2>1, <2>2, <2>3, <2>4, <2>5, <2>6, ThreadsKept, ThreadNames
  <1>34. ASSUME External, UNCHANGED use PROVE ThreadsOK'
    BY <1>34 DEF Shape, ThreadsOK, External, threads
  <1>35. CASE UNCHANGED vars
    BY <1>35 DEF Shape, ThreadsOK, vars, threads
  <1>. QED  BY <1>1, <1>2, <1>3, <1>4, <1>5, <1>6, <1>7, <1>8, <1>9, <1>10, <1>11, <1>12,
               <1>13, <1>14, <1>15, <1>16, <1>17, <1>18, <1>19, <1>20, <1>21, <1>22, <1>23,
               <1>24, <1>25, <1>26, <1>27, <1>28, <1>29, <1>30, <1>31, <1>32, <1>33, <1>34,
               <1>35 DEF Next, Step, ThreadStep, EmergencyShutdown, WorkerStep, MainStep,
               OwnerStep

\* The types hold.
LEMMA ShapeStep == Shape /\ [Next]_vars => Shape'
  BY QueuesStep, MembersStep, ThreadsStep, CallerStep DEF Shape

-----------------------------------------------------------------------------
(* What the steps of a thread do *)

\* A worker's step.
LEMMA WorkerMoves ==
  ASSUME Shape, NEW w \in Workers, WorkerStep(w)
  PROVE  /\ \A y \in Threads : y # w => pc'[y] = pc[y] /\ es'[y] = es[y] /\ got'[y] = got[y]
         /\ es[w] = "no" /\ pc[w] \in {"pop", "popped", "run", "ran", "leave", "guard"}
         /\ UNCHANGED <<workerInterrupt, interruptFlag, allPushed, joined, cleared, joining,
                        aborted, added, taskProducers, processed>>
         /\ WorkerPop(w) => pc[w] = "pop" /\ pc'[w] = "popped"
         /\ WorkerCheck(w) => /\ pc[w] = "popped"
                              /\ pc'[w] = IF Interrupted \/ got[w] = None THEN "leave" ELSE "run"
         /\ Produce(w) => pc[w] = "run" /\ pc'[w] = "ran" /\ got[w] \in Tasks
         /\ ProduceThrows(w) =>
              pc[w] = "run" /\ pc'[w] = "exit" /\ (workerInterrupt <=> es'[w] = "no")
              /\ es'[w] \in {"no", "set"}
         /\ WorkerAgain(w) => pc[w] = "ran" /\ pc'[w] = IF Interrupted THEN "leave" ELSE "pop"
         /\ WorkerLeave(w) =>
              pc[w] = "leave" /\ pc'[w] = IF activeThreads = 1 THEN "guard" ELSE "exit"
         /\ WorkerGuard(w) => pc[w] = "guard" /\ pc'[w] = "exit"
         /\ ~ProduceThrows(w) => es' = es
         /\ ~WorkerPop(w) => got' = got
  <1>0. /\ w \in Threads /\ w # Main /\ w # Owner
        /\ pc \in [Threads -> Pcs] /\ got \in [Threads -> Tasks \cup {None}]
        /\ es \in [Threads -> {"no", "set", "state", "workers", "main"}]
        /\ ThreadsOK
    BY ThreadNames DEF Shape, ThreadsOK
  <1>1. CASE WorkerPop(w)
    <2>1. /\ pc[w] = "pop" /\ es[w] = "no"
          /\ pc' = [pc EXCEPT ![w] = "popped"]
          /\ UNCHANGED <<workerInterrupt, interruptFlag, allPushed, joined, cleared, joining,
                         aborted, added, taskProducers, processed>>
          /\ es' = es
      BY <1>1 DEF WorkerPop, At, Goto, flags, members, caller
    <2>2. pc'[w] = "popped" /\ \A y \in Threads : y # w => pc'[y] = pc[y]
      BY <1>0, <2>1
    <2>3. \A y \in Threads : y # w => got'[y] = got[y]
      <3>1. PICK e : got' = [got EXCEPT ![w] = e]
        BY <1>1, PopIs DEF WorkerPop
      <3>. QED  BY <1>0, <3>1
    <2>. QED  BY <1>0, <1>1, <2>1, <2>2, <2>3 DEF WorkerPop, WorkerCheck, Produce,
                 ProduceThrows, WorkerAgain, WorkerLeave, WorkerGuard, At
  <1>2. CASE WorkerCheck(w)
    <2>1. /\ pc[w] = "popped" /\ es[w] = "no"
          /\ pc' = [pc EXCEPT ![w] = IF Interrupted \/ got[w] = None THEN "leave" ELSE "run"]
          /\ UNCHANGED <<workerInterrupt, interruptFlag, allPushed, joined, cleared, joining,
                         aborted, added, taskProducers, processed>>
          /\ es' = es /\ got' = got
      BY <1>2 DEF WorkerCheck, At, Goto, flags, members, caller
    <2>2. /\ pc'[w] = (IF Interrupted \/ got[w] = None THEN "leave" ELSE "run")
          /\ \A y \in Threads : y # w => pc'[y] = pc[y]
      BY <1>0, <2>1
    <2>. QED  BY <1>0, <1>2, <2>1, <2>2 DEF WorkerPop, WorkerCheck, Produce, ProduceThrows,
                 WorkerAgain, WorkerLeave, WorkerGuard, At
  <1>3. CASE Produce(w)
    <2>1. /\ pc[w] = "run" /\ es[w] = "no"
          /\ pc' = [pc EXCEPT ![w] = "ran"]
          /\ UNCHANGED <<workerInterrupt, interruptFlag, allPushed, joined, cleared, joining,
                         aborted, added, taskProducers, processed>>
          /\ es' = es /\ got' = got
      BY <1>3 DEF Produce, At, Goto, flags, members, caller
    <2>2. pc'[w] = "ran" /\ \A y \in Threads : y # w => pc'[y] = pc[y]
      BY <1>0, <2>1
    <2>3. got[w] \in Tasks
      BY <1>3, <1>0 DEF Produce, At, ThreadsOK
    <2>4. ~ProduceThrows(w)
      BY <1>0, <2>2 DEF ProduceThrows, Goto
    <2>. QED  BY <1>0, <1>3, <2>1, <2>2, <2>3, <2>4 DEF WorkerPop, WorkerCheck, Produce,
                 ProduceThrows, WorkerAgain, WorkerLeave, WorkerGuard, At
  <1>4. CASE ProduceThrows(w)
    <2>1. /\ pc[w] = "run" /\ es[w] = "no"
          /\ pc' = [pc EXCEPT ![w] = "exit"]
          /\ UNCHANGED <<workerInterrupt, interruptFlag, allPushed, joined, cleared, joining,
                         aborted, added, taskProducers, processed>>
          /\ got' = got
      BY <1>4 DEF ProduceThrows, At, Goto, flags, members, caller
    <2>2. pc'[w] = "exit" /\ \A y \in Threads : y # w => pc'[y] = pc[y]
      BY <1>0, <2>1
    <2>3. /\ es'[w] \in {"no", "set"} /\ (workerInterrupt <=> es'[w] = "no")
          /\ \A y \in Threads : y # w => es'[y] = es[y]
      BY <1>4, <1>0, EmergencyIs DEF ProduceThrows
    <2>4. ~Produce(w)
      BY <1>0, <2>2 DEF Produce, Goto
    <2>. QED  BY <1>0, <1>4, <2>1, <2>2, <2>3, <2>4 DEF WorkerPop, WorkerCheck, Produce,
                 ProduceThrows, WorkerAgain, WorkerLeave, WorkerGuard, At
  <1>5. CASE WorkerAgain(w)
    <2>1. /\ pc[w] = "ran" /\ es[w] = "no"
          /\ pc' = [pc EXCEPT ![w] = IF Interrupted THEN "leave" ELSE "pop"]
          /\ UNCHANGED <<workerInterrupt, interruptFlag, allPushed, joined, cleared, joining,
                         aborted, added, taskProducers, processed>>
          /\ es' = es /\ got' = got
      BY <1>5 DEF WorkerAgain, At, Goto, flags, members, caller
    <2>2. /\ pc'[w] = (IF Interrupted THEN "leave" ELSE "pop")
          /\ \A y \in Threads : y # w => pc'[y] = pc[y]
      BY <1>0, <2>1
    <2>. QED  BY <1>0, <1>5, <2>1, <2>2 DEF WorkerPop, WorkerCheck, Produce, ProduceThrows,
                 WorkerAgain, WorkerLeave, WorkerGuard, At
  <1>6. CASE WorkerLeave(w)
    <2>1. /\ pc[w] = "leave" /\ es[w] = "no"
          /\ pc' = [pc EXCEPT ![w] = IF activeThreads = 1 THEN "guard" ELSE "exit"]
          /\ UNCHANGED <<workerInterrupt, interruptFlag, allPushed, joined, cleared, joining,
                         aborted, added, taskProducers, processed>>
          /\ es' = es /\ got' = got
      BY <1>6 DEF WorkerLeave, At, Goto, flags, members, caller
    <2>2. /\ pc'[w] = (IF activeThreads = 1 THEN "guard" ELSE "exit")
          /\ \A y \in Threads : y # w => pc'[y] = pc[y]
      BY <1>0, <2>1
    <2>. QED  BY <1>0, <1>6, <2>1, <2>2 DEF WorkerPop, WorkerCheck, Produce, ProduceThrows,
                 WorkerAgain, WorkerLeave, WorkerGuard, At
  <1>7. CASE WorkerGuard(w)
    <2>1. /\ pc[w] = "guard" /\ es[w] = "no"
          /\ pc' = [pc EXCEPT ![w] = "exit"]
          /\ UNCHANGED <<workerInterrupt, interruptFlag, allPushed, joined, cleared, joining,
                         aborted, added, taskProducers, processed>>
          /\ es' = es /\ got' = got
      BY <1>7 DEF WorkerGuard, At, Goto, flags, members, caller
    <2>2. pc'[w] = "exit" /\ \A y \in Threads : y # w => pc'[y] = pc[y]
      BY <1>0, <2>1
    <2>. QED  BY <1>0, <1>7, <2>1, <2>2 DEF WorkerPop, WorkerCheck, Produce, ProduceThrows,
                 WorkerAgain, WorkerLeave, WorkerGuard, At
  <1>. QED  BY <1>1, <1>2, <1>3, <1>4, <1>5, <1>6, <1>7 DEF WorkerStep

\* A step of process().
LEMMA MainMoves ==
  ASSUME Shape, MainStep
  PROVE  /\ es[Main] = "no"
         /\ \A y \in Threads : y # Main => pc'[y] = pc[y] /\ es'[y] = es[y] /\ got'[y] = got[y]
         /\ UNCHANGED <<workerInterrupt, interruptFlag, activeThreads, failed, joined, cleared,
                        joining, aborted>>
         /\ es'[Main] # "no" => es'[Main] = "set" /\ ~workerInterrupt /\ (Process \/ ProcessThrows)
         /\ MainPop => pc[Main] = "pop" /\ pc'[Main] = "popped" /\ es' = es
         /\ MainCheck =>
              /\ pc[Main] = "popped"
              /\ pc'[Main] = (IF Interrupted \/ got[Main] = None THEN "finish" ELSE "run")
              /\ es' = es
              /\ got' = got
         /\ (\E t \in use.tasks : ProcessAdds(t)) =>
              pc[Main] = "run" /\ pc' = pc /\ got[Main] \in Tasks /\ es' = es /\ got' = got
         /\ Process =>
              pc[Main] = "run" /\ pc'[Main] = "ran" /\ got[Main] \in Tasks /\ got' = got
         /\ ProcessThrows =>
              /\ pc[Main] = "run"
              /\ pc'[Main] = (IF cleared THEN "threw" ELSE "kill")
              /\ got[Main] \in Tasks
              /\ got' = got
         /\ MainAgain =>
              /\ pc[Main] = "ran"
              /\ pc'[Main] = (IF Interrupted THEN "finish" ELSE "pop")
              /\ es' = es
              /\ got' = got
         /\ MainFinish =>
              /\ pc[Main] = "finish"
              /\ pc'[Main] = (IF Interrupted THEN "join" ELSE "setdone")
              /\ es' = es
              /\ got' = got
         /\ MainSetDone =>
              pc[Main] = "setdone" /\ pc'[Main] = "join" /\ es' = es /\ got' = got
         /\ MainRethrow =>
              /\ pc[Main] = "rethrow"
              /\ pc'[Main] = (IF failed # {} THEN "threw" ELSE "returned")
              /\ es' = es
              /\ got' = got
  <1>0. /\ Main \in Threads
        /\ pc \in [Threads -> Pcs] /\ got \in [Threads -> Tasks \cup {None}]
        /\ es \in [Threads -> {"no", "set", "state", "workers", "main"}]
        /\ ThreadsOK /\ mainTasks \in Seq(Tasks)
    BY ThreadNames DEF Shape, ThreadsOK, QueuesOK
  <1> DEFINE Rest ==
               \A y \in Threads : y # Main =>
                 pc'[y] = pc[y] /\ es'[y] = es[y] /\ got'[y] = got[y]
             Same == UNCHANGED <<workerInterrupt, interruptFlag, activeThreads, failed, joined,
                                 cleared, joining, aborted>>
             Calls == es'[Main] # "no" =>
                        es'[Main] = "set" /\ ~workerInterrupt /\ (Process \/ ProcessThrows)
  <1>1. ASSUME MainPop
        PROVE  /\ es[Main] = "no" /\ Rest /\ Same /\ Calls
               /\ pc[Main] = "pop" /\ pc'[Main] = "popped" /\ es' = es
    <2>1. /\ pc[Main] = "pop" /\ es[Main] = "no" /\ Same
          /\ pc' = [pc EXCEPT ![Main] = "popped"]
          /\ es' = es
      BY <1>1 DEF MainPop, At, flags, members, caller, Goto
    <2>2. pc'[Main] = "popped" /\ \A y \in Threads : y # Main => pc'[y] = pc[y]
      BY <1>0, <2>1
    <2>3. \A y \in Threads : y # Main => got'[y] = got[y]
      <3>1. PICK e : got' = [got EXCEPT ![Main] = e]
        BY <1>1 DEF MainPop, PopMainTasks
      <3>. QED  BY <1>0, <3>1
    <2>. HIDE DEF Same
    <2>. QED  BY <1>1, <2>1, <2>2, <2>3
  <1>2. ASSUME MainCheck
        PROVE  /\ es[Main] = "no" /\ Rest /\ Same /\ Calls
               /\ pc[Main] = "popped"
               /\ pc'[Main] = (IF Interrupted \/ got[Main] = None THEN "finish" ELSE "run")
               /\ es' = es
               /\ got' = got
    <2>1. /\ pc[Main] = "popped" /\ es[Main] = "no" /\ Same
          /\ pc' = [pc EXCEPT ![Main] = IF Interrupted \/ got[Main] = None THEN "finish" ELSE "run"]
          /\ es' = es
          /\ got' = got
      BY <1>2 DEF MainCheck, At, flags, members, caller, Goto
    <2>2. /\ pc'[Main] = (IF Interrupted \/ got[Main] = None THEN "finish" ELSE "run")
          /\ \A y \in Threads : y # Main => pc'[y] = pc[y]
      BY <1>0, <2>1
    <2>. HIDE DEF Same
    <2>. QED  BY <1>2, <2>1, <2>2
  <1>3. ASSUME \E t \in use.tasks : ProcessAdds(t)
        PROVE  /\ es[Main] = "no" /\ Rest /\ Same /\ Calls
               /\ pc[Main] = "run" /\ pc' = pc /\ got[Main] \in Tasks /\ es' = es /\ got' = got
    <2>1. /\ pc[Main] = "run" /\ es[Main] = "no" /\ Same
          /\ pc' = pc
          /\ es' = es
          /\ got' = got
      BY <1>3 DEF ProcessAdds, At, flags, members, caller, threads
    <2>2. \A y \in Threads : y # Main => pc'[y] = pc[y]
      BY <1>0, <2>1
    <2>3. got[Main] \in Tasks
      BY <1>0, <2>1 DEF ThreadsOK
    <2>. HIDE DEF Same
    <2>. QED  BY <1>3, <2>1, <2>2, <2>3
  <1>4. ASSUME Process
        PROVE  /\ es[Main] = "no" /\ Rest /\ Same /\ Calls
               /\ pc[Main] = "run" /\ pc'[Main] = "ran" /\ got[Main] \in Tasks /\ got' = got
    <2>1. /\ pc[Main] = "run" /\ es[Main] = "no" /\ Same
          /\ pc' = [pc EXCEPT ![Main] = "ran"]
          /\ got' = got
      BY <1>4 DEF Process, At, flags, members, caller, Goto
    <2>2. pc'[Main] = "ran" /\ \A y \in Threads : y # Main => pc'[y] = pc[y]
      BY <1>0, <2>1
    <2>3. got[Main] \in Tasks
      BY <1>0, <2>1 DEF ThreadsOK
    <2>4. /\ \A y \in Threads : y # Main => es'[y] = es[y]
          /\ es'[Main] # "no" => es'[Main] = "set" /\ ~workerInterrupt
      <3>1. CASE es' = es
        BY <2>1, <3>1
      <3>2. CASE Emergency(Main)
        BY <1>0, <3>2, EmergencyIs
      <3>. QED  BY <1>4, <3>1, <3>2 DEF Process
    <2>. HIDE DEF Same
    <2>. QED  BY <1>4, <2>1, <2>2, <2>3, <2>4
  <1>5. ASSUME ProcessThrows
        PROVE  /\ es[Main] = "no" /\ Rest /\ Same /\ Calls
               /\ pc[Main] = "run"
               /\ pc'[Main] = (IF cleared THEN "threw" ELSE "kill")
               /\ got[Main] \in Tasks
               /\ got' = got
    <2>1. /\ pc[Main] = "run" /\ es[Main] = "no" /\ Same
          /\ pc' = [pc EXCEPT ![Main] = IF cleared THEN "threw" ELSE "kill"]
          /\ got' = got
      BY <1>5 DEF ProcessThrows, At, flags, members, caller, Goto, KillThreads
    <2>2. /\ pc'[Main] = (IF cleared THEN "threw" ELSE "kill")
          /\ \A y \in Threads : y # Main => pc'[y] = pc[y]
      BY <1>0, <2>1
    <2>3. got[Main] \in Tasks
      BY <1>0, <2>1 DEF ThreadsOK
    <2>4. /\ \A y \in Threads : y # Main => es'[y] = es[y]
          /\ es'[Main] # "no" => es'[Main] = "set" /\ ~workerInterrupt
      <3>1. CASE es' = es
        BY <2>1, <3>1
      <3>2. CASE Emergency(Main)
        BY <1>0, <3>2, EmergencyIs
      <3>. QED  BY <1>5, <3>1, <3>2 DEF ProcessThrows, KillThreads
    <2>. HIDE DEF Same
    <2>. QED  BY <1>5, <2>1, <2>2, <2>3, <2>4
  <1>6. ASSUME MainAgain
        PROVE  /\ es[Main] = "no" /\ Rest /\ Same /\ Calls
               /\ pc[Main] = "ran"
               /\ pc'[Main] = (IF Interrupted THEN "finish" ELSE "pop")
               /\ es' = es
               /\ got' = got
    <2>1. /\ pc[Main] = "ran" /\ es[Main] = "no" /\ Same
          /\ pc' = [pc EXCEPT ![Main] = IF Interrupted THEN "finish" ELSE "pop"]
          /\ es' = es
          /\ got' = got
      BY <1>6 DEF MainAgain, At, flags, members, caller, Goto
    <2>2. /\ pc'[Main] = (IF Interrupted THEN "finish" ELSE "pop")
          /\ \A y \in Threads : y # Main => pc'[y] = pc[y]
      BY <1>0, <2>1
    <2>. HIDE DEF Same
    <2>. QED  BY <1>6, <2>1, <2>2
  <1>7. ASSUME MainFinish
        PROVE  /\ es[Main] = "no" /\ Rest /\ Same /\ Calls
               /\ pc[Main] = "finish"
               /\ pc'[Main] = (IF Interrupted THEN "join" ELSE "setdone")
               /\ es' = es
               /\ got' = got
    <2>1. /\ pc[Main] = "finish" /\ es[Main] = "no" /\ Same
          /\ pc' = [pc EXCEPT ![Main] = IF Interrupted THEN "join" ELSE "setdone"]
          /\ es' = es
          /\ got' = got
      BY <1>7 DEF MainFinish, At, flags, members, caller, Goto
    <2>2. /\ pc'[Main] = (IF Interrupted THEN "join" ELSE "setdone")
          /\ \A y \in Threads : y # Main => pc'[y] = pc[y]
      BY <1>0, <2>1
    <2>. HIDE DEF Same
    <2>. QED  BY <1>7, <2>1, <2>2
  <1>8. ASSUME MainSetDone
        PROVE  /\ es[Main] = "no" /\ Rest /\ Same /\ Calls
               /\ pc[Main] = "setdone" /\ pc'[Main] = "join" /\ es' = es /\ got' = got
    <2>1. /\ pc[Main] = "setdone" /\ es[Main] = "no" /\ Same
          /\ pc' = [pc EXCEPT ![Main] = "join"]
          /\ es' = es
          /\ got' = got
      BY <1>8 DEF MainSetDone, At, flags, members, caller, Goto
    <2>2. pc'[Main] = "join" /\ \A y \in Threads : y # Main => pc'[y] = pc[y]
      BY <1>0, <2>1
    <2>. HIDE DEF Same
    <2>. QED  BY <1>8, <2>1, <2>2
  <1>9. ASSUME MainRethrow
        PROVE  /\ es[Main] = "no" /\ Rest /\ Same /\ Calls
               /\ pc[Main] = "rethrow"
               /\ pc'[Main] = (IF failed # {} THEN "threw" ELSE "returned")
               /\ es' = es
               /\ got' = got
    <2>1. /\ pc[Main] = "rethrow" /\ es[Main] = "no" /\ Same
          /\ pc' = [pc EXCEPT ![Main] = IF failed # {} THEN "threw" ELSE "returned"]
          /\ es' = es
          /\ got' = got
      BY <1>9 DEF MainRethrow, At, flags, members, caller, Goto
    <2>2. /\ pc'[Main] = (IF failed # {} THEN "threw" ELSE "returned")
          /\ \A y \in Threads : y # Main => pc'[y] = pc[y]
      BY <1>0, <2>1
    <2>. HIDE DEF Same
    <2>. QED  BY <1>9, <2>1, <2>2
  <1>. QED  BY <1>1, <1>2, <1>3, <1>4, <1>5, <1>6, <1>7, <1>8, <1>9 DEF MainStep

\* A step of the owner.
LEMMA OwnerMoves ==
  ASSUME Shape, OwnerStep
  PROVE  /\ es[Owner] = "no" /\ \A y \in Threads : y # Owner => es'[y] = es[y]
         /\ UNCHANGED <<workerInterrupt, interruptFlag, activeThreads, failed, joined, cleared,
                        joining, aborted, got, mainTasks, mainGuards, processed>>
         /\ es'[Owner] # "no" =>
              es'[Owner] = "set" /\ ~workerInterrupt /\ (OwnerTerminate \/ pc'[Owner] = "kill")
         /\ StartThreads =>
              /\ pc[Owner] = "start"
              /\ pc'[Owner] = (IF Style = "sync" THEN "add" ELSE "async")
              /\ es' = es
              /\ pc'[Main] = pc[Main] /\ \A w \in Workers : pc'[w] = "pop"
         /\ ProcessAsync =>
              /\ pc[Owner] = "async" /\ pc'[Owner] = "add" /\ es' = es
              /\ pc'[Main] = "pop" /\ \A w \in Workers : pc'[w] = pc[w]
         /\ (\E t \in use.tasks : OwnerAdd(t)) => pc[Owner] = "add" /\ pc' = pc /\ es' = es
         /\ OwnerTasksDone =>
              /\ pc[Owner] = "add"
              /\ pc'[Owner] = (IF Style = "sync" THEN "process" ELSE "poll")
              /\ es' = es
              /\ \A y \in Threads : y # Owner => pc'[y] = pc[y]
         /\ OwnerProcess =>
              /\ pc[Owner] = "process" /\ pc'[Owner] = "wait" /\ es' = es
              /\ pc'[Main] = "pop" /\ \A w \in Workers : pc'[w] = pc[w]
         /\ OwnerPolled =>
              /\ pc[Owner] = "poll" /\ pc'[Owner] = "wait" /\ es' = es
              /\ \A y \in Threads : y # Owner => pc'[y] = pc[y]
         /\ OwnerTerminate =>
              /\ pc[Owner] = "poll" /\ pc'[Owner] = "wait"
              /\ \A y \in Threads : y # Owner => pc'[y] = pc[y]
         /\ OwnerWait =>
              /\ pc[Owner] = "wait" /\ pc'[Owner] = "destroy" /\ es' = es
              /\ \A y \in Threads : y # Owner => pc'[y] = pc[y]
         /\ OwnerThrows =>
              /\ pc[Owner] = "add" /\ pc'[Owner] = "destroy" /\ es' = es
              /\ \A y \in Threads : y # Owner => pc'[y] = pc[y]
         /\ Destroy =>
              /\ pc[Owner] = "destroy" /\ pc'[Owner] = (IF cleared THEN "waitasync" ELSE "kill")
              /\ \A y \in Threads : y # Owner => pc'[y] = pc[y]
         /\ WaitForAsyncThread =>
              /\ pc[Owner] = "waitasync" /\ pc'[Owner] = "end" /\ es' = es
              /\ \A y \in Threads : y # Owner => pc'[y] = pc[y]
  <1>0. /\ Owner \in Threads
        /\ pc \in [Threads -> Pcs] /\ got \in [Threads -> Tasks \cup {None}]
        /\ es \in [Threads -> {"no", "set", "state", "workers", "main"}]
        /\ ThreadsOK
    BY ThreadNames DEF Shape, ThreadsOK
  <1> DEFINE Rest == es[Owner] = "no" /\ \A y \in Threads : y # Owner => es'[y] = es[y]
             Same == UNCHANGED <<workerInterrupt, interruptFlag, activeThreads, failed, joined,
                                 cleared, joining, aborted, got, mainTasks, mainGuards, processed>>
             Calls == es'[Owner] # "no" =>
                        es'[Owner] = "set" /\ ~workerInterrupt
                        /\ (OwnerTerminate \/ pc'[Owner] = "kill")
  <1>1. ASSUME StartThreads
        PROVE  /\ Rest /\ Same /\ Calls
               /\ pc[Owner] = "start"
               /\ pc'[Owner] = (IF Style = "sync" THEN "add" ELSE "async")
               /\ es' = es
               /\ pc'[Main] = pc[Main] /\ \A w \in Workers : pc'[w] = "pop"
    <2>1. /\ pc[Owner] = "start" /\ es[Owner] = "no" /\ Same
          /\ pc' = [x \in Threads |-> IF x \in Workers THEN "pop"
                                      ELSE IF x = Owner
                                           THEN IF Style = "sync" THEN "add" ELSE "async"
                                           ELSE pc[x]]
          /\ es' = es
      BY <1>1 DEF StartThreads, At, flags, members, caller, queues
    <2>2. /\ pc'[Owner] = (IF Style = "sync" THEN "add" ELSE "async")
          /\ pc'[Main] = pc[Main]
          /\ \A w \in Workers : pc'[w] = "pop"
      BY <1>0, <2>1, ThreadNames
    <2>. HIDE DEF Same
    <2>. QED  BY <2>1, <2>2
  <1>2. ASSUME ProcessAsync
        PROVE  /\ Rest /\ Same /\ Calls
               /\ pc[Owner] = "async" /\ pc'[Owner] = "add" /\ es' = es
               /\ pc'[Main] = "pop" /\ \A w \in Workers : pc'[w] = pc[w]
    <2>1. /\ pc[Owner] = "async" /\ es[Owner] = "no" /\ Same
          /\ pc' = [pc EXCEPT ![Owner] = "add", ![Main] = "pop"]
          /\ es' = es
      BY <1>2 DEF ProcessAsync, At, flags, members, caller, queues
    <2>2. pc'[Owner] = "add" /\ pc'[Main] = "pop" /\ \A w \in Workers : pc'[w] = pc[w]
      BY <1>0, <2>1, ThreadNames
    <2>. HIDE DEF Same
    <2>. QED  BY <2>1, <2>2
  <1>3. ASSUME \E t \in use.tasks : OwnerAdd(t)
        PROVE  /\ Rest /\ Same /\ Calls
               /\ pc[Owner] = "add" /\ pc' = pc /\ es' = es
    <2>1. /\ pc[Owner] = "add" /\ es[Owner] = "no" /\ Same
          /\ pc' = pc
          /\ es' = es
      BY <1>3 DEF OwnerAdd, At, flags, members, caller, queues, threads
    <2>2. pc' = pc
      BY <1>0, <2>1, ThreadNames
    <2>. HIDE DEF Same
    <2>. QED  BY <2>1, <2>2
  <1>4. ASSUME OwnerTasksDone
        PROVE  /\ Rest /\ Same /\ Calls
               /\ pc[Owner] = "add"
               /\ pc'[Owner] = (IF Style = "sync" THEN "process" ELSE "poll")
               /\ es' = es
               /\ \A y \in Threads : y # Owner => pc'[y] = pc[y]
    <2>1. /\ pc[Owner] = "add" /\ es[Owner] = "no" /\ Same
          /\ pc' = [pc EXCEPT ![Owner] = IF Style = "sync" THEN "process" ELSE "poll"]
          /\ es' = es
      BY <1>4 DEF OwnerTasksDone, At, flags, members, caller, queues, Goto
    <2>2. /\ pc'[Owner] = (IF Style = "sync" THEN "process" ELSE "poll")
          /\ \A y \in Threads : y # Owner => pc'[y] = pc[y]
      BY <1>0, <2>1, ThreadNames
    <2>. HIDE DEF Same
    <2>. QED  BY <2>1, <2>2
  <1>5. ASSUME OwnerProcess
        PROVE  /\ Rest /\ Same /\ Calls
               /\ pc[Owner] = "process" /\ pc'[Owner] = "wait" /\ es' = es
               /\ pc'[Main] = "pop" /\ \A w \in Workers : pc'[w] = pc[w]
    <2>1. /\ pc[Owner] = "process" /\ es[Owner] = "no" /\ Same
          /\ pc' = [pc EXCEPT ![Owner] = "wait", ![Main] = "pop"]
          /\ es' = es
      BY <1>5 DEF OwnerProcess, At, flags, members, caller, queues
    <2>2. pc'[Owner] = "wait" /\ pc'[Main] = "pop" /\ \A w \in Workers : pc'[w] = pc[w]
      BY <1>0, <2>1, ThreadNames
    <2>. HIDE DEF Same
    <2>. QED  BY <2>1, <2>2
  <1>6. ASSUME OwnerPolled
        PROVE  /\ Rest /\ Same /\ Calls
               /\ pc[Owner] = "poll" /\ pc'[Owner] = "wait" /\ es' = es
               /\ \A y \in Threads : y # Owner => pc'[y] = pc[y]
    <2>1. /\ pc[Owner] = "poll" /\ es[Owner] = "no" /\ Same
          /\ pc' = [pc EXCEPT ![Owner] = "wait"]
          /\ es' = es
      BY <1>6 DEF OwnerPolled, At, flags, members, caller, queues, Goto
    <2>2. pc'[Owner] = "wait" /\ \A y \in Threads : y # Owner => pc'[y] = pc[y]
      BY <1>0, <2>1, ThreadNames
    <2>. HIDE DEF Same
    <2>. QED  BY <2>1, <2>2
  <1>7. ASSUME OwnerTerminate
        PROVE  /\ Rest /\ Same /\ Calls
               /\ pc[Owner] = "poll" /\ pc'[Owner] = "wait"
               /\ \A y \in Threads : y # Owner => pc'[y] = pc[y]
    <2>1. /\ pc[Owner] = "poll" /\ es[Owner] = "no" /\ Same
          /\ pc' = [pc EXCEPT ![Owner] = "wait"]
      BY <1>7 DEF OwnerTerminate, At, flags, members, caller, queues, Goto
    <2>2. pc'[Owner] = "wait" /\ \A y \in Threads : y # Owner => pc'[y] = pc[y]
      BY <1>0, <2>1, ThreadNames
    <2>3. /\ \A y \in Threads : y # Owner => es'[y] = es[y]
          /\ es'[Owner] # "no" => es'[Owner] = "set" /\ ~workerInterrupt
                                  /\ (OwnerTerminate \/ pc'[Owner] = "kill")
      <3>1. CASE es' = es
        BY <2>1, <3>1
      <3>2. CASE Emergency(Owner)
        BY <1>0, <1>7, <2>2, <3>2, EmergencyIs
      <3>. QED  BY <1>7, <3>1, <3>2 DEF OwnerTerminate
    <2>. HIDE DEF Same
    <2>. QED  BY <2>1, <2>2, <2>3
  <1>8. ASSUME OwnerWait
        PROVE  /\ Rest /\ Same /\ Calls
               /\ pc[Owner] = "wait" /\ pc'[Owner] = "destroy" /\ es' = es
               /\ \A y \in Threads : y # Owner => pc'[y] = pc[y]
    <2>1. /\ pc[Owner] = "wait" /\ es[Owner] = "no" /\ Same
          /\ pc' = [pc EXCEPT ![Owner] = "destroy"]
          /\ es' = es
      BY <1>8 DEF OwnerWait, At, flags, members, caller, queues, Goto
    <2>2. pc'[Owner] = "destroy" /\ \A y \in Threads : y # Owner => pc'[y] = pc[y]
      BY <1>0, <2>1, ThreadNames
    <2>. HIDE DEF Same
    <2>. QED  BY <2>1, <2>2
  <1>9. ASSUME OwnerThrows
        PROVE  /\ Rest /\ Same /\ Calls
               /\ pc[Owner] = "add" /\ pc'[Owner] = "destroy" /\ es' = es
               /\ \A y \in Threads : y # Owner => pc'[y] = pc[y]
    <2>1. /\ pc[Owner] = "add" /\ es[Owner] = "no" /\ Same
          /\ pc' = [pc EXCEPT ![Owner] = "destroy"]
          /\ es' = es
      BY <1>9 DEF OwnerThrows, At, flags, members, caller, queues, Goto
    <2>2. pc'[Owner] = "destroy" /\ \A y \in Threads : y # Owner => pc'[y] = pc[y]
      BY <1>0, <2>1, ThreadNames
    <2>. HIDE DEF Same
    <2>. QED  BY <2>1, <2>2
  <1>10. ASSUME Destroy
        PROVE  /\ Rest /\ Same /\ Calls
               /\ pc[Owner] = "destroy" /\ pc'[Owner] = (IF cleared THEN "waitasync" ELSE "kill")
               /\ \A y \in Threads : y # Owner => pc'[y] = pc[y]
    <2>1. /\ pc[Owner] = "destroy" /\ es[Owner] = "no" /\ Same
          /\ pc' = [pc EXCEPT ![Owner] = IF cleared THEN "waitasync" ELSE "kill"]
      BY <1>10 DEF Destroy, At, flags, members, caller, queues, Goto, KillThreads
    <2>2. /\ pc'[Owner] = (IF cleared THEN "waitasync" ELSE "kill")
          /\ \A y \in Threads : y # Owner => pc'[y] = pc[y]
      BY <1>0, <2>1, ThreadNames
    <2>3. /\ \A y \in Threads : y # Owner => es'[y] = es[y]
          /\ es'[Owner] # "no" => es'[Owner] = "set" /\ ~workerInterrupt
                                  /\ (OwnerTerminate \/ pc'[Owner] = "kill")
      <3>1. CASE es' = es
        BY <2>1, <3>1
      <3>2. CASE Emergency(Owner) /\ ~cleared
        BY <1>0, <1>10, <2>2, <3>2, EmergencyIs
      <3>. QED  BY <1>10, <3>1, <3>2 DEF Destroy, KillThreads
    <2>. HIDE DEF Same
    <2>. QED  BY <2>1, <2>2, <2>3
  <1>11. ASSUME WaitForAsyncThread
        PROVE  /\ Rest /\ Same /\ Calls
               /\ pc[Owner] = "waitasync" /\ pc'[Owner] = "end" /\ es' = es
               /\ \A y \in Threads : y # Owner => pc'[y] = pc[y]
    <2>1. /\ pc[Owner] = "waitasync" /\ es[Owner] = "no" /\ Same
          /\ pc' = [pc EXCEPT ![Owner] = "end"]
          /\ es' = es
      BY <1>11 DEF WaitForAsyncThread, At, flags, members, caller, queues, Goto
    <2>2. pc'[Owner] = "end" /\ \A y \in Threads : y # Owner => pc'[y] = pc[y]
      BY <1>0, <2>1, ThreadNames
    <2>. HIDE DEF Same
    <2>. QED  BY <2>1, <2>2
  <1>. QED  BY <1>1, <1>2, <1>3, <1>4, <1>5, <1>6, <1>7, <1>8, <1>9, <1>10, <1>11 DEF OwnerStep

\* A step of emergency_shutdown().
LEMMA ShutdownMoves ==
  ASSUME Shape, NEW x \in Threads, EmergencyShutdown(x)
  PROVE  /\ \A y \in Threads : y # x => es'[y] = es[y]
         /\ es[x] # "no" /\ es'[x] # "set"
         /\ es'[x] \in {"state", "workers", "main"} => workerInterrupt' \/ es[x] # "set"
         /\ UNCHANGED <<pc, got, joining, aborted, workerTasks, mainTasks, activeThreads, allPushed,
                        failed, joined, cleared, added, taskProducers, processed>>
         /\ SetInterrupt(x) => /\ es[x] = "set" /\ es'[x] = "state" /\ workerInterrupt'
                               /\ UNCHANGED <<workerGuards, mainGuards, asyncState>>
                               /\ interruptFlag' = (HasFlag \/ interruptFlag)
         /\ SetTerminated(x) => /\ es[x] = "state" /\ asyncState' = "TERMINATED"
                                /\ UNCHANGED <<workerGuards, mainGuards, workerInterrupt,
                                               interruptFlag>>
         /\ ShutdownWorkers(x) => /\ es[x] = "workers" /\ workerGuards' = workerGuards + NumWorkers
                                  /\ UNCHANGED <<mainGuards, workerInterrupt, interruptFlag,
                                                 asyncState>>
         /\ ShutdownMain(x) => /\ es[x] = "main" /\ mainGuards' = mainGuards + 1
                               /\ UNCHANGED <<workerGuards, workerInterrupt, interruptFlag,
                                              asyncState>>
  <1>0. es \in [Threads -> {"no", "set", "state", "workers", "main"}]
    BY DEF Shape, ThreadsOK
  <1>1. ASSUME SetInterrupt(x)
        PROVE  /\ es' = [es EXCEPT ![x] = "state"] /\ es[x] = "set" /\ workerInterrupt'
               /\ interruptFlag' = (HasFlag \/ interruptFlag)
               /\ UNCHANGED <<pc, got, joining, aborted, workerTasks, workerGuards, mainTasks,
                              mainGuards, activeThreads, allPushed, asyncState, failed, joined,
                              cleared, added, taskProducers, processed>>
    BY <1>1 DEF SetInterrupt, queues, members, caller
  <1>2. ASSUME SetTerminated(x)
        PROVE  /\ es' = [es EXCEPT ![x] = "workers"] /\ es[x] = "state"
               /\ asyncState' = "TERMINATED"
               /\ UNCHANGED <<pc, got, joining, aborted, workerTasks, workerGuards, mainTasks,
                              mainGuards, activeThreads, allPushed, failed, joined, cleared,
                              added, taskProducers, processed, workerInterrupt, interruptFlag>>
    BY <1>2 DEF SetTerminated, queues, flags, caller
  <1>3. ASSUME ShutdownWorkers(x)
        PROVE  /\ es' = [es EXCEPT ![x] = "main"] /\ es[x] = "workers"
               /\ workerGuards' = workerGuards + NumWorkers
               /\ UNCHANGED <<pc, got, joining, aborted, workerTasks, mainTasks, mainGuards,
                              activeThreads, allPushed, asyncState, failed, joined, cleared,
                              added, taskProducers, processed, workerInterrupt, interruptFlag>>
    BY <1>3 DEF ShutdownWorkers, flags, members, caller
  <1>4. ASSUME ShutdownMain(x)
        PROVE  /\ es' = [es EXCEPT ![x] = "no"] /\ es[x] = "main" /\ mainGuards' = mainGuards + 1
               /\ UNCHANGED <<pc, got, joining, aborted, workerTasks, workerGuards, mainTasks,
                              activeThreads, allPushed, asyncState, failed, joined, cleared,
                              added, taskProducers, processed, workerInterrupt, interruptFlag>>
    BY <1>4 DEF ShutdownMain, flags, members, caller
  <1>. QED  BY <1>0, <1>1, <1>2, <1>3, <1>4 DEF EmergencyShutdown

\* A join.
LEMMA JoinMoves ==
  ASSUME Shape, NEW x \in Threads, Join(x) \/ JoinThrows(x)
  PROVE  /\ x \in {Owner, Main} /\ es[x] = "no" /\ pc[x] \in {"join", "kill"}
         /\ \A y \in Threads : y # x => pc'[y] = pc[y]
         /\ UNCHANGED <<workerTasks, workerGuards, mainTasks, mainGuards, workerInterrupt,
                        interruptFlag, activeThreads, allPushed, asyncState, failed, es, got,
                        added, taskProducers, processed>>
         /\ x = Owner => pc'[x] \in {pc[x], "waitasync"}
         /\ x = Main => \/ pc'[x] = pc[x] \/ pc'[x] = "threw"
                        \/ pc[x] = "join" /\ pc'[x] = "rethrow"
         /\ pc[Owner] # "join"
  <1>0. /\ pc \in [Threads -> Pcs] /\ pc[Owner] # "join" /\ Main # Owner
    BY ThreadNames DEF Shape, ThreadsOK, OwnerPcs
  <1>1. ASSUME Join(x)
        PROVE  /\ x \in {Owner, Main} /\ es[x] = "no" /\ pc[x] \in {"join", "kill"}
               /\ pc' = pc \/ pc' = [pc EXCEPT ![x] = AfterJoin(x)]
               /\ UNCHANGED <<workerTasks, workerGuards, mainTasks, mainGuards, workerInterrupt,
                              interruptFlag, activeThreads, allPushed, asyncState, failed, es, got,
                              added, taskProducers, processed>>
    BY <1>1 DEF Join, At, Goto, queues, flags, caller
  <1>2. ASSUME JoinThrows(x)
        PROVE  /\ x \in {Owner, Main} /\ es[x] = "no" /\ pc[x] \in {"join", "kill"}
               /\ pc' = pc \/ (x = Main /\ pc' = [pc EXCEPT ![x] = "threw"])
               /\ UNCHANGED <<workerTasks, workerGuards, mainTasks, mainGuards, workerInterrupt,
                              interruptFlag, activeThreads, allPushed, asyncState, failed, es, got,
                              added, taskProducers, processed>>
    BY <1>2 DEF JoinThrows, At, Goto, queues, flags, members, caller
  <1>. QED  BY <1>0, <1>1, <1>2 DEF AfterJoin

-----------------------------------------------------------------------------
(* What lasts, and the counter of the workers *)

\* The use of the pool, and what is never taken back.
LEMMA Lasting ==
  ASSUME Shape, [Next]_vars
  PROVE  /\ use' = use /\ Style' = Style /\ HasFlag' = HasFlag /\ Faults' = Faults
         /\ Roots' = Roots /\ Producers' = Producers
         /\ workerInterrupt => workerInterrupt'
         /\ interruptFlag => interruptFlag'
         /\ Interrupted => Interrupted'
         /\ allPushed => allPushed'
         /\ failed \subseteq failed'
  <1>1. use' = use
    BY DEF Next, Step, vars
  <1> DEFINE Kept == /\ workerInterrupt => workerInterrupt'
                     /\ interruptFlag => interruptFlag'
                     /\ allPushed => allPushed'
                     /\ failed \subseteq failed'
  <1>2. ASSUME NEW x \in Threads, EmergencyShutdown(x) PROVE Kept
    <2>1. UNCHANGED <<allPushed, failed>> /\ (workerInterrupt => workerInterrupt')
          /\ (interruptFlag => interruptFlag')
      BY <1>2, ShutdownMoves DEF EmergencyShutdown
    <2>. QED  BY <2>1
  <1>3. ASSUME NEW w \in Workers, WorkerStep(w) PROVE Kept
    <2>1. UNCHANGED <<workerInterrupt, interruptFlag, allPushed>>
      BY <1>3, WorkerMoves
    <2>2. failed' = failed \/ failed' = failed \cup {w}
      BY <1>3 DEF WorkerStep, WorkerPop, WorkerCheck, Produce, ProduceThrows,
         WorkerAgain, WorkerLeave, WorkerGuard, members
    <2>. QED  BY <2>1, <2>2
  <1>4. ASSUME MainStep PROVE Kept
    <2>1. UNCHANGED <<workerInterrupt, interruptFlag, failed>>
      BY <1>4, MainMoves
    <2>2. allPushed => allPushed'
      BY <1>4 DEF MainStep, MainPop, MainCheck, ProcessAdds, Process,
         ProcessThrows, MainAgain, MainFinish, MainSetDone, MainRethrow,
         LeaveTask, MaybeTasksDone, members
    <2>. QED  BY <2>1, <2>2
  <1>5. ASSUME OwnerStep PROVE Kept
    <2>1. UNCHANGED <<workerInterrupt, interruptFlag, failed>>
      BY <1>5, OwnerMoves
    <2>2. allPushed => allPushed'
      BY <1>5 DEF OwnerStep, StartThreads, ProcessAsync, OwnerAdd,
         OwnerTasksDone, OwnerProcess, OwnerPolled, OwnerTerminate, OwnerWait,
         OwnerThrows, Destroy, WaitForAsyncThread, MaybeTasksDone, members
    <2>. QED  BY <2>1, <2>2
  <1>6. ASSUME NEW x \in Threads, Join(x) \/ JoinThrows(x) PROVE Kept
    BY <1>6, JoinMoves
  <1>7. ASSUME External PROVE Kept
    BY <1>7 DEF External, members
  <1>8. ASSUME UNCHANGED vars PROVE Kept
    BY <1>8 DEF vars, flags, members
  <1>9. Kept
    BY <1>2, <1>3, <1>4, <1>5, <1>6, <1>7, <1>8 DEF Next, Step, ThreadStep
  <1>10. HasFlag' = HasFlag /\ Style' = Style /\ Faults' = Faults
    BY <1>1 DEF HasFlag, Style, Faults
  <1>11. Roots' = Roots /\ Producers' = Producers
    BY <1>1 DEF Roots, Producers, Children
  <1>. QED  BY <1>1, <1>9, <1>10, <1>11 DEF Interrupted

\* emergency_shutdown() sets the flag before it goes on.
LEMMA FlaggedStep == Shape /\ Flagged /\ [Next]_vars => Flagged'
  <1> SUFFICES ASSUME Shape, Flagged, [Next]_vars PROVE Flagged'
    OBVIOUS
  <1>0. workerInterrupt => workerInterrupt'
    BY Lasting
  <1>1. ASSUME NEW x \in Threads, EmergencyShutdown(x) PROVE Flagged'
    <2>1. es[x] \in {"no", "set", "state", "workers", "main"}
      BY DEF Shape, ThreadsOK
    <2>. QED  BY <1>0, <1>1, <2>1, ShutdownMoves DEF Flagged
  <1>2. ASSUME NEW w \in Workers, WorkerStep(w) PROVE Flagged'
    <2>1. es'[w] \in {"no", "set"}
      BY <1>2, WorkerMoves DEF WorkerStep
    <2>. QED  BY <1>0, <1>2, <2>1, WorkerMoves DEF Flagged
  <1>3. ASSUME MainStep PROVE Flagged'
    BY <1>0, <1>3, MainMoves DEF Flagged
  <1>4. ASSUME OwnerStep PROVE Flagged'
    BY <1>0, <1>4, OwnerMoves DEF Flagged
  <1>5. ASSUME NEW x \in Threads, Join(x) \/ JoinThrows(x) PROVE Flagged'
    BY <1>0, <1>5, JoinMoves DEF Flagged
  <1>6. ASSUME External PROVE Flagged'
    BY <1>0, <1>6 DEF Flagged, External, threads
  <1>7. CASE UNCHANGED vars
    BY <1>0, <1>7 DEF Flagged, vars, threads
  <1>. QED  BY <1>1, <1>2, <1>3, <1>4, <1>5, <1>6, <1>7 DEF Next, Step, ThreadStep

\* Nothing happens before the owner has called process_async() or adds tasks.
LEMMA FreshStep == Shape /\ Fresh /\ [Next]_vars => Fresh'
  <1> SUFFICES ASSUME Shape, Fresh, [Next]_vars, pc'[Owner] \in {"start", "async"}
               PROVE  Fresh'
    BY DEF Fresh
  <1>1. ASSUME NEW x \in Threads, EmergencyShutdown(x) PROVE Fresh'
    BY <1>1, ShutdownMoves DEF Fresh
  <1>2. ASSUME NEW w \in Workers, WorkerStep(w) PROVE Fresh'
    <2>1. pc[Owner] \in {"start", "async"}
      BY <1>2, WorkerMoves, ThreadNames
    <2>2. pc[w] \in {"none", "pop"} /\ workerGuards = 0 /\ \A p \in 1..4 : workerTasks[p] = <<>>
      BY <2>1 DEF Fresh
    <2>3. WorkerPop(w)
      BY <1>2, <2>2, WorkerMoves DEF WorkerStep
    <2>4. PopWorkerTasks(w)
      BY <2>3 DEF WorkerPop
    <2>. QED  BY <2>2, <2>4, PopIs
  <1>3. ASSUME MainStep PROVE Fresh'
    <2>1. pc[Owner] \in {"start", "async"} /\ pc[Main] # "none"
      BY <1>3, MainMoves, ThreadNames DEF MainStep
    <2>. QED  BY <2>1 DEF Fresh
  <1>4. ASSUME OwnerStep PROVE Fresh'
    <2>1. StartThreads
      BY <1>4, OwnerMoves, ThreadNames DEF OwnerStep
    <2>2. /\ pc[Owner] = "start" /\ es' = es /\ pc'[Main] = pc[Main]
          /\ \A w \in Workers : pc'[w] = "pop"
      BY <1>4, <2>1, OwnerMoves
    <2>3. UNCHANGED <<workerTasks, workerGuards, workerInterrupt, failed, allPushed>>
      BY <2>1 DEF StartThreads, queues, flags, members
    <2>. QED  BY <2>2, <2>3 DEF Fresh
  <1>5. ASSUME NEW x \in Threads, Join(x) \/ JoinThrows(x) PROVE Fresh'
    <2>1. x \in {Owner, Main} /\ pc[x] \in {"join", "kill"}
      BY <1>5, JoinMoves
    <2>2. CASE x = Owner
      BY <1>5, <2>1, <2>2, JoinMoves
    <2>3. CASE x = Main
      <3>1. pc[Owner] \in {"start", "async"}
        BY <1>5, <2>3, JoinMoves, ThreadNames
      <3>. QED  BY <2>1, <2>3, <3>1 DEF Fresh
    <2>. QED  BY <2>1, <2>2, <2>3
  <1>6. ASSUME External PROVE Fresh'
    BY <1>6 DEF Fresh, External, queues, members, threads
  <1>7. CASE UNCHANGED vars
    BY <1>7 DEF Fresh, vars, queues, flags, members, threads
  <1>. QED  BY <1>1, <1>2, <1>3, <1>4, <1>5, <1>6, <1>7 DEF Next, Step, ThreadStep

\* The counted workers are finitely many.
LEMMA LiveFinite ==
  ASSUME Shape
  PROVE  /\ IsFiniteSet(Live) /\ Cardinality(Live) \in Nat /\ Cardinality(Live) <= NumWorkers
         /\ Live = {} <=> Cardinality(Live) = 0
         /\ failed \subseteq Live
  <1>1. IsFiniteSet(Workers) /\ Cardinality(Workers) = NumWorkers
    BY ThreadNames, FS_Interval
  <1>2. Live \subseteq Workers /\ failed \subseteq Live
    BY DEF Live, Shape, MembersOK
  <1>3. IsFiniteSet(Live) /\ Cardinality(Live) <= Cardinality(Workers)
    BY <1>1, <1>2, FS_Subset
  <1>. QED  BY <1>1, <1>2, <1>3, FS_CardinalityType, FS_EmptySet

\* m_active_threads stays when no worker moves.
LEMMA CountedSame ==
  ASSUME Shape, Counted, UNCHANGED <<activeThreads, failed>>, \A w \in Workers : pc'[w] = pc[w]
  PROVE  Counted'
  <1>1. Live' = Live
    BY DEF Live
  <1>2. \A w \in failed : w \in Workers
    BY DEF Shape, MembersOK
  <1>. QED  BY <1>1, <1>2 DEF Counted

\* m_active_threads counts the workers that did not leave, failed ones included.
LEMMA CountedStep == Shape /\ Fresh /\ Counted /\ [Next]_vars => Counted'
  <1> SUFFICES ASSUME Shape, Fresh, Counted, [Next]_vars PROVE Counted'
    OBVIOUS
  <1>1. ASSUME NEW x \in Threads, EmergencyShutdown(x) PROVE Counted'
    BY <1>1, ShutdownMoves, CountedSame
  <1>2. ASSUME NEW w \in Workers, WorkerStep(w) PROVE Counted'
    <2>0. /\ \A v \in Workers : v # w => pc'[v] = pc[v]
          /\ pc[w] # "exit" /\ w \notin failed /\ \A v \in failed : v \in Workers
      BY <1>2, WorkerMoves, ThreadNames DEF Counted, Shape, MembersOK
    <2>1. CASE WorkerPop(w) \/ WorkerCheck(w) \/ Produce(w) \/ WorkerAgain(w)
      <3>1. pc[w] \notin {"guard", "exit"} /\ pc'[w] \notin {"guard", "exit"}
        BY <1>2, <2>1, WorkerMoves
      <3>2. UNCHANGED <<activeThreads, failed>>
        BY <2>1 DEF WorkerPop, WorkerCheck, Produce, WorkerAgain, members
      <3>3. Live' = Live
        BY <2>0, <3>1, <3>2 DEF Live
      <3>. QED  BY <2>0, <3>1, <3>2, <3>3 DEF Counted
    <2>2. CASE ProduceThrows(w)
      <3>1. pc[w] = "run" /\ pc'[w] = "exit"
        BY <1>2, <2>2, WorkerMoves
      <3>2. activeThreads' = activeThreads /\ failed' = failed \cup {w}
        BY <2>2 DEF ProduceThrows
      <3>3. Live' = Live
        BY <2>0, <3>1, <3>2 DEF Live
      <3>. QED  BY <2>0, <3>1, <3>2, <3>3 DEF Counted
    <2>3. CASE WorkerLeave(w)
      <3>1. pc[w] = "leave" /\ pc'[w] = IF activeThreads = 1 THEN "guard" ELSE "exit"
        BY <1>2, <2>3, WorkerMoves
      <3>2. activeThreads' = activeThreads - 1 /\ failed' = failed
        BY <2>3 DEF WorkerLeave
      <3>3. Live' = Live \ {w} /\ w \in Live
        BY <2>0, <3>1, <3>2 DEF Live
      <3>4. IsFiniteSet(Live) /\ Cardinality(Live) \in Nat
        BY LiveFinite
      <3>5. Cardinality(Live') = Cardinality(Live) - 1
        BY <3>3, <3>4, FS_RemoveElement
      <3>6. activeThreads = Cardinality(Live)
        BY DEF Counted
      <3>7. \A v \in Workers : pc'[v] = "guard" => activeThreads' = 0
        <4>1. CASE activeThreads = 1
          BY <3>2, <4>1
        <4>2. CASE activeThreads # 1
          <5>1. pc'[w] = "exit"
            BY <3>1, <4>2
          <5>2. activeThreads # 0
            BY <3>3, <3>6, LiveFinite
          <5>. QED  BY <2>0, <5>1, <5>2 DEF Counted
        <4>. QED  BY <4>1, <4>2
      <3>. QED  BY <2>0, <3>2, <3>5, <3>6, <3>7 DEF Counted
    <2>4. CASE WorkerGuard(w)
      <3>1. pc[w] = "guard" /\ pc'[w] = "exit"
        BY <1>2, <2>4, WorkerMoves
      <3>2. UNCHANGED <<activeThreads, failed>>
        BY <2>4 DEF WorkerGuard, members
      <3>3. Live' = Live
        BY <2>0, <3>1, <3>2 DEF Live
      <3>. QED  BY <2>0, <3>1, <3>2, <3>3 DEF Counted
    <2>. QED  BY <1>2, <2>1, <2>2, <2>3, <2>4 DEF WorkerStep
  <1>3. ASSUME MainStep PROVE Counted'
    BY <1>3, MainMoves, CountedSame, ThreadNames
  <1>4. ASSUME OwnerStep PROVE Counted'
    <2>0. UNCHANGED <<activeThreads, failed>>
      BY <1>4, OwnerMoves
    <2>1. CASE StartThreads
      <3>1. pc[Owner] = "start" /\ \A w \in Workers : pc'[w] = "pop"
        BY <1>4, <2>1, OwnerMoves
      <3>2. failed = {} /\ \A w \in Workers : pc[w] \in {"none", "pop"}
        BY <3>1 DEF Fresh
      <3>3. Live' = Live
        BY <2>0, <3>1, <3>2 DEF Live
      <3>. QED  BY <2>0, <3>1, <3>2, <3>3 DEF Counted
    <2>2. CASE ~StartThreads
      <3>1. \A w \in Workers : pc'[w] = pc[w]
        BY <1>4, <2>2, OwnerMoves, ThreadNames DEF OwnerStep
      <3>. QED  BY <2>0, <3>1, CountedSame
    <2>. QED  BY <2>1, <2>2
  <1>5. ASSUME NEW x \in Threads, Join(x) \/ JoinThrows(x) PROVE Counted'
    BY <1>5, JoinMoves, CountedSame, ThreadNames
  <1>6. ASSUME External PROVE Counted'
    BY <1>6, CountedSame DEF External, members, threads
  <1>7. CASE UNCHANGED vars
    BY <1>7, CountedSame DEF vars, members, threads
  <1>. QED  BY <1>1, <1>2, <1>3, <1>4, <1>5, <1>6, <1>7 DEF Next, Step, ThreadStep

-----------------------------------------------------------------------------
(* The guards come last *)

\* Which steps touch the queue of the workers, and m_active_threads.
LEMMA QueueSteps ==
  ASSUME Shape, [Next]_vars
  PROVE  /\ workerTasks' = workerTasks
            \/ (\E w \in Workers : WorkerPop(w))
            \/ (~allPushed /\ \E t \in use.tasks : AddTask(t) /\ t \notin added)
         /\ activeThreads' = activeThreads \/ (\E w \in Workers : WorkerLeave(w))
         /\ mainTasks' = mainTasks \/ (\E w \in Workers : Produce(w)) \/ MainPop
  <1> DEFINE Goal ==
               /\ workerTasks' = workerTasks
                  \/ (\E w \in Workers : WorkerPop(w))
                  \/ (~allPushed /\ \E t \in use.tasks : AddTask(t) /\ t \notin added)
               /\ activeThreads' = activeThreads \/ (\E w \in Workers : WorkerLeave(w))
               /\ mainTasks' = mainTasks \/ (\E w \in Workers : Produce(w)) \/ MainPop
  <1>1. ASSUME NEW x \in Threads, EmergencyShutdown(x) PROVE Goal
    BY <1>1, ShutdownMoves
  <1>2. ASSUME NEW w \in Workers, WorkerStep(w) PROVE Goal
    BY <1>2 DEF WorkerStep, WorkerPop, WorkerCheck, Produce, ProduceThrows,
       WorkerAgain, WorkerLeave, WorkerGuard, members, queues
  <1>3. ASSUME MainStep PROVE Goal
    <2>1. activeThreads' = activeThreads
      BY <1>3, MainMoves
    <2>2. CASE \E t \in use.tasks : ProcessAdds(t)
      BY <2>1, <2>2 DEF ProcessAdds, AddTask
    <2>3. CASE ~\E t \in use.tasks : ProcessAdds(t)
      BY <1>3, <2>1, <2>3 DEF MainStep, MainPop, MainCheck, Process,
         ProcessThrows, MainAgain, MainFinish, MainSetDone, MainRethrow, queues
    <2>. QED  BY <2>2, <2>3
  <1>4. ASSUME OwnerStep PROVE Goal
    <2>1. UNCHANGED <<activeThreads, mainTasks>>
      BY <1>4, OwnerMoves
    <2>2. CASE \E t \in use.tasks : OwnerAdd(t)
      BY <2>1, <2>2 DEF OwnerAdd, AddTask
    <2>3. CASE ~\E t \in use.tasks : OwnerAdd(t)
      BY <1>4, <2>1, <2>3 DEF OwnerStep, StartThreads, ProcessAsync,
         OwnerTasksDone, OwnerProcess, OwnerPolled, OwnerTerminate, OwnerWait,
         OwnerThrows, Destroy, WaitForAsyncThread, queues
    <2>. QED  BY <2>2, <2>3
  <1>5. ASSUME NEW x \in Threads, Join(x) \/ JoinThrows(x) PROVE Goal
    BY <1>5, JoinMoves
  <1>6. ASSUME External PROVE Goal
    BY <1>6 DEF External, queues, members
  <1>7. ASSUME UNCHANGED vars PROVE Goal
    BY <1>7 DEF vars, queues, members
  <1>8. Goal
    BY <1>1, <1>2, <1>3, <1>4, <1>5, <1>6, <1>7 DEF Next, Step, ThreadStep
  <1>. QED  BY <1>8

\* Once all the tasks were taken there are no more.
LEMMA EmptyStays ==
  ASSUME Shape, [Next]_vars, Empty
  PROVE  Empty'
  <1>1. allPushed' /\ \A p \in 1..4 : workerTasks[p] = <<>>
    BY Lasting DEF Empty
  <1>2. CASE workerTasks' = workerTasks
    BY <1>1, <1>2 DEF Empty
  <1>3. CASE \E w \in Workers : WorkerPop(w)
    <2>1. PICK w \in Workers : PopWorkerTasks(w)
      BY <1>3 DEF WorkerPop
    <2>2. workerTasks' = workerTasks
      BY <1>1, <2>1, PopIs
    <2>. QED  BY <1>1, <2>2 DEF Empty
  <1>. QED  BY <1>2, <1>3, QueueSteps DEF Empty

\* Once all the workers have left there are no more results.
LEMMA NobodyStays ==
  ASSUME Shape, Counted, [Next]_vars, activeThreads = 0
  PROVE  /\ activeThreads' = 0 /\ (mainTasks = <<>> => mainTasks' = <<>>)
         /\ \A w \in Workers : pc[w] \in {"guard", "exit"} /\ w \notin failed
  <1>1. Live = {}
    BY LiveFinite DEF Counted
  <1>2. \A w \in Workers : pc[w] \in {"guard", "exit"} /\ w \notin failed
    BY <1>1 DEF Live
  <1>3. \A w \in Workers : ~WorkerLeave(w) /\ ~Produce(w)
    BY <1>2 DEF WorkerLeave, Produce, At
  <1>4. MainPop /\ mainTasks = <<>> => mainTasks' = mainTasks
    BY DEF MainPop, PopMainTasks
  <1>. QED  BY <1>2, <1>3, <1>4, QueueSteps

\* Who pushes guards.
LEMMA GuardSteps ==
  ASSUME Shape, Flagged, Counted, [Next]_vars
  PROVE  /\ workerGuards' > 0 => workerGuards > 0 \/ allPushed' \/ workerInterrupt
         /\ mainGuards' > 0 => mainGuards > 0 \/ activeThreads = 0 \/ workerInterrupt
  <1> DEFINE Goal ==
               /\ workerGuards' > 0 => workerGuards > 0 \/ allPushed' \/ workerInterrupt
               /\ mainGuards' > 0 => mainGuards > 0 \/ activeThreads = 0 \/ workerInterrupt
  <1>0. workerGuards \in Nat /\ mainGuards \in Nat
    BY DEF Shape, QueuesOK
  <1>1. ASSUME NEW x \in Threads, EmergencyShutdown(x) PROVE Goal
    BY <1>1, ShutdownMoves DEF EmergencyShutdown, Flagged
  <1>2. ASSUME NEW w \in Workers, WorkerStep(w) PROVE Goal
    <2>1. CASE WorkerPop(w)
      <3>1. workerGuards' = workerGuards \/ workerGuards > 0
        BY <2>1, PopIs DEF WorkerPop
      <3>2. mainGuards' = mainGuards
        BY <2>1 DEF WorkerPop
      <3>. QED  BY <3>1, <3>2
    <2>2. CASE WorkerGuard(w)
      <3>1. activeThreads = 0 /\ workerGuards' = workerGuards
        BY <2>2 DEF WorkerGuard, At, Counted
      <3>. QED  BY <3>1
    <2>3. CASE ~WorkerPop(w) /\ ~WorkerGuard(w)
      BY <1>2, <2>3 DEF WorkerStep, WorkerCheck, Produce, ProduceThrows,
         WorkerAgain, WorkerLeave, queues
    <2>. QED  BY <2>1, <2>2, <2>3
  <1>3. ASSUME MainStep PROVE Goal
    BY <1>0, <1>3 DEF MainStep, MainPop, PopMainTasks, MainCheck, ProcessAdds,
       Process, ProcessThrows, MainAgain, MainFinish, MainSetDone, MainRethrow,
       LeaveTask, MaybeTasksDone, queues
  <1>4. ASSUME OwnerStep PROVE Goal
    <2>1. mainGuards' = mainGuards
      BY <1>4, OwnerMoves
    <2>2. workerGuards' > 0 => workerGuards > 0 \/ allPushed'
      BY <1>4 DEF OwnerStep, StartThreads, ProcessAsync, OwnerAdd,
         OwnerTasksDone, OwnerProcess, OwnerPolled, OwnerTerminate, OwnerWait,
         OwnerThrows, Destroy, WaitForAsyncThread, MaybeTasksDone, queues
    <2>. QED  BY <2>1, <2>2
  <1>5. ASSUME NEW x \in Threads, Join(x) \/ JoinThrows(x) PROVE Goal
    BY <1>5, JoinMoves
  <1>6. ASSUME External PROVE Goal
    BY <1>6 DEF External, queues
  <1>7. ASSUME UNCHANGED vars PROVE Goal
    BY <1>7 DEF vars, queues
  <1>8. Goal
    BY <1>1, <1>2, <1>3, <1>4, <1>5, <1>6, <1>7 DEF Next, Step, ThreadStep
  <1>. QED  BY <1>8

\* Only a worker's own step, and the start of the threads, move it.
LEMMA OthersStay ==
  ASSUME Shape, [Next]_vars, NEW v \in Workers
  PROVE  \/ pc'[v] = pc[v] /\ got'[v] = got[v] /\ es'[v] = es[v]
         \/ WorkerStep(v)
         \/ StartThreads
         \/ EmergencyShutdown(v) /\ pc'[v] = pc[v] /\ got'[v] = got[v]
  <1>0. v \in Threads /\ v # Owner /\ v # Main
    BY ThreadNames
  <1> DEFINE Stays == pc'[v] = pc[v] /\ got'[v] = got[v] /\ es'[v] = es[v]
             Goal  == Stays \/ WorkerStep(v) \/ StartThreads
                      \/ (EmergencyShutdown(v) /\ pc'[v] = pc[v] /\ got'[v] = got[v])
  <1>1. ASSUME NEW x \in Threads, EmergencyShutdown(x) PROVE Goal
    BY <1>0, <1>1, ShutdownMoves
  <1>2. ASSUME NEW w \in Workers, WorkerStep(w) PROVE Goal
    BY <1>0, <1>2, WorkerMoves
  <1>3. ASSUME MainStep PROVE Goal
    BY <1>0, <1>3, MainMoves
  <1>4. ASSUME OwnerStep PROVE Goal
    <2>1. got' = got /\ es'[v] = es[v]
      BY <1>0, <1>4, OwnerMoves
    <2>2. StartThreads \/ pc'[v] = pc[v]
      BY <1>0, <1>4, OwnerMoves DEF OwnerStep
    <2>. QED  BY <2>1, <2>2
  <1>5. ASSUME NEW x \in Threads, Join(x) \/ JoinThrows(x) PROVE Goal
    BY <1>0, <1>5, JoinMoves
  <1>6. ASSUME External PROVE Goal
    BY <1>6 DEF External, threads
  <1>7. ASSUME UNCHANGED vars PROVE Goal
    BY <1>7 DEF vars, threads
  <1>8. Goal
    BY <1>1, <1>2, <1>3, <1>4, <1>5, <1>6, <1>7 DEF Next, Step, ThreadStep
  <1>. QED  BY <1>8

\* The ways to the places of process().
LEMMA MainTargets ==
  ASSUME Shape, [Next]_vars
  PROVE  \/ pc'[Main] = pc[Main] /\ got'[Main] = got[Main]
         \/ MainStep /\ \/ MainPop /\ pc'[Main] = "popped"
                        \/ MainCheck /\ pc'[Main] \in {"finish", "run"}
                        \/ MainAgain /\ pc'[Main] \in {"finish", "pop"}
                        \/ Process /\ pc'[Main] = "ran"
                        \/ ProcessThrows /\ pc'[Main] \in {"kill", "threw"}
                        \/ MainFinish /\ pc'[Main] \in {"join", "setdone"}
                        \/ MainSetDone /\ pc'[Main] = "join"
                        \/ MainRethrow /\ pc'[Main] \in {"threw", "returned"}
         \/ /\ ProcessAsync \/ OwnerProcess
            /\ pc[Owner] \in {"async", "process"} /\ pc'[Main] = "pop" /\ got' = got
         \/ /\ Join(Main) \/ JoinThrows(Main)
            /\ pc[Main] \in {"join", "kill"} /\ got' = got
            /\ pc'[Main] = "threw" \/ (pc[Main] = "join" /\ pc'[Main] = "rethrow")
  <1>0. Main \in Threads /\ Main # Owner /\ Main \notin Workers
    BY ThreadNames
  <1> DEFINE Stays == pc'[Main] = pc[Main] /\ got'[Main] = got[Main]
             Moves1 == MainStep /\ \/ MainPop /\ pc'[Main] = "popped"
                                   \/ MainCheck /\ pc'[Main] \in {"finish", "run"}
                                   \/ MainAgain /\ pc'[Main] \in {"finish", "pop"}
                                   \/ Process /\ pc'[Main] = "ran"
                                   \/ ProcessThrows /\ pc'[Main] \in {"kill", "threw"}
                                   \/ MainFinish /\ pc'[Main] \in {"join", "setdone"}
                                   \/ MainSetDone /\ pc'[Main] = "join"
                                   \/ MainRethrow /\ pc'[Main] \in {"threw", "returned"}
             Starts == /\ ProcessAsync \/ OwnerProcess
                       /\ pc[Owner] \in {"async", "process"} /\ pc'[Main] = "pop" /\ got' = got
             Joined == /\ Join(Main) \/ JoinThrows(Main)
                       /\ pc[Main] \in {"join", "kill"} /\ got' = got
                       /\ pc'[Main] = "threw" \/ (pc[Main] = "join" /\ pc'[Main] = "rethrow")
             Goal == Stays \/ Moves1 \/ Starts \/ Joined
  <1>1. ASSUME NEW x \in Threads, EmergencyShutdown(x) PROVE Stays
    BY <1>0, <1>1, ShutdownMoves
  <1>2. ASSUME NEW w \in Workers, WorkerStep(w) PROVE Stays
    BY <1>0, <1>2, WorkerMoves
  <1>3. ASSUME MainStep PROVE Stays \/ Moves1
    BY <1>3, MainMoves DEF MainStep
  <1>4. ASSUME OwnerStep PROVE Stays \/ Starts
    <2>1. got' = got
      BY <1>4, OwnerMoves
    <2>. QED  BY <1>0, <1>4, <2>1, OwnerMoves DEF OwnerStep
  <1>5. ASSUME NEW x \in Threads, Join(x) \/ JoinThrows(x) PROVE Stays \/ Joined
    BY <1>0, <1>5, JoinMoves
  <1>6. ASSUME External PROVE Stays
    BY <1>6 DEF External, threads
  <1>7. ASSUME UNCHANGED vars PROVE Stays
    BY <1>7 DEF vars, threads
  <1> HIDE DEF Stays, Moves1, Starts, Joined
  <1>8. Goal
    BY <1>1, <1>2, <1>3, <1>4, <1>5, <1>6, <1>7 DEF Next, Step, ThreadStep
  <1>. QED  BY <1>8 DEF Stays, Moves1, Starts, Joined

\* A worker leaves, and process() ends, when there is nothing left.
LEMMA GuardsStep == Shape /\ Flagged /\ Counted /\ Guards /\ [Next]_vars => Guards'
  <1> SUFFICES ASSUME Shape, Flagged, Counted, Guards, [Next]_vars PROVE Guards'
    OBVIOUS
  <1> DEFINE Leaves(w) == \/ pc[w] = "popped" /\ got[w] = None
                          \/ pc[w] = "leave"
                          \/ pc[w] \in {"guard", "exit"} /\ w \notin failed
             Ends == \/ pc[Main] = "popped" /\ got[Main] = None
                     \/ pc[Main] = "finish"
  <1>1. /\ workerInterrupt => workerInterrupt'
        /\ Interrupted => Interrupted'
        /\ allPushed => allPushed'
        /\ failed \subseteq failed'
    BY Lasting
  <1>2. (Empty => Empty') /\ (Quiet => Quiet') /\ (activeThreads = 0 => activeThreads' = 0)
    BY EmptyStays, NobodyStays DEF Quiet
  <1>3. workerGuards' > 0 => allPushed' \/ workerInterrupt'
    BY <1>1, GuardSteps DEF Guards
  <1>4. mainGuards' > 0 => activeThreads' = 0 \/ workerInterrupt'
    BY <1>1, <1>2, GuardSteps DEF Guards
  <1>5. ASSUME NEW v \in Workers, Leaves(v)' PROVE Empty' \/ Interrupted'
    <2>0. Leaves(v) => Empty' \/ Interrupted'
      BY <1>1, <1>2 DEF Guards
    <2>1. CASE pc'[v] = pc[v] /\ got'[v] = got[v]
      BY <1>1, <1>5, <2>0, <2>1
    <2>2. CASE WorkerStep(v)
      <3>1. CASE WorkerPop(v)
        <4>1. /\ pc'[v] = "popped"
              /\ got'[v] = None
              /\ PopWorkerTasks(v)
              /\ got \in [Threads -> Tasks \cup {None}]
          BY <1>5, <2>2, <3>1, WorkerMoves DEF WorkerPop, Shape, ThreadsOK
        <4>2. None \notin Tasks /\ v \in Threads
          BY PoolAssumption, ThreadNames
        <4>3. \A p \in 1..4 : workerTasks[p] = <<>> /\ workerTasks' = workerTasks
              /\ workerGuards > 0
          BY <4>1, <4>2, PopIs, SeqParts
        <4>. QED  BY <1>1, <4>3 DEF Guards, Empty, Interrupted
      <3>2. CASE WorkerCheck(v)
        BY <1>1, <1>5, <2>0, <2>2, <3>2, WorkerMoves
      <3>3. CASE Produce(v)
        BY <1>5, <2>2, <3>3, WorkerMoves
      <3>4. CASE ProduceThrows(v)
        <4>1. v \in failed' /\ pc'[v] = "exit"
          BY <2>2, <3>4, WorkerMoves DEF ProduceThrows
        <4>. QED  BY <1>5, <4>1
      <3>5. CASE WorkerAgain(v)
        BY <1>1, <1>5, <2>2, <3>5, WorkerMoves
      <3>6. CASE WorkerLeave(v) \/ WorkerGuard(v)
        <4>1. pc[v] = "leave" \/ pc[v] = "guard"
          BY <2>2, <3>6, WorkerMoves
        <4>2. v \notin failed
          BY <4>1 DEF Counted
        <4>. QED  BY <2>0, <4>1, <4>2
      <3>. QED  BY <2>2, <3>1, <3>2, <3>3, <3>4, <3>5, <3>6 DEF WorkerStep
    <2>3. CASE StartThreads
      <3>1. pc'[v] = "pop"
        BY <2>3, OwnerMoves DEF OwnerStep
      <3>. QED  BY <1>5, <3>1
    <2>4. \/ pc'[v] = pc[v] /\ got'[v] = got[v]
          \/ WorkerStep(v) \/ StartThreads
      BY OthersStay
    <2>. QED  BY <2>1, <2>2, <2>3, <2>4
  <1>6. Ends' => Quiet' \/ Interrupted'
    <2>0. Ends => Quiet' \/ Interrupted'
      BY <1>1, <1>2 DEF Guards
    <2>1. CASE pc'[Main] = pc[Main] /\ got'[Main] = got[Main]
      BY <2>0, <2>1
    <2>2. CASE MainPop
      <3>1. ASSUME got'[Main] = None PROVE mainTasks = <<>> /\ mainTasks' = <<>> /\ mainGuards > 0
        <4>1. /\ got \in [Threads -> Tasks \cup {None}] /\ mainTasks \in Seq(Tasks)
              /\ None \notin Tasks /\ Main \in Threads
          BY PoolAssumption, ThreadNames DEF Shape, ThreadsOK, QueuesOK
        <4>2. PopMainTasks(Main)
          BY <2>2 DEF MainPop
        <4>. QED  BY <3>1, <4>1, <4>2, SeqParts DEF PopMainTasks
      <3>2. pc'[Main] = "popped"
        BY <2>2, MainMoves DEF MainStep
      <3>. QED  BY <1>1, <1>2, <3>1, <3>2 DEF Guards, Quiet, Interrupted
    <2>3. CASE MainCheck
      <3>1. /\ pc[Main] = "popped" /\ got' = got
            /\ pc'[Main] = IF Interrupted \/ got[Main] = None THEN "finish" ELSE "run"
        BY <2>3, MainMoves DEF MainStep
      <3>. QED  BY <1>1, <2>0, <3>1
    <2>4. CASE MainAgain
      <3>1. pc'[Main] = IF Interrupted THEN "finish" ELSE "pop"
        BY <2>4, MainMoves DEF MainStep
      <3>. QED  BY <1>1, <3>1
    <2>5. CASE pc'[Main] \notin {"popped", "finish"}
      BY <2>5
    <2>. QED  BY <2>1, <2>2, <2>3, <2>4, <2>5, MainTargets
  <1>7. pc'[Main] = "setdone" => Quiet'
    <2>1. CASE pc[Main] = "setdone"
      BY <1>2, <2>1 DEF Guards
    <2>2. CASE MainFinish
      <3>1. pc[Main] = "finish" /\ pc'[Main] = IF Interrupted THEN "join" ELSE "setdone"
        BY <2>2, MainMoves DEF MainStep
      <3>. QED  BY <1>2, <3>1 DEF Guards
    <2>. QED  BY <2>1, <2>2, MainTargets
  <1>. QED  BY <1>3, <1>4, <1>5, <1>6, <1>7 DEF Guards

-----------------------------------------------------------------------------
(* Failures stay visible *)

\* m_async_state is TERMINATED, or about to be, once a worker has failed.
LEMMA ShownStep ==
  Shape /\ Fresh /\ Flagged /\ Counted /\ Guards /\ Shown /\ [Next]_vars => Shown'
  <1> SUFFICES ASSUME Shape, Fresh, Flagged, Counted, Guards, Shown, [Next]_vars PROVE Shown'
    OBVIOUS
  <1> DEFINE Calling == \E x \in Threads : es[x] \in {"set", "state"}
             Setting == \E x \in Threads : es[x] = "state"
  <1>0. activeThreads \in Nat
    BY LiveFinite DEF Counted
  <1>1. ASSUME NEW x \in Threads, EmergencyShutdown(x) PROVE Shown'
    <2>0. UNCHANGED <<failed, activeThreads>> /\ \A y \in Threads : y # x => es'[y] = es[y]
      BY <1>1, ShutdownMoves
    <2>1. CASE SetInterrupt(x)
      <3>1. es'[x] = "state"
        BY <1>1, <2>1, ShutdownMoves
      <3>. QED  BY <3>1 DEF Shown
    <2>2. CASE SetTerminated(x)
      BY <1>1, <2>2, ShutdownMoves DEF Shown
    <2>3. CASE ShutdownWorkers(x) \/ ShutdownMain(x)
      <3>1. es[x] \in {"workers", "main"} /\ UNCHANGED <<asyncState, workerInterrupt>>
        BY <1>1, <2>3, ShutdownMoves
      <3>2. (Calling => Calling') /\ (Setting => Setting')
        BY <2>0, <3>1
      <3>. QED  BY <2>0, <3>1, <3>2 DEF Shown
    <2>. QED  BY <1>1, <2>1, <2>2, <2>3 DEF EmergencyShutdown
  <1>2. ASSUME NEW w \in Workers, WorkerStep(w) PROVE Shown'
    <2>0. /\ es[w] = "no" /\ w \in Threads /\ \A y \in Threads : y # w => es'[y] = es[y]
          /\ workerInterrupt' = workerInterrupt
      BY <1>2, WorkerMoves, ThreadNames
    <2>1. (Calling => Calling') /\ (Setting => Setting')
      BY <2>0
    <2>2. CASE WorkerPop(w) \/ WorkerCheck(w) \/ Produce(w) \/ WorkerAgain(w) \/ WorkerGuard(w)
      <3>1. UNCHANGED <<asyncState, failed, activeThreads>>
        BY <2>2 DEF WorkerPop, WorkerCheck, Produce, WorkerAgain, WorkerGuard,
           members
      <3>. QED  BY <2>0, <2>1, <3>1 DEF Shown
    <2>3. CASE ProduceThrows(w)
      <3>1. UNCHANGED <<asyncState, activeThreads>>
        BY <2>3 DEF ProduceThrows
      <3>2. /\ pc[w] = "run" /\ es'[w] \in {"no", "set"}
            /\ workerInterrupt <=> es'[w] = "no"
        BY <1>2, <2>3, WorkerMoves
      <3>3. activeThreads > 0
        <4>1. w \in Live
          BY <3>2 DEF Live
        <4>. QED  BY <1>0, <4>1, LiveFinite DEF Counted
      <3>4. CASE workerInterrupt
        BY <2>0, <2>1, <3>1, <3>3, <3>4 DEF Shown
      <3>5. CASE ~workerInterrupt
        <4>1. Calling'
          BY <2>0, <3>2, <3>5
        <4>. QED  BY <2>0, <3>5, <4>1 DEF Shown
      <3>. QED  BY <3>4, <3>5
    <2>4. CASE WorkerLeave(w)
      <3>1. /\ failed' = failed /\ activeThreads' = activeThreads - 1
            /\ activeThreads # 1 => asyncState' = asyncState
        BY <2>4 DEF WorkerLeave
      <3>2. CASE activeThreads = 1
        <4>1. w \in Live /\ w \notin failed
          BY <1>2, <2>4, WorkerMoves DEF Live, Counted
        <4>2. Live = {w}
          <5>1. IsFiniteSet(Live) /\ Cardinality(Live) = 1
            BY <3>2, LiveFinite DEF Counted
          <5>2. PICK e : Live = {e}
            BY <5>1, FS_Singleton
          <5>. QED  BY <4>1, <5>2
        <4>3. failed = {}
          BY <4>1, <4>2, LiveFinite
        <4>. QED  BY <3>1, <3>2, <4>3 DEF Shown
      <3>3. CASE activeThreads # 1
        <4>1. activeThreads' > 0 => activeThreads > 0
          BY <1>0, <3>1
        <4>. QED  BY <2>0, <2>1, <3>1, <3>3, <4>1 DEF Shown
      <3>. QED  BY <3>2, <3>3
    <2>. QED  BY <1>2, <2>2, <2>3, <2>4 DEF WorkerStep
  <1>3. ASSUME MainStep PROVE Shown'
    <2>0. /\ es[Main] = "no" /\ Main \in Threads /\ \A y \in Threads : y # Main => es'[y] = es[y]
          /\ UNCHANGED <<workerInterrupt, activeThreads, failed>>
      BY <1>3, MainMoves, ThreadNames
    <2>1. (Calling => Calling') /\ (Setting => Setting')
      BY <2>0
    <2>2. CASE MainSetDone
      <3>1. pc[Main] = "setdone"
        BY <2>2 DEF MainSetDone, At
      <3>2. activeThreads = 0
        BY <3>1 DEF Guards, Quiet
      <3>3. failed = {}
        BY <3>2, LiveFinite DEF Counted
      <3>. QED  BY <2>0, <3>2, <3>3 DEF Shown
    <2>3. CASE ~MainSetDone
      <3>1. asyncState' = asyncState
        BY <1>3, <2>3 DEF MainStep, MainPop, MainCheck, ProcessAdds, Process,
           ProcessThrows, MainAgain, MainFinish, MainRethrow, members
      <3>. QED  BY <2>0, <2>1, <3>1 DEF Shown
    <2>. QED  BY <2>2, <2>3
  <1>4. ASSUME OwnerStep PROVE Shown'
    <2>0. /\ es[Owner] = "no" /\ Owner \in Threads
          /\ \A y \in Threads : y # Owner => es'[y] = es[y]
          /\ UNCHANGED <<workerInterrupt, activeThreads, failed>>
      BY <1>4, OwnerMoves, ThreadNames
    <2>1. (Calling => Calling') /\ (Setting => Setting')
      BY <2>0
    <2>2. CASE ProcessAsync
      <3>1. pc[Owner] = "async"
        BY <2>2 DEF ProcessAsync, At
      <3>. QED  BY <2>0, <3>1 DEF Fresh, Shown
    <2>3. CASE ~ProcessAsync
      <3>1. asyncState' = asyncState
        BY <1>4, <2>3 DEF OwnerStep, StartThreads, OwnerAdd, OwnerTasksDone,
           OwnerProcess, OwnerPolled, OwnerTerminate, OwnerWait, OwnerThrows,
           Destroy, WaitForAsyncThread, members
      <3>. QED  BY <2>0, <2>1, <3>1 DEF Shown
    <2>. QED  BY <2>2, <2>3
  <1>5. ASSUME NEW x \in Threads, Join(x) \/ JoinThrows(x) PROVE Shown'
    <2>1. UNCHANGED <<workerInterrupt, activeThreads, asyncState, failed, es>>
      BY <1>5, JoinMoves
    <2>. QED  BY <2>1 DEF Shown
  <1>6. ASSUME External PROVE Shown'
    BY <1>6 DEF Shown, External, members, threads
  <1>7. CASE UNCHANGED vars
    BY <1>7 DEF Shown, vars, flags, members, threads
  <1>. QED  BY <1>1, <1>2, <1>3, <1>4, <1>5, <1>6, <1>7 DEF Next, Step, ThreadStep

-----------------------------------------------------------------------------
(* Every worker is joined once *)

\* Where everything that Joins speaks of stays.
LEMMA JoinsSame ==
  ASSUME Shape, ~aborted, Turns, Joining, Style' = Style,
         UNCHANGED <<joined, cleared, joining, aborted>>,
         pc'[Owner] = pc[Owner], pc'[Main] = pc[Main],
         \A w \in joined : pc'[w] = pc[w] /\ es'[w] = es[w]
  PROVE  Joins'
  <1>1. Turns'
    BY DEF Turns, Early
  <1>2. Joining'
    BY DEF Joining, At
  <1>. QED  BY <1>1, <1>2 DEF Joins

\* One join, or none that throws.
LEMMA JoinKeeps ==
  ASSUME Shape, ~aborted, Turns, Joining, Style' = Style,
         NEW x \in Threads, Join(x) \/ JoinThrows(x)
  PROVE  Joins'
  <1>0. /\ joining \in [{Owner, Main} -> Workers] /\ Workers = 1..NumWorkers
        /\ NumWorkers \in Nat /\ NumWorkers >= 1 /\ Owner # Main
        /\ Owner \in Threads /\ Main \in Threads /\ Owner \notin Workers /\ Main \notin Workers
        /\ Workers \subseteq Threads
    BY ThreadNames DEF Shape, ThreadsOK
  <1>1. /\ x \in {Owner, Main} /\ pc[x] \in {"join", "kill"} /\ pc[Owner] # "join"
        /\ \A y \in Threads : y # x => pc'[y] = pc[y]
        /\ es' = es
    BY JoinMoves
  <1>2. ~cleared /\ joined = 1..(joining[x] - 1)
    <2>1. CASE x = Owner
      BY <1>1, <2>1 DEF Joining
    <2>2. CASE x = Main
      <3>1. pc[Owner] \notin {"kill", "waitasync", "end"}
        BY <1>1, <2>2 DEF Turns, Early
      <3>. QED  BY <1>1, <2>2, <3>1 DEF Joining
    <2>. QED  BY <1>1, <2>1, <2>2
  <1>3. joining[x] \in 1..NumWorkers /\ joining[x] \notin joined
    BY <1>0, <1>1, <1>2
  <1>4. Join(x) /\ ~JoinThrows(x)
    BY <1>3 DEF JoinThrows
  <1>5. /\ joined' = joined \cup {joining[x]} /\ At(joining[x], "exit") /\ aborted' = aborted
    BY <1>4 DEF Join, At
  <1>6. \A w \in joined' : At(w, "exit")'
    <2> TAKE w \in joined'
    <2>1. At(w, "exit") /\ w \in Workers
      BY <1>0, <1>1, <1>5 DEF Joining, Shape, MembersOK
    <2>. QED  BY <1>0, <1>1, <2>1 DEF At
  <1>7. CASE joining[x] = NumWorkers
    <2>1. cleared' /\ joining' = joining /\ pc' = [pc EXCEPT ![x] = AfterJoin(x)]
      BY <1>4, <1>7 DEF Join, Goto
    <2>2. joined' = Workers
      BY <1>0, <1>2, <1>5, <1>7
    <2>3. pc'[x] = AfterJoin(x)
      BY <2>1 DEF Shape, ThreadsOK
    <2>4. CASE x = Owner
      <3>1. pc'[Owner] = "waitasync" /\ pc'[Main] = pc[Main] /\ pc[Main] = "none"
            /\ joining'[Main] = 1
        BY <1>0, <1>1, <2>1, <2>3, <2>4 DEF AfterJoin, Turns, Early, Joining
      <3>. QED  BY <1>5, <1>6, <2>1, <2>2, <3>1 DEF Joins, Turns, Early, Joining
    <2>5. CASE x = Main
      <3>1. pc'[Main] \in {"threw", "rethrow"} /\ pc'[Owner] = pc[Owner]
        BY <1>0, <1>1, <2>3, <2>5 DEF AfterJoin
      <3>2. pc[Owner] \notin {"start", "async", "process", "kill", "destroy", "waitasync", "end"}
            /\ ~(pc[Owner] = "add" /\ Style = "sync")
        BY <1>1, <2>5 DEF Turns, Early
      <3>. QED  BY <1>5, <1>6, <2>1, <2>2, <3>1, <3>2 DEF Joins, Turns, Early, Joining
    <2>. QED  BY <1>1, <2>4, <2>5
  <1>8. CASE joining[x] # NumWorkers
    <2>1. cleared' = cleared /\ pc' = pc /\ joining' = [joining EXCEPT ![x] = @ + 1]
      BY <1>4, <1>8 DEF Join
    <2>2. /\ joining'[x] = joining[x] + 1
          /\ \A y \in {Owner, Main} : y # x => joining'[y] = joining[y]
      BY <1>0, <1>1, <2>1
    <2>3. joined' = 1..(joining'[x] - 1)
      BY <1>0, <1>2, <1>3, <1>5, <2>2
    <2>4. CASE x = Owner
      <3>1. joining'[Main] = joining[Main] /\ pc[Owner] = "kill"
        BY <1>0, <1>1, <2>2, <2>4
      <3>. QED  BY <1>2, <1>5, <1>6, <2>1, <2>3, <2>4, <3>1 DEF Joins, Turns, Early, Joining
    <2>5. CASE x = Main
      <3>1. joining'[Owner] = joining[Owner] /\ pc[Main] \in {"join", "kill"}
        BY <1>0, <1>1, <2>2, <2>5
      <3>2. pc[Owner] \notin {"start", "async", "process", "kill", "destroy", "waitasync", "end"}
            /\ ~(pc[Owner] = "add" /\ Style = "sync")
        BY <1>1, <2>5 DEF Turns, Early
      <3>. QED  BY <1>2, <1>5, <1>6, <2>1, <2>3, <2>5, <3>1, <3>2 DEF Joins, Turns, Early, Joining
    <2>. QED  BY <1>1, <2>4, <2>5
  <1>. QED  BY <1>7, <1>8

\* Turns and joins are kept by every step.
LEMMA JoinsStep == Shape /\ Fresh /\ Joins /\ [Next]_vars => Joins'
  <1> SUFFICES ASSUME Shape, Fresh, Joins, [Next]_vars PROVE Joins'
    OBVIOUS
  <1>0. Style' = Style /\ Faults' = Faults
    BY Lasting
  <1> SUFFICES ASSUME ~Races, ~aborted, Turns, Joining PROVE Joins'
    BY <1>0 DEF Joins, Races
  <1>00. /\ Owner \in Threads /\ Main \in Threads /\ Owner # Main
         /\ Workers \subseteq Threads /\ Owner \notin Workers /\ Main \notin Workers
         /\ joined \subseteq Workers
    BY ThreadNames DEF Shape, MembersOK
  <1>1. ASSUME NEW x \in Threads, EmergencyShutdown(x) PROVE Joins'
    <2>1. /\ UNCHANGED <<pc, joining, aborted, joined, cleared>> /\ es[x] # "no"
          /\ \A y \in Threads : y # x => es'[y] = es[y]
      BY <1>1, ShutdownMoves
    <2>2. \A w \in joined : pc'[w] = pc[w] /\ es'[w] = es[w]
      BY <1>00, <2>1 DEF Joining, At
    <2>. QED  BY <1>0, <2>1, <2>2, JoinsSame
  <1>2. ASSUME NEW w \in Workers, WorkerStep(w) PROVE Joins'
    <2>1. /\ UNCHANGED <<joining, aborted, joined, cleared>> /\ pc[w] # "exit"
          /\ \A y \in Threads : y # w => pc'[y] = pc[y] /\ es'[y] = es[y]
      BY <1>2, WorkerMoves
    <2>2. \A v \in joined : pc'[v] = pc[v] /\ es'[v] = es[v]
      BY <1>00, <2>1 DEF Joining, At
    <2>. QED  BY <1>0, <1>00, <2>1, <2>2, JoinsSame
  <1>3. ASSUME MainStep PROVE Joins'
    <2>1. /\ UNCHANGED <<joining, aborted, joined, cleared>>
          /\ \A y \in Threads : y # Main => pc'[y] = pc[y] /\ es'[y] = es[y]
      BY <1>3, MainMoves
    <2>2. \/ pc[Main] = "rethrow" /\ pc'[Main] \in {"returned", "threw"}
          \/ /\ pc[Main] \in {"pop", "popped", "run", "ran", "finish", "setdone"}
             /\ \/ pc'[Main] \in {"pop", "popped", "run", "ran", "finish", "setdone",
                                 "join", "kill"}
                \/ pc'[Main] = "threw" /\ cleared
      BY <1>3, MainMoves DEF MainStep
    <2>3. pc'[Owner] = pc[Owner] /\ \A w \in joined : At(w, "exit")'
      BY <1>00, <2>1 DEF Joining, At
    <2>4. /\ pc[Owner] \notin {"start", "async", "process", "kill", "destroy", "waitasync", "end"}
          /\ ~(pc[Owner] = "add" /\ Style = "sync")
      BY <2>2 DEF Turns, Early
    <2>5. Turns'
      BY <1>0, <2>3, <2>4 DEF Turns, Early
    <2>6. Joining'
      BY <2>1, <2>2, <2>3, <2>4 DEF Joining
    <2>. QED  BY <2>1, <2>5, <2>6 DEF Joins
  <1>4. ASSUME OwnerStep PROVE Joins'
    <2>1. /\ UNCHANGED <<joining, aborted, joined, cleared>> /\ es[Owner] = "no"
          /\ \A y \in Threads : y # Owner => es'[y] = es[y]
      BY <1>4, OwnerMoves
    <2>2. CASE StartThreads
      <3>1. /\ pc[Owner] = "start" /\ pc'[Owner] = IF Style = "sync" THEN "add" ELSE "async"
            /\ pc'[Main] = pc[Main]
        BY <1>4, <2>2, OwnerMoves
      <3>2. joined = {}
        BY <1>00, <3>1 DEF Fresh, Joining, At
      <3>3. Turns'
        BY <1>0, <3>1 DEF Turns, Early
      <3>4. Joining'
        BY <2>1, <3>1, <3>2 DEF Joining
      <3>. QED  BY <2>1, <3>3, <3>4 DEF Joins
    <2>3. CASE ~StartThreads
      <3>1. \A w \in joined : At(w, "exit")'
        <4>1. \A w \in Workers : pc'[w] = pc[w]
          BY <1>00, <1>4, <2>3, OwnerMoves DEF OwnerStep
        <4>. QED  BY <1>00, <2>1, <4>1 DEF Joining, At
      <3>2. CASE ProcessAsync \/ OwnerProcess
        <4>1. /\ pc[Owner] \in {"async", "process"} /\ pc'[Owner] \in {"add", "wait"}
              /\ pc'[Owner] = "add" => pc[Owner] = "async"
              /\ pc'[Main] = "pop"
          BY <1>4, <3>2, OwnerMoves
        <4>2. pc[Main] = "none"
          BY <4>1 DEF Fresh, Turns, Early
        <4>3. pc'[Owner] = "add" => Style # "sync"
          BY <4>1 DEF Turns, Early
        <4>4. Turns'
          BY <1>0, <4>1, <4>3 DEF Turns, Early
        <4>5. Joining'
          BY <2>1, <3>1, <4>1, <4>2 DEF Joining
        <4>. QED  BY <2>1, <4>4, <4>5 DEF Joins
      <3>3. CASE \E t \in use.tasks : OwnerAdd(t)
        <4>1. pc' = pc /\ es' = es
          BY <1>4, <3>3, OwnerMoves
        <4>. QED  BY <1>0, <2>1, <4>1, JoinsSame
      <3>4. CASE OwnerTasksDone \/ OwnerPolled \/ OwnerTerminate \/ OwnerWait \/ OwnerThrows
        <4>1. /\ pc[Owner] \in {"add", "poll", "wait"}
              /\ pc'[Owner] \in {"process", "poll", "wait", "destroy"}
              /\ pc'[Owner] = "process" => pc[Owner] = "add" /\ Style = "sync"
              /\ pc'[Main] = pc[Main]
          BY <1>00, <1>4, <3>4, OwnerMoves
        <4>2. pc'[Owner] = "destroy" => pc[Main] \in {"none", "returned", "threw"}
          <5>1. CASE OwnerWait
            BY <5>1 DEF OwnerWait
          <5>2. CASE OwnerThrows
            <6>1. Style = "sync" /\ pc[Owner] = "add"
              BY <5>2 DEF OwnerThrows, At, Races
            <6>. QED  BY <6>1 DEF Turns, Early
          <5>3. CASE OwnerTasksDone \/ OwnerPolled \/ OwnerTerminate
            BY <1>4, <5>3, OwnerMoves
          <5>. QED  BY <3>4, <5>1, <5>2, <5>3
        <4>3. Turns'
          BY <1>0, <4>1, <4>2 DEF Turns, Early
        <4>4. Joining'
          BY <2>1, <3>1, <4>1 DEF Joining
        <4>. QED  BY <2>1, <4>3, <4>4 DEF Joins
      <3>5. CASE Destroy
        <4>1. /\ pc[Owner] = "destroy" /\ pc'[Main] = pc[Main]
              /\ pc'[Owner] = IF cleared THEN "waitasync" ELSE "kill"
          BY <1>00, <1>4, <3>5, OwnerMoves
        <4>2. ~cleared => pc[Main] = "none" /\ joining[Main] = 1 /\ joining[Owner] = 1
                          /\ joined = 1..0
          BY <4>1 DEF Turns, Early, Joining
        <4>3. Turns'
          BY <1>0, <4>1, <4>2 DEF Turns, Early
        <4>4. CASE cleared
          <5>1. pc'[Owner] = "waitasync"
            BY <4>1, <4>4
          <5>2. Joining'
            BY <2>1, <3>1, <4>1, <4>4, <5>1 DEF Joining
          <5>. QED  BY <2>1, <4>3, <5>2 DEF Joins
        <4>5. CASE ~cleared
          <5>1. pc'[Owner] = "kill" /\ joined = 1..(joining[Owner] - 1)
            BY <4>1, <4>2, <4>5
          <5>2. Joining'
            BY <2>1, <3>1, <4>1, <4>2, <4>5, <5>1 DEF Joining
          <5>. QED  BY <2>1, <4>3, <5>2 DEF Joins
        <4>. QED  BY <4>4, <4>5
      <3>6. CASE WaitForAsyncThread
        <4>1. /\ pc[Owner] = "waitasync" /\ pc'[Owner] = "end" /\ pc'[Main] = pc[Main]
          BY <1>00, <1>4, <3>6, OwnerMoves
        <4>2. Turns'
          BY <1>0, <4>1 DEF Turns, Early
        <4>3. Joining'
          BY <2>1, <3>1, <4>1 DEF Joining
        <4>. QED  BY <2>1, <4>2, <4>3 DEF Joins
      <3>. QED  BY <1>4, <2>3, <3>2, <3>3, <3>4, <3>5, <3>6 DEF OwnerStep
    <2>. QED  BY <2>2, <2>3
  <1>5. ASSUME NEW x \in Threads, Join(x) \/ JoinThrows(x) PROVE Joins'
    BY <1>0, <1>5, JoinKeeps
  <1>6. ASSUME External PROVE Joins'
    BY <1>0, <1>6, JoinsSame DEF External, members, threads
  <1>7. CASE UNCHANGED vars
    BY <1>0, <1>7, JoinsSame DEF vars, members, threads
  <1>. QED  BY <1>1, <1>2, <1>3, <1>4, <1>5, <1>6, <1>7 DEF Next, Step, ThreadStep

-----------------------------------------------------------------------------
(* Every task is in one place *)

\* The rest of a sequence without repetitions.
LEMMA TailHas ==
  ASSUME NEW S, NEW s \in Seq(S), s # <<>>, Distinct(s)
  PROVE  /\ Distinct(Tail(s)) /\ Has(s, Head(s)) /\ Head(s) \in S
         /\ \A e : Has(Tail(s), e) <=> Has(s, e) /\ e # Head(s)
  <1>1. /\ Len(s) \in Nat /\ Head(s) = s[1] /\ Head(s) \in S /\ Len(s) > 0
        /\ Len(Tail(s)) = Len(s) - 1
        /\ \A i \in 1..(Len(s) - 1) : Tail(s)[i] = s[i + 1]
    BY SeqParts
  <1>2. Distinct(Tail(s))
    <2> SUFFICES ASSUME NEW i \in 1..(Len(s) - 1), NEW j \in 1..(Len(s) - 1),
                        Tail(s)[i] = Tail(s)[j]
                 PROVE  i = j
      BY <1>1 DEF Distinct
    <2>1. s[i + 1] = s[j + 1] /\ i + 1 \in 1..Len(s) /\ j + 1 \in 1..Len(s)
      BY <1>1
    <2>2. i + 1 = j + 1
      BY <2>1 DEF Distinct
    <2>. QED  BY <2>2
  <1>3. ASSUME NEW e, Has(Tail(s), e) PROVE Has(s, e) /\ e # Head(s)
    <2>1. PICK i \in 1..(Len(s) - 1) : Tail(s)[i] = e
      BY <1>1, <1>3 DEF Has
    <2>2. s[i + 1] = e /\ i + 1 \in 1..Len(s) /\ 1 \in 1..Len(s) /\ i + 1 # 1
      BY <1>1, <2>1
    <2>3. s[1] # e
      BY <2>2 DEF Distinct
    <2>. QED  BY <1>1, <2>2, <2>3 DEF Has
  <1>4. ASSUME NEW e, Has(s, e), e # Head(s) PROVE Has(Tail(s), e)
    <2>1. PICK i \in 1..Len(s) : s[i] = e
      BY <1>4 DEF Has
    <2>2. i # 1
      BY <1>1, <1>4, <2>1
    <2>3. i - 1 \in 1..(Len(s) - 1) /\ Tail(s)[i - 1] = s[(i - 1) + 1] /\ (i - 1) + 1 = i
      BY <1>1, <2>2
    <2>. QED  BY <1>1, <2>1, <2>3 DEF Has
  <1>5. Has(s, Head(s))
    BY <1>1 DEF Has
  <1>. QED  BY <1>1, <1>2, <1>3, <1>4, <1>5

\* A sequence without repetitions and one more element.
LEMMA AppendHas ==
  ASSUME NEW S, NEW s \in Seq(S), NEW a \in S, Distinct(s), ~Has(s, a)
  PROVE  /\ Distinct(Append(s, a))
         /\ \A e : Has(Append(s, a), e) <=> Has(s, e) \/ e = a
  <1>1. /\ Len(s) \in Nat /\ Len(Append(s, a)) = Len(s) + 1 /\ Append(s, a)[Len(s) + 1] = a
        /\ \A i \in 1..Len(s) : Append(s, a)[i] = s[i]
    BY SeqParts
  <1>2. Distinct(Append(s, a))
    <2> SUFFICES ASSUME NEW i \in 1..(Len(s) + 1), NEW j \in 1..(Len(s) + 1),
                        Append(s, a)[i] = Append(s, a)[j]
                 PROVE  i = j
      BY <1>1 DEF Distinct
    <2>1. CASE i \in 1..Len(s) /\ j \in 1..Len(s)
      BY <1>1, <2>1 DEF Distinct
    <2>2. CASE i \notin 1..Len(s) \/ j \notin 1..Len(s)
      BY <1>1, <2>2 DEF Has
    <2>. QED  BY <2>1, <2>2
  <1>3. ASSUME NEW e PROVE Has(Append(s, a), e) <=> Has(s, e) \/ e = a
    <2>1. ASSUME Has(Append(s, a), e), e # a PROVE Has(s, e)
      <3>1. PICK i \in 1..(Len(s) + 1) : Append(s, a)[i] = e
        BY <1>1, <2>1 DEF Has
      <3>2. i \in 1..Len(s)
        BY <1>1, <2>1, <3>1
      <3>. QED  BY <1>1, <3>1, <3>2 DEF Has
    <2>2. ASSUME Has(s, e) PROVE Has(Append(s, a), e)
      <3>1. PICK i \in 1..Len(s) : s[i] = e
        BY <2>2 DEF Has
      <3>2. i \in 1..Len(Append(s, a)) /\ Append(s, a)[i] = e
        BY <1>1, <3>1
      <3>. QED  BY <3>2 DEF Has
    <2>3. Has(Append(s, a), a)
      <3>1. Len(s) + 1 \in 1..Len(Append(s, a))
        BY <1>1
      <3>. QED  BY <1>1, <3>1 DEF Has
    <2>. QED  BY <2>1, <2>2, <2>3
  <1>. QED  BY <1>2, <1>3

\* Tasks that only leave places, or stay, are still in one place at most.
LEMMA FlowSame ==
  ASSUME Once, Apart, UNCHANGED <<workerTasks, mainTasks, processed, added>>,
         \A w \in Workers : Held'[w] \subseteq Held[w], InHand' \subseteq InHand
  PROVE  /\ Once' /\ Apart'
         /\ Queued' = Queued /\ Ready' = Ready /\ Over' = Over
  <1>1. Queued' = Queued /\ Ready' = Ready /\ Over' = Over
    BY DEF Queued, Ready, Over
  <1>2. Once'
    BY DEF Once
  <1>3. Apart'
    BY <1>1 DEF Apart
  <1>. QED  BY <1>1, <1>2, <1>3

\* add_task() puts a new task into the queue.
LEMMA FlowAdd ==
  ASSUME Shape, Once, Apart, NEW t \in use.tasks, t \notin added, AddTask(t),
         UNCHANGED <<mainTasks, processed, pc, got>>
  PROVE  /\ Once' /\ Apart'
         /\ Queued' = Queued \cup {t} /\ Held' = Held /\ Ready' = Ready
         /\ InHand' = InHand /\ Over' = Over /\ added' = added \cup {t}
  <1>1. /\ t \in Tasks /\ Priority[t] \in 1..4 /\ workerTasks \in [1..4 -> Seq(Tasks)]
    BY UseTasks DEF Shape, CallerOK, QueuesOK
  <1> DEFINE p == Priority[t]
             s == workerTasks[p]
  <1>2. s \in Seq(Tasks) /\ Distinct(s) /\ ~Has(s, t)
    BY <1>1 DEF Once, Apart, Queued
  <1>3. /\ workerTasks'[p] = Append(s, t) /\ added' = added \cup {t}
        /\ \A q \in 1..4 : q # p => workerTasks'[q] = workerTasks[q]
    BY <1>1 DEF AddTask
  <1>4. /\ Distinct(workerTasks'[p])
        /\ \A e : Has(workerTasks'[p], e) <=> Has(s, e) \/ e = t
    BY <1>1, <1>2, <1>3, AppendHas
  <1>5. Held' = Held /\ Ready' = Ready /\ InHand' = InHand /\ Over' = Over
    BY DEF Held, Ready, InHand, Over
  <1> HIDE DEF p
  <1>6. \A e \in Tasks : e \in Queued' <=> e \in Queued \cup {t}
    BY <1>1, <1>3, <1>4 DEF Queued, p
  <1>7. Queued' = Queued \cup {t}
    BY <1>1, <1>6 DEF Queued
  <1>8. \A q \in 1..4 : Distinct(workerTasks'[q])
    BY <1>3, <1>4 DEF Once
  <1>9. \A q \in 1..4, e \in Tasks : Has(workerTasks'[q], e) => Priority[e] = q
    BY <1>3, <1>4 DEF Once, p
  <1>10. Once'
    BY <1>8, <1>9 DEF Once
  <1>11. t \notin Queued /\ t \notin Ready /\ t \notin InHand /\ t \notin Over
         /\ \A w \in Workers : t \notin Held[w]
    BY DEF Apart
  <1>12. Apart'
    BY <1>3, <1>5, <1>7, <1>11 DEF Apart
  <1>. QED  BY <1>3, <1>5, <1>7, <1>10, <1>12

\* A worker takes the first task of a queue, or a guard.
LEMMA FlowPop ==
  ASSUME Shape, Once, Apart, NEW w \in Workers, WorkerStep(w), WorkerPop(w)
  PROVE  /\ Once' /\ Apart' /\ added' = added
         /\ Ready' = Ready /\ InHand' = InHand /\ Over' = Over
         /\ \A v \in Workers : v # w => Held'[v] = Held[v]
         /\ Held[w] = {} /\ Queued \subseteq Queued' \cup Held'[w]
  <1>1. /\ PopWorkerTasks(w) /\ UNCHANGED <<mainTasks, processed, added>>
        /\ pc[w] = "pop" /\ pc'[w] = "popped"
        /\ \A y \in Threads : y # w => pc'[y] = pc[y] /\ got'[y] = got[y]
    BY WorkerMoves DEF WorkerPop
  <1>2. /\ \A v \in Workers : v # w => Held'[v] = Held[v]
        /\ Held[w] = {} /\ Held'[w] = {t \in Tasks : got'[w] = t}
    <2>1. \A v \in Workers : v # w => pc'[v] = pc[v] /\ got'[v] = got[v]
      BY <1>1, ThreadNames
    <2>2. ASSUME NEW v \in Workers, v # w PROVE Held'[v] = Held[v]
      BY <2>1, <2>2 DEF Held
    <2>3. Held[w] = {} /\ Held'[w] = {t \in Tasks : got'[w] = t}
      BY <1>1 DEF Held
    <2>. QED  BY <2>2, <2>3
  <1>3. Ready' = Ready /\ InHand' = InHand /\ Over' = Over
    BY <1>1, ThreadNames DEF Ready, InHand, Over
  <1>4. w \in Threads /\ got \in [Threads -> Tasks \cup {None}] /\ None \notin Tasks
        /\ workerTasks \in [1..4 -> Seq(Tasks)]
    BY ThreadNames, PoolAssumption DEF Shape, ThreadsOK, QueuesOK
  <1>5. CASE /\ workerTasks' = workerTasks /\ got' = [got EXCEPT ![w] = None]
    <2>1. Held'[w] = {}
      BY <1>2, <1>4, <1>5
    <2>2. \A v \in Workers : Held'[v] \subseteq Held[v]
      BY <1>2, <2>1
    <2>3. Once' /\ Apart' /\ Queued' = Queued
      BY <1>1, <1>3, <1>5, <2>2, FlowSame
    <2>. QED  BY <1>1, <1>2, <1>3, <2>3
  <1>6. ASSUME NEW p \in 1..4, workerTasks[p] # <<>>, workerTasks[p] \in Seq(Tasks),
               got' = [got EXCEPT ![w] = Head(workerTasks[p])],
               workerTasks' = [workerTasks EXCEPT ![p] = Tail(workerTasks[p])]
        PROVE  /\ Once' /\ Apart' /\ Queued \subseteq Queued' \cup Held'[w]
    <2> DEFINE s == workerTasks[p]
               h == Head(s)
    <2>1. /\ Distinct(Tail(s)) /\ Has(s, h) /\ h \in Tasks
          /\ \A e : Has(Tail(s), e) <=> Has(s, e) /\ e # h
      <3>1. Distinct(s) /\ s \in Seq(Tasks) /\ s # <<>>
        BY <1>6 DEF Once
      <3> HIDE DEF s
      <3>. QED  BY <3>1, TailHas
    <2>2. /\ workerTasks'[p] = Tail(s) /\ got'[w] = h
          /\ \A q \in 1..4 : q # p => workerTasks'[q] = workerTasks[q]
      BY <1>4, <1>6
    <2>3. Held'[w] = {h}
      BY <1>2, <2>1, <2>2
    <2>4. Priority[h] = p /\ h \in Queued
      BY <2>1 DEF Once, Queued
    <2> HIDE DEF h
    <2>5. \A e \in Tasks : e \in Queued' <=> e \in Queued /\ e # h
      BY <2>1, <2>2, <2>4 DEF Queued, Once
    <2>6. Queued' = Queued \ {h}
      BY <2>5 DEF Queued
    <2>7. Once'
      BY <1>1, <2>1, <2>2 DEF Once
    <2>8. /\ h \notin Ready /\ h \notin InHand /\ h \notin Over /\ h \in added
          /\ \A v \in Workers : h \notin Held[v]
      BY <2>4 DEF Apart
    <2>9. Apart'
      BY <1>1, <1>2, <1>3, <2>3, <2>6, <2>8 DEF Apart
    <2>. QED  BY <2>3, <2>6, <2>7, <2>9
  <1>7. Once' /\ Apart' /\ Queued \subseteq Queued' \cup Held'[w]
    BY <1>1, <1>5, <1>6, PopIs
  <1>. QED  BY <1>1, <1>2, <1>3, <1>7

\* A worker hands its result to process().
LEMMA FlowProduce ==
  ASSUME Shape, Once, Apart, NEW w \in Workers, WorkerStep(w), Produce(w)
  PROVE  /\ Once' /\ Apart' /\ added' = added
         /\ Queued' = Queued /\ InHand' = InHand /\ Over' = Over
         /\ \A v \in Workers : v # w => Held'[v] = Held[v]
         /\ Ready' = Ready \cup Held[w]
  <1>1. /\ mainTasks' = Append(mainTasks, got[w]) /\ UNCHANGED <<workerTasks, processed, added>>
        /\ pc[w] = "run" /\ pc'[w] = "ran" /\ got[w] \in Tasks
        /\ \A y \in Threads : y # w => pc'[y] = pc[y] /\ got'[y] = got[y]
    BY WorkerMoves DEF Produce
  <1>2. /\ \A v \in Workers : v # w => Held'[v] = Held[v]
        /\ Held[w] = {got[w]} /\ Held'[w] = {}
    <2>1. \A v \in Workers : v # w => pc'[v] = pc[v] /\ got'[v] = got[v]
      BY <1>1, ThreadNames
    <2>2. ASSUME NEW v \in Workers, v # w PROVE Held'[v] = Held[v]
      BY <2>1, <2>2 DEF Held
    <2>3. Held[w] = {got[w]} /\ Held'[w] = {}
      BY <1>1 DEF Held
    <2>. QED  BY <2>2, <2>3
  <1>3. Queued' = Queued /\ InHand' = InHand /\ Over' = Over
    BY <1>1, ThreadNames DEF Queued, InHand, Over
  <1>4. mainTasks \in Seq(Tasks) /\ Distinct(mainTasks) /\ ~Has(mainTasks, got[w])
    BY <1>1, <1>2 DEF Shape, QueuesOK, Once, Apart, Ready
  <1>5. /\ Distinct(mainTasks')
        /\ \A e : Has(mainTasks', e) <=> Has(mainTasks, e) \/ e = got[w]
    BY <1>1, <1>4, AppendHas
  <1>6. Ready' = Ready \cup {got[w]}
    BY <1>1, <1>5 DEF Ready
  <1>7. Once'
    BY <1>1, <1>5 DEF Once
  <1>8. Apart'
    BY <1>1, <1>2, <1>3, <1>6 DEF Apart
  <1>. QED  BY <1>1, <1>2, <1>3, <1>6, <1>7, <1>8

\* process() takes the next result, or a guard.
LEMMA FlowMainPop ==
  ASSUME Shape, Once, Apart, MainStep, MainPop
  PROVE  /\ Once' /\ Apart' /\ added' = added
         /\ Queued' = Queued /\ Held' = Held /\ Over' = Over
         /\ InHand = {} /\ Ready \subseteq Ready' \cup InHand'
  <1>1. /\ PopMainTasks(Main) /\ UNCHANGED <<workerTasks, processed, added>>
        /\ pc[Main] = "pop" /\ pc'[Main] = "popped"
        /\ \A y \in Threads : y # Main => pc'[y] = pc[y] /\ got'[y] = got[y]
    BY MainMoves DEF MainPop, caller
  <1>2. \A w \in Workers : pc'[w] = pc[w] /\ got'[w] = got[w]
    BY <1>1, ThreadNames
  <1>3. Queued' = Queued /\ Held' = Held /\ Over' = Over
    BY <1>1, <1>2 DEF Queued, Held, Over
  <1>4. InHand = {} /\ InHand' = {t \in Tasks : got'[Main] = t}
    BY <1>1 DEF InHand
  <1>5. Main \in Threads /\ got \in [Threads -> Tasks \cup {None}] /\ None \notin Tasks
        /\ mainTasks \in Seq(Tasks) /\ Distinct(mainTasks)
    BY ThreadNames, PoolAssumption DEF Shape, ThreadsOK, QueuesOK, Once
  <1>6. CASE mainTasks = <<>>
    <2>1. mainTasks' = mainTasks /\ got'[Main] = None
      BY <1>1, <1>5, <1>6 DEF PopMainTasks
    <2>2. InHand' = {}
      BY <1>4, <1>5, <2>1
    <2>3. Once' /\ Apart' /\ Ready' = Ready
      BY <1>1, <1>3, <2>1, <2>2, FlowSame
    <2>. QED  BY <1>1, <1>3, <1>4, <2>3
  <1>7. CASE mainTasks # <<>>
    <2> DEFINE h == Head(mainTasks)
    <2>1. mainTasks' = Tail(mainTasks) /\ got'[Main] = h
      BY <1>1, <1>5, <1>7 DEF PopMainTasks
    <2>2. /\ Distinct(Tail(mainTasks)) /\ Has(mainTasks, h) /\ h \in Tasks
          /\ \A e : Has(Tail(mainTasks), e) <=> Has(mainTasks, e) /\ e # h
      BY <1>5, <1>7, TailHas
    <2> HIDE DEF h
    <2>3. InHand' = {h} /\ Ready' = Ready \ {h} /\ h \in Ready
      BY <1>4, <2>1, <2>2 DEF Ready
    <2>4. Once'
      BY <1>1, <2>1, <2>2 DEF Once
    <2>5. /\ h \notin Queued /\ h \notin Over /\ h \in added
          /\ \A v \in Workers : h \notin Held[v]
      BY <2>3 DEF Apart
    <2>6. Apart'
      BY <1>1, <1>3, <2>3, <2>5 DEF Apart
    <2>. QED  BY <1>1, <1>3, <1>4, <2>3, <2>4, <2>6
  <1>. QED  BY <1>6, <1>7

\* process_data() finishes a task.
LEMMA FlowProcess ==
  ASSUME Shape, Once, Apart, MainStep, Process
  PROVE  /\ Once' /\ Apart' /\ added' = added
         /\ Queued' = Queued /\ Held' = Held /\ Ready' = Ready
         /\ InHand = {got[Main]} /\ Over' = Over \cup {got[Main]} /\ processed[got[Main]] = 0
         /\ processed' = [processed EXCEPT ![got[Main]] = 1]
  <1>1. /\ UNCHANGED <<workerTasks, mainTasks, added>>
        /\ processed' = [processed EXCEPT ![got[Main]] = @ + 1]
        /\ pc[Main] = "run" /\ pc'[Main] = "ran" /\ got[Main] \in Tasks
        /\ \A y \in Threads : y # Main => pc'[y] = pc[y] /\ got'[y] = got[y]
    BY MainMoves DEF Process
  <1>2. \A w \in Workers : pc'[w] = pc[w] /\ got'[w] = got[w]
    BY <1>1, ThreadNames
  <1>3. Queued' = Queued /\ Held' = Held /\ Ready' = Ready
    BY <1>1, <1>2 DEF Queued, Held, Ready
  <1>4. InHand = {got[Main]} /\ InHand' = {}
    BY <1>1 DEF InHand
  <1>5. processed \in [Tasks -> Nat] /\ processed[got[Main]] = 0
    <2>1. got[Main] \notin Over
      BY <1>4 DEF Apart
    <2>. QED  BY <1>1, <2>1 DEF Over, Shape, CallerOK
  <1>6. processed' = [processed EXCEPT ![got[Main]] = 1]
    BY <1>1, <1>5
  <1>7. Over' = Over \cup {got[Main]}
    BY <1>1, <1>5, <1>6 DEF Over
  <1>8. Once'
    BY <1>1, <1>5, <1>6 DEF Once
  <1>9. Apart'
    BY <1>1, <1>3, <1>4, <1>7 DEF Apart
  <1>. QED  BY <1>1, <1>3, <1>4, <1>5, <1>6, <1>7, <1>8, <1>9

\* process() is called once.
LEMMA EarlyStep == Shape /\ Early /\ [Next]_vars => Early'
  <1> SUFFICES ASSUME Shape, Early, [Next]_vars PROVE Early'
    OBVIOUS
  <1>0. Style' = Style /\ Owner \in Threads /\ Main \in Threads /\ Owner # Main
    BY Lasting, ThreadNames
  <1>1. ASSUME pc'[Owner] = pc[Owner], pc'[Main] = pc[Main] PROVE Early'
    BY <1>0, <1>1 DEF Early
  <1>2. ASSUME NEW x \in Threads, EmergencyShutdown(x) PROVE Early'
    BY <1>1, <1>2, ShutdownMoves
  <1>3. ASSUME NEW w \in Workers, WorkerStep(w) PROVE Early'
    BY <1>1, <1>3, WorkerMoves, ThreadNames
  <1>4. ASSUME MainStep PROVE Early'
    <2>1. pc'[Owner] = pc[Owner]
      BY <1>0, <1>4, MainMoves
    <2>2. pc[Main] # "none"
      BY <1>4, MainMoves DEF MainStep
    <2>. QED  BY <1>0, <2>1, <2>2 DEF Early
  <1>5. ASSUME OwnerStep PROVE Early'
    <2>1. CASE StartThreads
      BY <1>0, <1>5, <2>1, OwnerMoves DEF Early
    <2>2. CASE ProcessAsync
      BY <1>0, <1>5, <2>2, OwnerMoves DEF Early
    <2>3. CASE \E t \in use.tasks : OwnerAdd(t)
      BY <1>1, <1>5, <2>3, OwnerMoves
    <2>4. CASE OwnerTasksDone
      BY <1>0, <1>5, <2>4, OwnerMoves DEF Early
    <2>5. CASE OwnerProcess
      BY <1>0, <1>5, <2>5, OwnerMoves DEF Early
    <2>6. CASE \/ OwnerPolled \/ OwnerTerminate \/ OwnerWait \/ OwnerThrows
               \/ Destroy \/ WaitForAsyncThread
      <3>1. pc'[Owner] \in {"wait", "destroy", "waitasync", "kill", "end"}
        BY <1>5, <2>6, OwnerMoves
      <3>. QED  BY <3>1 DEF Early
    <2>. QED  BY <1>5, <2>1, <2>2, <2>3, <2>4, <2>5, <2>6 DEF OwnerStep
  <1>6. ASSUME NEW x \in Threads, Join(x) \/ JoinThrows(x) PROVE Early'
    <2>1. CASE x = Owner
      <3>1. pc[Owner] \in {"join", "kill"} /\ pc'[Owner] \in {pc[Owner], "waitasync"}
        BY <1>6, <2>1, JoinMoves
      <3>. QED  BY <3>1 DEF Early
    <2>2. CASE x = Main
      <3>1. pc[Main] \in {"join", "kill"} /\ pc'[Owner] = pc[Owner]
        BY <1>0, <1>6, <2>2, JoinMoves
      <3>. QED  BY <1>0, <3>1 DEF Early
    <2>. QED  BY <1>6, <2>1, <2>2, JoinMoves
  <1>7. ASSUME External PROVE Early'
    BY <1>1, <1>7 DEF External, threads
  <1>8. CASE UNCHANGED vars
    BY <1>1, <1>8 DEF vars, threads
  <1>. QED  BY <1>2, <1>3, <1>4, <1>5, <1>6, <1>7, <1>8 DEF Next, Step, ThreadStep

\* A process() that ends with an exception stays so.
LEMMA MainGone ==
  ASSUME Shape, Early, [Next]_vars, pc[Main] \in {"kill", "threw"}
  PROVE  pc'[Main] \in {"kill", "threw"} /\ got'[Main] = got[Main]
  <1>1. ~MainStep
    BY MainMoves DEF MainStep
  <1>2. ~(pc[Owner] \in {"async", "process"})
    BY DEF Early
  <1>. QED  BY <1>1, <1>2, MainTargets

\* What was interrupted or failed stays so.
LEMMA BrokenStays ==
  ASSUME Shape, Early, [Next]_vars, Broken
  PROVE  Broken'
  <1>1. CASE Interrupted
    BY <1>1, Lasting DEF Broken
  <1>2. CASE failed # {}
    BY <1>2, Lasting DEF Broken
  <1>3. CASE pc[Main] \in {"kill", "threw"}
    <2>1. pc'[Main] \in {"kill", "threw"}
      BY <1>3, MainGone
    <2>. QED  BY <2>1 DEF Broken
  <1>. QED  BY <1>1, <1>2, <1>3 DEF Broken

\* Tasks that stay where they are.
LEMMA FlowKeeps ==
  ASSUME Shape, Fresh, Early, Once, Apart, NoneLost, [Next]_vars,
         UNCHANGED <<workerTasks, mainTasks, processed, added>>,
         \A w \in Workers : Held'[w] = Held[w], InHand' = InHand
  PROVE  Once' /\ Apart' /\ NoneLost'
  <1>1. Once' /\ Apart' /\ Queued' = Queued /\ Ready' = Ready /\ Over' = Over
    BY FlowSame
  <1>2. CASE Broken
    BY <1>1, <1>2, BrokenStays DEF NoneLost
  <1>3. CASE ~Broken
    BY <1>1, <1>3 DEF NoneLost, Present
  <1>. QED  BY <1>2, <1>3

\* Tasks that are dropped because something failed.
LEMMA FlowDrops ==
  ASSUME Once, Apart, Broken', UNCHANGED <<workerTasks, mainTasks, processed, added>>,
         \A w \in Workers : Held'[w] \subseteq Held[w], InHand' \subseteq InHand
  PROVE  Once' /\ Apart' /\ NoneLost'
  BY FlowSame DEF NoneLost

\* Threads that are not moved keep what they hold.
LEMMA Holding ==
  /\ \A w \in Workers : pc'[w] = pc[w] /\ got'[w] = got[w] => Held'[w] = Held[w]
  /\ \A w \in Workers : pc[w] \notin {"popped", "run"} /\ pc'[w] \notin {"popped", "run"}
                        => Held'[w] = Held[w]
  /\ \A w \in Workers : pc'[w] \notin {"popped", "run"} => Held'[w] \subseteq Held[w]
  /\ pc'[Main] = pc[Main] /\ got'[Main] = got[Main] => InHand' = InHand
  /\ pc[Main] \notin {"popped", "run"} /\ pc'[Main] \notin {"popped", "run"} => InHand' = InHand
  /\ pc'[Main] \notin {"popped", "run"} => InHand' \subseteq InHand
  <1>1. ASSUME NEW w \in Workers
        PROVE  /\ pc'[w] = pc[w] /\ got'[w] = got[w] => Held'[w] = Held[w]
               /\ pc[w] \notin {"popped", "run"} /\ pc'[w] \notin {"popped", "run"}
                  => Held'[w] = Held[w]
               /\ pc'[w] \notin {"popped", "run"} => Held'[w] \subseteq Held[w]
    BY DEF Held
  <1>2. /\ pc'[Main] = pc[Main] /\ got'[Main] = got[Main] => InHand' = InHand
        /\ pc[Main] \notin {"popped", "run"} /\ pc'[Main] \notin {"popped", "run"}
           => InHand' = InHand
        /\ pc'[Main] \notin {"popped", "run"} => InHand' \subseteq InHand
    BY DEF InHand
  <1>. QED  BY <1>1, <1>2

\* A worker's step moves a task on, or drops it for a good reason.
LEMMA FlowWorker ==
  ASSUME Shape, Fresh, Early, Once, Apart, NoneLost, [Next]_vars, NEW w \in Workers, WorkerStep(w)
  PROVE  Once' /\ Apart' /\ NoneLost'
  <1>1. \A v \in Workers : v # w => Held'[v] = Held[v]
    BY WorkerMoves, Holding, ThreadNames
  <1>2. InHand' = InHand
    BY WorkerMoves, Holding, ThreadNames
  <1>3. CASE WorkerPop(w)
    <2>1. /\ Once' /\ Apart' /\ added' = added
          /\ Ready' = Ready /\ InHand' = InHand /\ Over' = Over
          /\ Held[w] = {} /\ Queued \subseteq Queued' \cup Held'[w]
      BY <1>3, FlowPop
    <2>2. CASE Broken
      BY <2>1, <2>2, BrokenStays DEF NoneLost
    <2>3. CASE ~Broken
      <3>1. ASSUME NEW t \in added PROVE Present(t)'
        <4>1. Present(t)
          BY <2>3 DEF NoneLost
        <4>2. CASE t \in Queued
          BY <2>1, <4>2 DEF Present
        <4>3. CASE t \in Ready \cup InHand \cup Over
          BY <2>1, <4>3 DEF Present
        <4>4. ASSUME NEW v \in Workers, t \in Held[v] PROVE Present(t)'
          BY <1>1, <2>1, <4>4 DEF Present
        <4>. QED  BY <4>1, <4>2, <4>3, <4>4 DEF Present
      <3>. QED  BY <2>1, <3>1 DEF NoneLost
    <2>. QED  BY <2>2, <2>3
  <1>4. CASE WorkerCheck(w)
    <2>1. UNCHANGED <<workerTasks, mainTasks, processed, added, got>> /\ pc[w] = "popped"
          /\ pc'[w] = IF Interrupted \/ got[w] = None THEN "leave" ELSE "run"
      BY <1>4, WorkerMoves DEF WorkerCheck, queues
    <2>2. CASE Interrupted
      <3>1. Broken'
        BY <2>2, Lasting DEF Broken
      <3>2. \A v \in Workers : Held'[v] \subseteq Held[v]
        BY <1>1, <2>1, <2>2, Holding
      <3>. QED  BY <1>2, <2>1, <3>1, <3>2, FlowDrops
    <2>3. CASE ~Interrupted
      <3>1. Held'[w] = Held[w]
        BY <2>1, <2>3, PoolAssumption DEF Held
      <3>. QED  BY <1>1, <1>2, <2>1, <3>1, FlowKeeps
    <2>. QED  BY <2>2, <2>3
  <1>5. CASE Produce(w)
    <2>1. /\ Once' /\ Apart' /\ added' = added
          /\ Queued' = Queued /\ InHand' = InHand /\ Over' = Over
          /\ Ready' = Ready \cup Held[w]
      BY <1>5, FlowProduce
    <2>2. CASE Broken
      BY <2>1, <2>2, BrokenStays DEF NoneLost
    <2>3. CASE ~Broken
      <3>1. ASSUME NEW t \in added PROVE Present(t)'
        <4>1. Present(t)
          BY <2>3 DEF NoneLost
        <4>2. CASE t \in Queued \cup Ready \cup InHand \cup Over
          BY <2>1, <4>2 DEF Present
        <4>3. ASSUME NEW v \in Workers, t \in Held[v] PROVE Present(t)'
          BY <1>1, <2>1, <4>3 DEF Present
        <4>. QED  BY <4>1, <4>2, <4>3 DEF Present
      <3>. QED  BY <2>1, <3>1 DEF NoneLost
    <2>. QED  BY <2>2, <2>3
  <1>6. CASE ProduceThrows(w)
    <2>1. UNCHANGED <<workerTasks, mainTasks, processed, added>> /\ pc'[w] = "exit"
          /\ w \in failed'
      BY <1>6, WorkerMoves DEF ProduceThrows, queues
    <2>2. \A v \in Workers : Held'[v] \subseteq Held[v]
      BY <1>1, <2>1, Holding
    <2>3. Broken'
      BY <2>1 DEF Broken
    <2>. QED  BY <1>2, <2>1, <2>2, <2>3, FlowDrops
  <1>7. CASE WorkerAgain(w) \/ WorkerLeave(w) \/ WorkerGuard(w)
    <2>1. UNCHANGED <<workerTasks, mainTasks, processed, added>>
      BY <1>7, WorkerMoves DEF WorkerAgain, WorkerLeave, WorkerGuard, queues
    <2>2. pc[w] \notin {"popped", "run"} /\ pc'[w] \notin {"popped", "run"}
      BY <1>7, WorkerMoves
    <2>3. Held'[w] = Held[w]
      BY <2>2, Holding
    <2>. QED  BY <1>1, <1>2, <2>1, <2>3, FlowKeeps
  <1>. QED  BY <1>3, <1>4, <1>5, <1>6, <1>7 DEF WorkerStep

\* A step of process() moves a task on, or drops it for a good reason.
LEMMA FlowMain ==
  ASSUME Shape, Fresh, Early, Once, Apart, NoneLost, [Next]_vars, MainStep
  PROVE  Once' /\ Apart' /\ NoneLost'
  <1>1. \A v \in Workers : Held'[v] = Held[v]
    BY MainMoves, Holding, ThreadNames
  <1>2. CASE MainPop
    <2>1. /\ Once' /\ Apart' /\ added' = added
          /\ Queued' = Queued /\ Over' = Over
          /\ InHand = {} /\ Ready \subseteq Ready' \cup InHand'
      BY <1>2, FlowMainPop
    <2>2. CASE Broken
      BY <2>1, <2>2, BrokenStays DEF NoneLost
    <2>3. CASE ~Broken
      BY <1>1, <2>1, <2>3 DEF NoneLost, Present
    <2>. QED  BY <2>2, <2>3
  <1>3. CASE MainCheck
    <2>1. UNCHANGED <<workerTasks, mainTasks, processed, added, got>> /\ pc[Main] = "popped"
          /\ pc'[Main] = IF Interrupted \/ got[Main] = None THEN "finish" ELSE "run"
      BY <1>3, MainMoves DEF MainCheck, queues, caller
    <2>2. CASE Interrupted
      <3>1. Broken'
        BY <2>2, Lasting DEF Broken
      <3>2. InHand' \subseteq InHand
        BY <2>1, <2>2, Holding
      <3>. QED  BY <1>1, <2>1, <3>1, <3>2, FlowDrops
    <2>3. CASE ~Interrupted
      <3>1. InHand' = InHand
        BY <2>1, <2>3, PoolAssumption DEF InHand
      <3>. QED  BY <1>1, <2>1, <3>1, FlowKeeps
    <2>. QED  BY <2>2, <2>3
  <1>4. ASSUME NEW t \in use.tasks, ProcessAdds(t) PROVE Once' /\ Apart' /\ NoneLost'
    <2>1. t \notin added /\ AddTask(t) /\ UNCHANGED <<mainTasks, processed, pc, got>>
      BY <1>4 DEF ProcessAdds, threads
    <2>2. /\ Once' /\ Apart'
          /\ Queued' = Queued \cup {t} /\ Ready' = Ready
          /\ InHand' = InHand /\ Over' = Over /\ added' = added \cup {t}
      BY <2>1, FlowAdd
    <2>3. CASE Broken
      BY <2>2, <2>3, BrokenStays DEF NoneLost
    <2>4. CASE ~Broken
      BY <1>1, <2>2, <2>4 DEF NoneLost, Present
    <2>. QED  BY <2>3, <2>4
  <1>5. CASE Process
    <2>1. /\ Once' /\ Apart' /\ added' = added
          /\ Queued' = Queued /\ Ready' = Ready
          /\ InHand = {got[Main]} /\ Over' = Over \cup {got[Main]}
      BY <1>5, FlowProcess
    <2>2. CASE Broken
      BY <2>1, <2>2, BrokenStays DEF NoneLost
    <2>3. CASE ~Broken
      BY <1>1, <2>1, <2>3 DEF NoneLost, Present
    <2>. QED  BY <2>2, <2>3
  <1>6. CASE ProcessThrows
    <2>1. UNCHANGED <<workerTasks, mainTasks, processed, added>>
          /\ pc'[Main] \in {"kill", "threw"}
      BY <1>6, MainMoves DEF ProcessThrows
    <2>2. Broken' /\ InHand' \subseteq InHand
      BY <2>1, Holding DEF Broken
    <2>. QED  BY <1>1, <2>1, <2>2, FlowDrops
  <1>7. CASE MainAgain \/ MainFinish \/ MainSetDone \/ MainRethrow
    <2>1. UNCHANGED <<workerTasks, mainTasks, processed, added>>
      BY <1>7 DEF MainAgain, MainFinish, MainSetDone, MainRethrow, queues, caller
    <2>2. pc[Main] \notin {"popped", "run"} /\ pc'[Main] \notin {"popped", "run"}
      BY <1>7, MainMoves
    <2>3. InHand' = InHand
      BY <2>2, Holding
    <2>. QED  BY <1>1, <2>1, <2>3, FlowKeeps
  <1>. QED  BY <1>2, <1>3, <1>4, <1>5, <1>6, <1>7 DEF MainStep

\* Every task that was added is in one place, unless something failed.
LEMMA FlowStep ==
  Shape /\ Fresh /\ Early /\ Once /\ Apart /\ NoneLost /\ [Next]_vars
    => Once' /\ Apart' /\ NoneLost'
  <1> DEFINE Goal == Once' /\ Apart' /\ NoneLost'
  <1> SUFFICES ASSUME Shape, Fresh, Early, Once, Apart, NoneLost, [Next]_vars PROVE Goal
    OBVIOUS
  <1>1. ASSUME UNCHANGED <<workerTasks, mainTasks, processed, added, got>>,
               \A w \in Workers : pc'[w] = pc[w],
               pc'[Main] = pc[Main] \/ (pc[Main] \notin {"popped", "run"}
                                        /\ pc'[Main] \notin {"popped", "run"})
        PROVE  Goal
    <2>1. \A w \in Workers : Held'[w] = Held[w]
      BY <1>1, Holding
    <2>2. InHand' = InHand
      BY <1>1, Holding
    <2>. QED  BY <1>1, <2>1, <2>2, FlowKeeps
  <1> HIDE DEF Goal
  <1>2. ASSUME NEW x \in Threads, EmergencyShutdown(x) PROVE Goal
    BY <1>1, <1>2, ShutdownMoves
  <1>3. ASSUME NEW w \in Workers, WorkerStep(w) PROVE Goal
    BY <1>3, FlowWorker DEF Goal
  <1>4. ASSUME MainStep PROVE Goal
    BY <1>4, FlowMain DEF Goal
  <1>5. ASSUME OwnerStep PROVE Goal
    <2>1. CASE StartThreads
      <3>1. UNCHANGED <<workerTasks, mainTasks, processed, added, got>>
        BY <2>1 DEF StartThreads, queues, caller
      <3>2. pc[Owner] = "start" /\ pc'[Main] = pc[Main] /\ \A w \in Workers : pc'[w] = "pop"
        BY <1>5, <2>1, OwnerMoves
      <3>3. \A w \in Workers : Held'[w] = Held[w]
        BY <3>2, Holding DEF Fresh
      <3>4. InHand' = InHand
        BY <3>1, <3>2, Holding
      <3>. QED  BY <3>1, <3>3, <3>4, FlowKeeps DEF Goal
    <2>2. CASE ProcessAsync \/ OwnerProcess
      <3>1. UNCHANGED <<workerTasks, mainTasks, processed, added, got>>
        BY <2>2 DEF ProcessAsync, OwnerProcess, queues, caller
      <3>2. /\ pc[Owner] \in {"async", "process"} /\ pc'[Main] = "pop"
            /\ \A w \in Workers : pc'[w] = pc[w]
        BY <1>5, <2>2, OwnerMoves
      <3>3. pc[Main] = "none"
        BY <3>2 DEF Early
      <3>. QED  BY <1>1, <3>1, <3>2, <3>3
    <2>3. ASSUME NEW t \in use.tasks, OwnerAdd(t) PROVE Goal
      <3>1. t \notin added /\ AddTask(t) /\ UNCHANGED <<mainTasks, processed, pc, got>>
        BY <2>3 DEF OwnerAdd, threads
      <3>2. /\ Once' /\ Apart'
            /\ Queued' = Queued \cup {t} /\ Ready' = Ready /\ Held' = Held
            /\ InHand' = InHand /\ Over' = Over /\ added' = added \cup {t}
        BY <3>1, FlowAdd
      <3>3. CASE Broken
        BY <3>2, <3>3, BrokenStays DEF NoneLost, Goal
      <3>4. CASE ~Broken
        BY <3>2, <3>4 DEF NoneLost, Present, Goal
      <3>. QED  BY <3>3, <3>4
    <2>4. CASE \/ OwnerTasksDone \/ OwnerPolled \/ OwnerTerminate \/ OwnerWait \/ OwnerThrows
               \/ Destroy \/ WaitForAsyncThread
      <3>1. UNCHANGED <<workerTasks, added>>
        BY <2>4 DEF OwnerTasksDone, OwnerPolled, OwnerTerminate, OwnerWait,
           OwnerThrows, Destroy, WaitForAsyncThread, queues, caller
      <3>2. UNCHANGED <<mainTasks, processed, got>>
        BY <1>5, OwnerMoves
      <3>3. \A y \in Threads : y # Owner => pc'[y] = pc[y]
        BY <1>5, <2>4, OwnerMoves
      <3>. QED  BY <1>1, <3>1, <3>2, <3>3, ThreadNames
    <2>. QED  BY <1>5, <2>1, <2>2, <2>3, <2>4 DEF OwnerStep
  <1>6. ASSUME NEW x \in Threads, Join(x) \/ JoinThrows(x) PROVE Goal
    <2>1. /\ UNCHANGED <<workerTasks, mainTasks, processed, added, got>>
          /\ \A w \in Workers : pc'[w] = pc[w]
      BY <1>6, JoinMoves, ThreadNames
    <2>2. pc'[Main] = pc[Main] \/ (pc[Main] \notin {"popped", "run"}
                                   /\ pc'[Main] \notin {"popped", "run"})
      BY <1>6, JoinMoves, ThreadNames
    <2>. QED  BY <1>1, <2>1, <2>2
  <1>7. ASSUME External PROVE Goal
    BY <1>1, <1>7 DEF External, queues, threads, caller
  <1>8. CASE UNCHANGED vars
    BY <1>1, <1>8 DEF vars, queues, threads, caller
  <1>. QED  BY <1>2, <1>3, <1>4, <1>5, <1>6, <1>7, <1>8 DEF Next, Step, ThreadStep

-----------------------------------------------------------------------------
(* task_producers counts everybody who may still add a task *)

\* The counted tasks are finitely many.
LEMMA OpenFinite ==
  ASSUME Shape
  PROVE  /\ IsFiniteSet(Open) /\ Cardinality(Open) \in Nat
         /\ \A S : S \subseteq Open => Cardinality(S) \in Nat /\ Cardinality(S) <= Cardinality(Open)
         /\ \A t \in Open : \A S : S \subseteq Open \ {t} =>
                Cardinality(S) \in Nat /\ Cardinality(S) <= Cardinality(Open) - 1
         /\ \A t, S : S \subseteq Open \cup {t} =>
                Cardinality(S) \in Nat /\ Cardinality(S) <= Cardinality(Open) + 1
  <1>1. IsFiniteSet(Tasks) /\ Open \subseteq Tasks
    BY PoolAssumption, UseTasks DEF Shape, CallerOK, Open
  <1>2. IsFiniteSet(Open)
    BY <1>1, FS_Subset
  <1>3. Cardinality(Open) \in Nat
    BY <1>2, FS_CardinalityType
  <1>4. ASSUME NEW S, S \subseteq Open
        PROVE  Cardinality(S) \in Nat /\ Cardinality(S) <= Cardinality(Open)
    BY <1>2, <1>4, FS_Subset, FS_CardinalityType
  <1>5. ASSUME NEW t \in Open, NEW S, S \subseteq Open \ {t}
        PROVE  Cardinality(S) \in Nat /\ Cardinality(S) <= Cardinality(Open) - 1
    <2>1. IsFiniteSet(Open \ {t}) /\ Cardinality(Open \ {t}) = Cardinality(Open) - 1
      BY <1>2, FS_RemoveElement
    <2>. QED  BY <1>5, <2>1, FS_Subset, FS_CardinalityType
  <1>6. ASSUME NEW t, NEW S, S \subseteq Open \cup {t}
        PROVE  Cardinality(S) \in Nat /\ Cardinality(S) <= Cardinality(Open) + 1
    <2>1. IsFiniteSet(Open \cup {t})
          /\ Cardinality(Open \cup {t}) \in {Cardinality(Open), Cardinality(Open) + 1}
      BY <1>2, FS_AddElement
    <2>2. IsFiniteSet(S) /\ Cardinality(S) <= Cardinality(Open \cup {t})
      BY <1>6, <2>1, FS_Subset
    <2>3. Cardinality(S) \in Nat
      BY <2>2, FS_CardinalityType
    <2>. QED  BY <1>3, <2>1, <2>2, <2>3
  <1>. QED  BY <1>2, <1>3, <1>4, <1>5, <1>6

\* The owner stops adding tasks once.
LEMMA OwnerGone ==
  ASSUME Shape, [Next]_vars, pc'[Owner] \in {"start", "async", "add"}
  PROVE  pc[Owner] \in {"start", "async", "add"}
  <1>0. Owner \in Threads /\ Main \in Threads /\ Owner # Main /\ Owner \notin Workers
    BY ThreadNames
  <1> SUFFICES ASSUME pc'[Owner] # pc[Owner] PROVE pc[Owner] \in {"start", "async", "add"}
    OBVIOUS
  <1>1. ASSUME NEW x \in Threads, EmergencyShutdown(x) PROVE FALSE
    BY <1>1, ShutdownMoves
  <1>2. ASSUME NEW w \in Workers, WorkerStep(w) PROVE FALSE
    BY <1>0, <1>2, WorkerMoves
  <1>3. ASSUME MainStep PROVE FALSE
    BY <1>0, <1>3, MainMoves
  <1>4. ASSUME OwnerStep PROVE pc[Owner] \in {"start", "async", "add"}
    BY <1>4, OwnerMoves DEF OwnerStep
  <1>5. ASSUME NEW x \in Threads, Join(x) \/ JoinThrows(x) PROVE FALSE
    BY <1>0, <1>5, JoinMoves
  <1>6. ASSUME External PROVE FALSE
    BY <1>6 DEF External, threads
  <1>7. CASE UNCHANGED vars
    BY <1>7 DEF vars, threads
  <1>. QED  BY <1>1, <1>2, <1>3, <1>4, <1>5, <1>6, <1>7 DEF Next, Step, ThreadStep

\* The owner's own unit is given back once.
LEMMA UnitShrinks ==
  ASSUME Shape, [Next]_vars, added \subseteq added'
  PROVE  Unit \in {0, 1} /\ Unit' \in {0, 1} /\ Unit' <= Unit
  <1>1. Roots' = Roots /\ (StopsEarly => StopsEarly')
    BY Lasting DEF StopsEarly
  <1>2. Unit \in {0, 1} /\ Unit' \in {0, 1}
    BY DEF Unit
  <1>3. Unit' = 1 => Unit = 1
    BY <1>1, OwnerGone DEF Unit
  <1>. QED  BY <1>2, <1>3

\* Who may still add tasks, when none is added or finished.
LEMMA CounterKeeps ==
  ASSUME Shape, Early, Counter, [Next]_vars,
         UNCHANGED <<taskProducers, allPushed, processed, added>>
  PROVE  Counter'
  <1>1. Unit \in {0, 1} /\ Unit' \in {0, 1} /\ Unit' <= Unit
    BY UnitShrinks
  <1>2. use' = use /\ Producers' = Producers
    BY Lasting
  <1>3. Open' \subseteq Open
    BY <1>2, MainGone DEF Open, Left
  <1>4. Cardinality(Open') \in Nat /\ Cardinality(Open') <= Cardinality(Open)
        /\ Cardinality(Open) \in Nat
    BY <1>3, OpenFinite
  <1>5. taskProducers \in Int
    BY DEF Shape, CallerOK
  <1>. QED  BY <1>1, <1>2, <1>4, <1>5 DEF Counter, Children

\* The process_data of a producing task leaves: it is no longer counted.
LEMMA CounterLeaves ==
  ASSUME Shape, Once, Apart, Counter, [Next]_vars, MainStep, Process \/ ProcessThrows
  PROVE  Counter'
  <1> DEFINE g == got[Main]
             Grown == \A t \in use.tasks : processed'[t] # 0 => Children(t) \subseteq added
  <1>1. pc[Main] = "run" /\ g \in Tasks /\ got'[Main] = g /\ added' = added /\ LeaveTask
    BY MainMoves DEF Process, ProcessThrows
  <1>2. use' = use /\ Producers' = Producers /\ Unit \in {0, 1} /\ Unit' \in {0, 1} /\ Unit' <= Unit
    BY <1>1, Lasting, UnitShrinks
  <1>3. g \in added /\ processed[g] = 0
    <2>1. g \in InHand
      BY <1>1 DEF InHand
    <2>2. g \in added /\ g \notin Over
      BY <2>1 DEF Apart
    <2>. QED  BY <1>1, <2>2 DEF Over
  <1>4. ASSUME Process PROVE Open' \subseteq Open \ {g} /\ Grown
    <2>1. /\ processed' = [processed EXCEPT ![g] = 1] /\ processed \in [Tasks -> Nat]
          /\ pc'[Main] = "ran" /\ Children(g) \subseteq added
      BY <1>4, FlowProcess, MainMoves DEF Process, Shape, CallerOK
    <2>2. processed'[g] = 1 /\ \A t \in Tasks : t # g => processed'[t] = processed[t]
      BY <1>1, <2>1
    <2>3. use.tasks \subseteq Tasks /\ added \subseteq use.tasks
      BY UseTasks DEF Shape, CallerOK
    <2> HIDE DEF g
    <2>4. Open' \subseteq Open \ {g}
      BY <1>1, <1>2, <2>2, <2>3 DEF Open, Left
    <2>5. Grown
      BY <2>1, <2>2, <2>3 DEF Counter
    <2>. QED  BY <2>4, <2>5
  <1>5. ASSUME ProcessThrows PROVE Open' \subseteq Open \ {g} /\ Grown
    <2>1. processed' = processed /\ pc'[Main] \in {"kill", "threw"}
      BY <1>5, MainMoves DEF ProcessThrows
    <2>2. Open' \subseteq Open \ {g}
      BY <1>1, <1>2, <2>1 DEF Open, Left
    <2>. QED  BY <2>1, <2>2 DEF Counter
  <1>6. Open' \subseteq Open \ {g} /\ Grown
    BY <1>4, <1>5
  <1>7. taskProducers \in Int /\ Cardinality(Open) \in Nat
    BY OpenFinite DEF Shape, CallerOK
  <1>8. CASE g \in Producers
    <2>1. g \in Open
      BY <1>1, <1>3, <1>8 DEF Open, Left
    <2>2. Cardinality(Open') \in Nat /\ Cardinality(Open') <= Cardinality(Open) - 1
      BY <1>6, <2>1, OpenFinite
    <2>3. taskProducers >= 1 /\ ~allPushed
      BY <1>2, <1>7, <2>2 DEF Counter
    <2>4. /\ taskProducers' = taskProducers - 1
          /\ allPushed' => taskProducers = 1
      BY <1>1, <1>8, <2>3 DEF LeaveTask, MaybeTasksDone
    <2> HIDE DEF Grown
    <2>5. (taskProducers >= Unit + Cardinality(Open))' /\ (allPushed => taskProducers = 0)'
      BY <1>2, <1>7, <2>2, <2>4 DEF Counter
    <2>. QED  BY <1>1, <1>2, <1>6, <2>5 DEF Counter, Grown, Children
  <1>9. CASE g \notin Producers
    <2>1. Cardinality(Open') \in Nat /\ Cardinality(Open') <= Cardinality(Open)
      BY <1>6, OpenFinite
    <2>2. UNCHANGED <<taskProducers, allPushed>>
      BY <1>1, <1>9 DEF LeaveTask
    <2> HIDE DEF Grown
    <2>3. (taskProducers >= Unit + Cardinality(Open))' /\ (allPushed => taskProducers = 0)'
      BY <1>2, <1>7, <2>1, <2>2 DEF Counter
    <2>. QED  BY <1>1, <1>2, <1>6, <2>3 DEF Counter, Grown, Children
  <1>. QED  BY <1>8, <1>9

\* add_task() from process_data: what it adds does not add tasks itself.
LEMMA CounterAdds ==
  ASSUME Shape, Early, Counter, [Next]_vars, MainStep, NEW t \in use.tasks, ProcessAdds(t)
  PROVE  Counter'
  <1>1. /\ pc[Main] = "run" /\ got[Main] \in Tasks /\ Parent[t] = got[Main] /\ pc' = pc
        /\ got' = got /\ added' = added \cup {t}
        /\ UNCHANGED <<taskProducers, processed, allPushed>>
    BY MainMoves DEF ProcessAdds, AddTask, threads, members
  <1>2. use' = use /\ Producers' = Producers /\ Unit \in {0, 1} /\ Unit' \in {0, 1} /\ Unit' <= Unit
    BY <1>1, Lasting, UnitShrinks
  <1>3. t \notin Producers
    <2>1. None \notin Tasks /\ use \in Uses
      BY PoolAssumption DEF Shape, CallerOK
    <2>2. \A k \in use.tasks : Parent[k] # None => Parent[Parent[k]] = None
      BY <2>1, PoolAssumption
    <2>3. t \in Tasks
      BY <2>1, UseTasks
    <2>4. \A k \in use.tasks : Parent[k] # t
      BY <1>1, <2>1, <2>2, <2>3
    <2>. QED  BY <2>4 DEF Producers, Children
  <1>4. Open' \subseteq Open
    BY <1>1, <1>2, <1>3 DEF Open, Left
  <1>5. Cardinality(Open') \in Nat /\ Cardinality(Open') <= Cardinality(Open)
        /\ Cardinality(Open) \in Nat /\ taskProducers \in Int
    BY <1>4, OpenFinite DEF Shape, CallerOK
  <1>6. (taskProducers >= Unit + Cardinality(Open))' /\ (allPushed => taskProducers = 0)'
    BY <1>1, <1>2, <1>5 DEF Counter
  <1>. QED  BY <1>1, <1>2, <1>6 DEF Counter, Children

\* add_task() from the owner: a producing task is counted.
LEMMA CounterOwnerAdds ==
  ASSUME Shape, Early, Counter, [Next]_vars, NEW t \in use.tasks, OwnerAdd(t)
  PROVE  Counter'
  <1>1. /\ pc[Owner] = "add" /\ pc' = pc /\ got' = got /\ added' = added \cup {t}
        /\ taskProducers' = (IF t \in Producers THEN taskProducers + 1 ELSE taskProducers)
        /\ UNCHANGED <<processed, allPushed>> /\ ~allPushed
    BY DEF OwnerAdd, AddTask, At, threads, members
  <1>2. use' = use /\ Producers' = Producers /\ Unit \in {0, 1} /\ Unit' \in {0, 1} /\ Unit' <= Unit
    BY <1>1, Lasting, UnitShrinks
  <1>3. taskProducers \in Int /\ Cardinality(Open) \in Nat
    BY OpenFinite DEF Shape, CallerOK
  <1>4. (taskProducers >= Unit + Cardinality(Open))'
    <2>1. CASE t \in Producers
      <3>1. Open' \subseteq Open \cup {t}
        BY <1>1, <1>2 DEF Open, Left
      <3>2. Cardinality(Open') \in Nat /\ Cardinality(Open') <= Cardinality(Open) + 1
        BY <3>1, OpenFinite
      <3>. QED  BY <1>1, <1>2, <1>3, <2>1, <3>2 DEF Counter
    <2>2. CASE t \notin Producers
      <3>1. Open' \subseteq Open
        BY <1>1, <1>2, <2>2 DEF Open, Left
      <3>2. Cardinality(Open') \in Nat /\ Cardinality(Open') <= Cardinality(Open)
        BY <3>1, OpenFinite
      <3>. QED  BY <1>1, <1>2, <1>3, <2>2, <3>2 DEF Counter
    <2>. QED  BY <2>1, <2>2
  <1>. QED  BY <1>1, <1>2, <1>4 DEF Counter, Children

\* The owner is done adding tasks.
LEMMA CounterOwnerDone ==
  ASSUME Shape, Early, Counter, [Next]_vars, OwnerStep, OwnerTasksDone
  PROVE  Counter'
  <1>1. /\ pc[Owner] = "add" /\ pc'[Owner] \in {"process", "poll"} /\ pc'[Main] = pc[Main]
        /\ UNCHANGED <<got, processed, added>> /\ MaybeTasksDone
        /\ ~StopsEarly => Roots \subseteq added
    BY OwnerMoves, ThreadNames DEF OwnerTasksDone, StopsEarly
  <1>2. use' = use /\ Producers' = Producers /\ Roots' = Roots /\ (StopsEarly => StopsEarly')
    BY Lasting DEF StopsEarly
  <1>3. Unit = 1 /\ Unit' = 0
    BY <1>1, <1>2 DEF Unit
  <1>4. Open' = Open
    BY <1>1, <1>2 DEF Open, Left
  <1>5. taskProducers \in Int /\ Cardinality(Open) \in Nat
    BY OpenFinite DEF Shape, CallerOK
  <1>6. taskProducers >= 1 /\ ~allPushed
    BY <1>3, <1>5 DEF Counter
  <1>7. taskProducers' = taskProducers - 1 /\ (allPushed' => taskProducers = 1)
    BY <1>1, <1>6 DEF MaybeTasksDone
  <1>8. (taskProducers >= Unit + Cardinality(Open))' /\ (allPushed => taskProducers = 0)'
    BY <1>3, <1>4, <1>5, <1>7 DEF Counter
  <1>. QED  BY <1>1, <1>2, <1>8 DEF Counter, Children

\* task_producers counts the producing tasks that have not ended and the owner.
LEMMA CounterStep ==
  Shape /\ Early /\ Once /\ Apart /\ Counter /\ [Next]_vars => Counter'
  <1> SUFFICES ASSUME Shape, Early, Once, Apart, Counter, [Next]_vars PROVE Counter'
    OBVIOUS
  <1>1. ASSUME NEW x \in Threads, EmergencyShutdown(x) PROVE Counter'
    BY <1>1, CounterKeeps, ShutdownMoves
  <1>2. ASSUME NEW w \in Workers, WorkerStep(w) PROVE Counter'
    BY <1>2, CounterKeeps, WorkerMoves
  <1>3. ASSUME MainStep PROVE Counter'
    <2>1. CASE Process \/ ProcessThrows
      BY <1>3, <2>1, CounterLeaves
    <2>2. ASSUME NEW t \in use.tasks, ProcessAdds(t) PROVE Counter'
      BY <1>3, <2>2, CounterAdds
    <2>3. CASE MainPop \/ MainCheck \/ MainAgain \/ MainFinish \/ MainSetDone \/ MainRethrow
      <3>1. UNCHANGED <<taskProducers, allPushed, processed, added>>
        BY <2>3 DEF MainPop, MainCheck, MainAgain, MainFinish, MainSetDone,
           MainRethrow, members, caller
      <3>. QED  BY <3>1, CounterKeeps
    <2>. QED  BY <1>3, <2>1, <2>2, <2>3 DEF MainStep
  <1>4. ASSUME OwnerStep PROVE Counter'
    <2>1. ASSUME NEW t \in use.tasks, OwnerAdd(t) PROVE Counter'
      BY <2>1, CounterOwnerAdds
    <2>2. CASE OwnerTasksDone
      BY <1>4, <2>2, CounterOwnerDone
    <2>3. CASE \/ StartThreads \/ ProcessAsync \/ OwnerProcess \/ OwnerPolled \/ OwnerTerminate
               \/ OwnerWait \/ OwnerThrows \/ Destroy \/ WaitForAsyncThread
      <3>1. UNCHANGED <<taskProducers, allPushed, processed, added>>
        BY <2>3 DEF StartThreads, ProcessAsync, OwnerProcess, OwnerPolled,
           OwnerTerminate, OwnerWait, OwnerThrows, Destroy, WaitForAsyncThread,
           members, caller
      <3>. QED  BY <3>1, CounterKeeps
    <2>. QED  BY <1>4, <2>1, <2>2, <2>3 DEF OwnerStep
  <1>5. ASSUME NEW x \in Threads, Join(x) \/ JoinThrows(x) PROVE Counter'
    BY <1>5, CounterKeeps, JoinMoves
  <1>6. ASSUME External PROVE Counter'
    BY <1>6, CounterKeeps DEF External, members, caller
  <1>7. CASE UNCHANGED vars
    BY <1>7, CounterKeeps DEF vars, members, caller
  <1>. QED  BY <1>1, <1>2, <1>3, <1>4, <1>5, <1>6, <1>7 DEF Next, Step, ThreadStep

-----------------------------------------------------------------------------
(* What process() reports *)

\* The destructor is the owner's last call.
LEMMA OwnerEnds ==
  ASSUME Shape, [Next]_vars, pc[Owner] \in {"kill", "waitasync", "end"}
  PROVE  pc'[Owner] \in {"kill", "waitasync", "end"}
  <1>0. Owner \in Threads /\ Main \in Threads /\ Owner # Main /\ Owner \notin Workers
    BY ThreadNames
  <1> SUFFICES ASSUME pc'[Owner] # pc[Owner] PROVE pc'[Owner] \in {"kill", "waitasync", "end"}
    OBVIOUS
  <1>1. ASSUME NEW x \in Threads, EmergencyShutdown(x) PROVE FALSE
    BY <1>1, ShutdownMoves
  <1>2. ASSUME NEW w \in Workers, WorkerStep(w) PROVE FALSE
    BY <1>0, <1>2, WorkerMoves
  <1>3. ASSUME MainStep PROVE FALSE
    BY <1>0, <1>3, MainMoves
  <1>4. ASSUME OwnerStep PROVE pc'[Owner] = "end"
    BY <1>4, OwnerMoves DEF OwnerStep
  <1>5. ASSUME NEW x \in Threads, Join(x) \/ JoinThrows(x) PROVE pc'[Owner] = "waitasync"
    BY <1>0, <1>5, JoinMoves
  <1>6. ASSUME External PROVE FALSE
    BY <1>6 DEF External, threads
  <1>7. CASE UNCHANGED vars
    BY <1>7 DEF vars, threads
  <1>. QED  BY <1>1, <1>2, <1>3, <1>4, <1>5, <1>6, <1>7 DEF Next, Step, ThreadStep

\* Only process() says DONE.
LEMMA DoneSteps ==
  ASSUME Shape, [Next]_vars, asyncState' = "DONE", asyncState # "DONE"
  PROVE  MainStep /\ MainSetDone
  <1>1. ASSUME NEW x \in Threads, EmergencyShutdown(x) PROVE FALSE
    BY <1>1, ShutdownMoves DEF EmergencyShutdown
  <1>2. ASSUME NEW w \in Workers, WorkerStep(w) PROVE FALSE
    BY <1>2 DEF WorkerStep, WorkerPop, WorkerCheck, Produce, ProduceThrows,
       WorkerAgain, WorkerLeave, WorkerGuard, members
  <1>3. ASSUME MainStep, ~MainSetDone PROVE FALSE
    BY <1>3 DEF MainStep, MainPop, MainCheck, ProcessAdds, Process,
       ProcessThrows, MainAgain, MainFinish, MainRethrow, members
  <1>4. ASSUME OwnerStep PROVE FALSE
    BY <1>4 DEF OwnerStep, StartThreads, ProcessAsync, OwnerAdd, OwnerTasksDone,
       OwnerProcess, OwnerPolled, OwnerTerminate, OwnerWait, OwnerThrows,
       Destroy, WaitForAsyncThread, members
  <1>5. ASSUME NEW x \in Threads, Join(x) \/ JoinThrows(x) PROVE FALSE
    BY <1>5, JoinMoves
  <1>6. ASSUME External PROVE FALSE
    BY <1>6 DEF External, members
  <1>7. CASE UNCHANGED vars
    BY <1>7 DEF vars, members
  <1>. QED  BY <1>1, <1>2, <1>3, <1>4, <1>5, <1>6, <1>7 DEF Next, Step, ThreadStep

\* Who changes the set of tasks and what was processed.
LEMMA TaskSteps ==
  ASSUME Shape, [Next]_vars
  PROVE  /\ added' = added \/ ~allPushed
         /\ processed' = processed \/ (MainStep /\ Process)
  <1>1. ASSUME NEW x \in Threads, EmergencyShutdown(x) PROVE UNCHANGED <<added, processed>>
    BY <1>1, ShutdownMoves
  <1>2. ASSUME NEW w \in Workers, WorkerStep(w) PROVE UNCHANGED <<added, processed>>
    BY <1>2, WorkerMoves
  <1>3. ASSUME MainStep
        PROVE  (added' = added \/ ~allPushed) /\ (processed' = processed \/ Process)
    BY <1>3 DEF MainStep, MainPop, MainCheck, ProcessAdds, AddTask, Process,
       ProcessThrows, MainAgain, MainFinish, MainSetDone, MainRethrow, caller
  <1>4. ASSUME OwnerStep
        PROVE  (added' = added \/ ~allPushed) /\ processed' = processed
    <2>1. added' = added \/ ~allPushed
      BY <1>4 DEF OwnerStep, StartThreads, ProcessAsync, OwnerAdd, AddTask,
         OwnerTasksDone, OwnerProcess, OwnerPolled, OwnerTerminate, OwnerWait,
         OwnerThrows, Destroy, WaitForAsyncThread, caller
    <2>. QED  BY <1>4, <2>1, OwnerMoves
  <1>5. ASSUME NEW x \in Threads, Join(x) \/ JoinThrows(x) PROVE UNCHANGED <<added, processed>>
    BY <1>5, JoinMoves
  <1>6. ASSUME External PROVE UNCHANGED <<added, processed>>
    BY <1>6 DEF External, caller
  <1>7. CASE UNCHANGED vars
    BY <1>7 DEF vars, caller
  <1>. QED  BY <1>1, <1>2, <1>3, <1>4, <1>5, <1>6, <1>7 DEF Next, Step, ThreadStep

\* Once everything was announced and processed nothing more is added or processed.
LEMMA SettledStays ==
  ASSUME Shape, Once, Apart, [Next]_vars, Settled
  PROVE  Settled'
  <1>1. allPushed /\ allPushed' /\ added' = added
    BY Lasting, TaskSteps DEF Settled
  <1>2. ~(MainStep /\ Process)
    <2> SUFFICES ASSUME MainStep, Process PROVE FALSE
      OBVIOUS
    <2>1. InHand = {got[Main]} /\ processed[got[Main]] = 0
      BY FlowProcess
    <2>2. got[Main] \in added
      BY <2>1 DEF Apart
    <2>. QED  BY <2>1, <2>2 DEF Settled, AllProcessed
  <1>3. processed' = processed
    BY <1>2, TaskSteps
  <1>. QED  BY <1>1, <1>3 DEF Settled, AllProcessed

\* process() ends without an interrupt when everything was announced and processed.
LEMMA FinishSettled ==
  ASSUME Shape, Counted, Guards, Once, Apart, NoneLost, [Next]_vars,
         pc[Main] = "finish", ~Interrupted
  PROVE  Settled
  <1>1. Quiet
    BY DEF Guards
  <1>2. \A w \in Workers : pc[w] \in {"guard", "exit"} /\ w \notin failed
    BY <1>1, NobodyStays DEF Quiet
  <1>3. failed = {}
    BY <1>2 DEF Shape, MembersOK
  <1>4. Empty
    <2>1. 1 \in Workers
      BY ThreadNames
    <2>. QED  BY <1>2, <2>1 DEF Guards
  <1>5. ~Broken
    BY <1>3 DEF Broken
  <1>6. Queued = {} /\ Ready = {} /\ InHand = {} /\ \A w \in Workers : Held[w] = {}
    <2>1. Len(<<>>) = 0
      OBVIOUS
    <2>2. \A t \in Tasks : t \notin Queued
      BY <1>4, <2>1 DEF Empty, Queued, Has
    <2>3. \A t \in Tasks : t \notin Ready
      BY <1>1, <2>1 DEF Quiet, Ready, Has
    <2>4. InHand = {}
      BY DEF InHand
    <2>5. \A w \in Workers : Held[w] = {}
      BY <1>2 DEF Held
    <2>. QED  BY <2>2, <2>3, <2>4, <2>5 DEF Queued, Ready
  <1>7. \A t \in added : t \in Over
    BY <1>5, <1>6 DEF NoneLost, Present
  <1>8. \A t \in added : processed[t] = 1
    BY <1>7 DEF Once, Over
  <1>. QED  BY <1>4, <1>8 DEF Settled, AllProcessed, Empty

\* Who starts an emergency shutdown, and why.
LEMMA AlarmSteps ==
  ASSUME Shape, Early, Counted, Result, [Next]_vars, Uninterrupted,
         workerInterrupt' \/ interruptFlag' \/ \E x \in Threads : es'[x] # "no"
  PROVE  \/ failed' # {}
         \/ pc'[Main] \in {"kill", "threw"}
         \/ pc'[Owner] \in {"kill", "waitasync", "end"}
  <1> DEFINE Goal == \/ failed' # {}
                     \/ pc'[Main] \in {"kill", "threw"}
                     \/ pc'[Owner] \in {"kill", "waitasync", "end"}
  <1>0. CASE workerInterrupt \/ interruptFlag \/ \E x \in Threads : es[x] # "no"
    <2>1. \/ failed # {}
          \/ pc[Main] \in {"kill", "threw"}
          \/ pc[Owner] \in {"kill", "waitasync", "end"}
      BY <1>0 DEF Result
    <2>2. failed \subseteq failed'
      BY Lasting
    <2>. QED  BY <2>1, <2>2, MainGone, OwnerEnds
  <1> SUFFICES ASSUME ~workerInterrupt, ~interruptFlag, \A x \in Threads : es[x] = "no"
               PROVE  Goal
    BY <1>0
  <1> HIDE DEF Goal
  <1>1. ASSUME NEW x \in Threads, EmergencyShutdown(x) PROVE Goal
    BY <1>1, ShutdownMoves
  <1>2. ASSUME NEW w \in Workers, WorkerStep(w) PROVE Goal
    <2>1. CASE ProduceThrows(w)
      BY <2>1 DEF ProduceThrows, Goal
    <2>2. CASE ~ProduceThrows(w)
      BY <1>2, <2>2, WorkerMoves
    <2>. QED  BY <2>1, <2>2
  <1>3. ASSUME MainStep PROVE Goal
    <2>1. /\ UNCHANGED <<workerInterrupt, interruptFlag>>
          /\ \A y \in Threads : y # Main => es'[y] = es[y]
      BY <1>3, MainMoves
    <2>2. es'[Main] # "no"
      BY <2>1
    <2>3. Process \/ ProcessThrows
      BY <1>3, <2>2, MainMoves
    <2>4. ~Process
      <3> SUFFICES ASSUME Process PROVE FALSE
        OBVIOUS
      <3>1. es' = es
        BY DEF Process, Uninterrupted
      <3>. QED  BY <2>2, <3>1, ThreadNames
    <2>5. pc'[Main] \in {"kill", "threw"}
      BY <1>3, <2>3, <2>4, MainMoves
    <2>. QED  BY <2>5 DEF Goal
  <1>4. ASSUME OwnerStep PROVE Goal
    <2>1. /\ UNCHANGED <<workerInterrupt, interruptFlag>>
          /\ \A y \in Threads : y # Owner => es'[y] = es[y]
      BY <1>4, OwnerMoves
    <2>2. OwnerTerminate \/ pc'[Owner] = "kill"
      BY <1>4, <2>1, OwnerMoves
    <2>3. ~OwnerTerminate
      BY DEF OwnerTerminate, Uninterrupted
    <2>. QED  BY <2>2, <2>3 DEF Goal
  <1>5. ASSUME NEW x \in Threads, Join(x) \/ JoinThrows(x) PROVE Goal
    BY <1>5, JoinMoves
  <1>6. ASSUME External PROVE Goal
    BY <1>6 DEF External, Uninterrupted
  <1>7. CASE UNCHANGED vars
    BY <1>7 DEF vars, flags, threads
  <1>8. Goal
    BY <1>1, <1>2, <1>3, <1>4, <1>5, <1>6, <1>7 DEF Next, Step, ThreadStep
  <1>. QED  BY <1>8 DEF Goal

\* What process() reports stays true.
LEMMA ResultStep ==
  /\ Shape /\ Fresh /\ Early /\ Counted /\ Guards /\ Once /\ Apart /\ NoneLost /\ Result
  /\ [Next]_vars
  => Result'
  <1> SUFFICES ASSUME Shape, Fresh, Early, Counted, Guards, Once, Apart, NoneLost, Result,
                      [Next]_vars
               PROVE  Result'
    OBVIOUS
  <1>1. (Settled => Settled') /\ (Interrupted => Interrupted') /\ Uninterrupted' = Uninterrupted
    BY SettledStays, Lasting DEF Uninterrupted
  <1>2. /\ ProcessAsync \/ OwnerProcess => pc[Owner] \in {"async", "process"}
        /\ pc[Owner] \in {"async", "process"} => pc[Main] = "none"
    BY DEF Early, ProcessAsync, OwnerProcess, At
  <1>3. MainFinish /\ MainStep /\ ~Interrupted => Settled
    BY MainMoves, FinishSettled
  <1>4. pc'[Main] = "setdone" => Settled'
    <2> SUFFICES ASSUME pc'[Main] = "setdone" PROVE Settled'
      OBVIOUS
    <2>1. pc[Main] = "setdone" \/ (MainStep /\ MainFinish)
      BY MainTargets
    <2>2. ASSUME MainStep, MainFinish PROVE ~Interrupted
      BY <2>2, MainMoves
    <2>. QED  BY <1>1, <1>3, <2>1, <2>2 DEF Result
  <1>5. asyncState' = "DONE" =>
          Settled' /\ pc'[Main] \in {"join", "rethrow", "returned", "threw"}
    <2> SUFFICES ASSUME asyncState' = "DONE"
                 PROVE  Settled' /\ pc'[Main] \in {"join", "rethrow", "returned", "threw"}
      OBVIOUS
    <2>1. CASE asyncState = "DONE"
      <3>1. Settled /\ pc[Main] \in {"join", "rethrow", "returned", "threw"}
        BY <2>1 DEF Result
      <3>2. ~MainStep \/ (MainRethrow /\ pc'[Main] \in {"threw", "returned"})
        BY <3>1, MainMoves DEF MainStep
      <3>3. pc'[Main] \in {"join", "rethrow", "returned", "threw"}
        BY <1>2, <3>1, <3>2, MainTargets
      <3>. QED  BY <1>1, <3>1, <3>3
    <2>2. CASE asyncState # "DONE"
      <3>1. MainStep /\ MainSetDone
        BY <2>2, DoneSteps
      <3>2. pc[Main] = "setdone" /\ pc'[Main] = "join"
        BY <3>1, MainMoves
      <3>. QED  BY <1>1, <3>2 DEF Result
    <2>. QED  BY <2>1, <2>2
  <1>6. pc'[Main] \in {"join", "rethrow"} => Settled' \/ Interrupted'
    <2> SUFFICES ASSUME pc'[Main] \in {"join", "rethrow"} PROVE Settled' \/ Interrupted'
      OBVIOUS
    <2>1. pc[Main] \in {"join", "rethrow"} \/ (MainStep /\ (MainFinish \/ MainSetDone))
      BY MainTargets
    <2>2. ASSUME MainStep, MainFinish PROVE Settled' \/ Interrupted'
      BY <1>1, <1>3, <2>2
    <2>3. ASSUME MainStep, MainSetDone PROVE Settled'
      <3>1. pc[Main] = "setdone"
        BY <2>3, MainMoves
      <3>. QED  BY <1>1, <3>1 DEF Result
    <2>4. CASE pc[Main] \in {"join", "rethrow"}
      BY <1>1, <2>4 DEF Result
    <2>. QED  BY <2>1, <2>2, <2>3, <2>4
  <1>7. Uninterrupted'
        /\ (workerInterrupt' \/ interruptFlag' \/ \E x \in Threads : es'[x] # "no") =>
          \/ failed' # {}
          \/ pc'[Main] \in {"kill", "threw"}
          \/ pc'[Owner] \in {"kill", "waitasync", "end"}
    BY <1>1, AlarmSteps
  <1>8. pc'[Main] = "returned" /\ Uninterrupted' =>
          Settled' \/ pc'[Owner] \in {"kill", "waitasync", "end"}
    <2> SUFFICES ASSUME pc'[Main] = "returned", Uninterrupted
                 PROVE  Settled' \/ pc'[Owner] \in {"kill", "waitasync", "end"}
      BY <1>1
    <2>1. CASE pc[Main] = "returned"
      BY <1>1, <2>1, OwnerEnds DEF Result
    <2>2. CASE pc[Main] # "returned"
      <3>1. MainStep /\ MainRethrow
        BY <2>2, MainTargets
      <3>2. pc[Main] = "rethrow" /\ failed = {}
        BY <3>1, MainMoves
      <3>3. CASE Settled
        BY <1>1, <3>3
      <3>4. CASE ~Settled
        <4>1. workerInterrupt \/ interruptFlag
          BY <3>2, <3>4 DEF Result, Interrupted
        <4>2. pc[Owner] \in {"kill", "waitasync", "end"}
          BY <3>2, <4>1 DEF Result
        <4>. QED  BY <4>2, OwnerEnds
      <3>. QED  BY <3>3, <3>4
    <2>. QED  BY <2>1, <2>2
  <1>. QED  BY <1>4, <1>5, <1>6, <1>7, <1>8 DEF Result

-----------------------------------------------------------------------------
(* The theorems *)

PoolInv ==
  /\ Shape /\ Fresh /\ Early /\ Flagged /\ Counted /\ Guards /\ Shown
  /\ Once /\ Apart /\ NoneLost /\ Counter /\ Result /\ Joins

\* A new pool has no tasks, no guards and no threads yet.
LEMMA InitPool == Init => PoolInv
  <1> SUFFICES ASSUME Init PROVE PoolInv
    OBVIOUS
  <1>1. Shape
    BY InitShape
  <1>2. /\ pc[Owner] = "start" /\ pc[Main] = "none" /\ \A w \in Workers : pc[w] = "none"
        /\ \A x \in Threads : es[x] = "no" /\ got[x] = None
    BY ThreadNames DEF Init
  <1>3. /\ \A p \in 1..4 : workerTasks[p] = <<>>
        /\ mainTasks = <<>> /\ workerGuards = 0 /\ mainGuards = 0
        /\ failed = {} /\ joined = {} /\ added = {} /\ asyncState = "IDLE"
        /\ taskProducers = 1 /\ activeThreads = NumWorkers
        /\ \A t \in Tasks : processed[t] = 0
        /\ joining[Owner] = 1 /\ joining[Main] = 1
    BY DEF Init
  <1>4. ~workerInterrupt /\ ~interruptFlag /\ ~allPushed /\ ~cleared /\ ~aborted
    BY Zenon DEF Init
  <1>5. Fresh /\ Early /\ Flagged
    BY <1>2, <1>3, <1>4 DEF Fresh, Early, Flagged
  <1>6. Counted
    <2>1. Live = 1..NumWorkers
      BY <1>2, ThreadNames DEF Live
    <2>2. Cardinality(1..NumWorkers) = NumWorkers
      BY ThreadNames, FS_Interval
    <2>. QED  BY <1>2, <1>3, <2>1, <2>2 DEF Counted
  <1>7. Guards /\ Shown
    BY <1>2, <1>3, <1>4 DEF Guards, Shown
  <1>8. /\ Queued = {} /\ Ready = {} /\ InHand = {} /\ Over = {}
        /\ \A w \in Workers : Held[w] = {}
    <2>1. Len(<<>>) = 0
      OBVIOUS
    <2>2. (\A t \in Tasks : t \notin Queued) /\ (\A t \in Tasks : t \notin Ready)
      BY <1>3, <2>1 DEF Queued, Ready, Has
    <2>3. InHand = {} /\ Over = {}
      BY <1>2, <1>3 DEF InHand, Over
    <2>4. \A w \in Workers : Held[w] = {}
      BY <1>2 DEF Held
    <2>. QED  BY <2>2, <2>3, <2>4 DEF Queued, Ready
  <1>9. Once /\ Apart /\ NoneLost
    <2>1. Len(<<>>) = 0
      OBVIOUS
    <2>2. Once
      BY <1>3, <2>1 DEF Once, Distinct, Has
    <2>3. Apart
      BY <1>3, <1>8 DEF Apart
    <2>4. NoneLost
      BY <1>3 DEF NoneLost
    <2>. QED  BY <2>2, <2>3, <2>4
  <1>10. Counter
    <2>1. Open = {} /\ Cardinality({}) = 0
      BY <1>3, FS_EmptySet DEF Open
    <2>2. Unit = 1
      BY <1>2 DEF Unit
    <2>3. \A t \in use.tasks : processed[t] = 0
      BY <1>1, <1>3, UseTasks DEF Shape, CallerOK
    <2>. QED  BY <1>3, <1>4, <2>1, <2>2, <2>3 DEF Counter
  <1>11. Result
    BY <1>2, <1>3, <1>4 DEF Result
  <1>12. Joins
    <2>1. Turns
      BY <1>2 DEF Turns, Early
    <2>2. Joining
      BY <1>2, <1>3, <1>4 DEF Joining
    <2>. QED  BY <1>4, <2>1, <2>2 DEF Joins
  <1>. QED  BY <1>1, <1>5, <1>6, <1>7, <1>9, <1>10, <1>11, <1>12 DEF PoolInv

\* The pool's invariant, for every interleaving of its threads.
THEOREM Inductive == Spec => []PoolInv
  <1>1. Init => PoolInv
    BY InitPool
  <1>2. PoolInv /\ [Next]_vars => PoolInv'
    <2> SUFFICES ASSUME PoolInv, [Next]_vars PROVE PoolInv'
      OBVIOUS
    <2>1. /\ Shape /\ Fresh /\ Early /\ Flagged /\ Counted /\ Guards /\ Shown
          /\ Once /\ Apart /\ NoneLost /\ Counter /\ Result /\ Joins
      BY DEF PoolInv
    <2>2. Shape' /\ Fresh' /\ Early' /\ Flagged' /\ Counted'
      BY <2>1, ShapeStep, FreshStep, EarlyStep, FlaggedStep, CountedStep
    <2>3. Guards' /\ Shown'
      BY <2>1, GuardsStep, ShownStep
    <2>4. Once' /\ Apart' /\ NoneLost'
      BY <2>1, FlowStep
    <2>5. Counter' /\ Result' /\ Joins'
      BY <2>1, CounterStep, ResultStep, JoinsStep
    <2>. QED  BY <2>2, <2>3, <2>4, <2>5 DEF PoolInv
  <1>. QED  BY <1>1, <1>2, PTL DEF Spec

\* DONE, and a process() that returns to an owner that waits for it and was not
\* interrupted, mean that tasks_done() was called and that every task that was
\* added has been processed once.
THEOREM DoneCorrect == Spec => []DoneMeansProcessed
  <1>1. PoolInv => DoneMeansProcessed
    BY DEF PoolInv, Result, Settled, DoneMeansProcessed
  <1>. QED  BY <1>1, Inductive, PTL

\* m_active_threads and the guards do not underflow, and tasks_done() comes after
\* the last add_task(), whoever adds tasks.
THEOREM BookkeepingCorrect == Spec => []Bookkeeping
  <1>1. PoolInv => TypeOK
    <2> SUFFICES ASSUME PoolInv PROVE TypeOK
      OBVIOUS
    <2>1. Shape /\ Counted /\ Counter
      BY DEF PoolInv
    <2>2. activeThreads \in 0..NumWorkers
      BY <2>1, LiveFinite, ThreadNames DEF Counted
    <2>3. taskProducers \in Nat
      <3>1. Cardinality(Open) \in Nat /\ taskProducers \in Int
        BY <2>1, OpenFinite DEF Shape, CallerOK
      <3>2. Unit \in {0, 1}
        BY DEF Unit
      <3>. QED  BY <2>1, <3>1, <3>2 DEF Counter
    <2>4. /\ workerTasks \in [1..4 -> Seq(Tasks)] /\ workerGuards \in Nat
          /\ mainTasks \in Seq(Tasks) /\ mainGuards \in Nat
      BY <2>1 DEF Shape, QueuesOK
    <2>5. /\ workerInterrupt \in BOOLEAN /\ interruptFlag \in BOOLEAN /\ allPushed \in BOOLEAN
          /\ cleared \in BOOLEAN /\ aborted \in BOOLEAN
      BY <2>1, Zenon DEF Shape, MembersOK
    <2>6. /\ asyncState \in {"IDLE", "PRODUCING", "PROCESSING", "DONE", "TERMINATED"}
          /\ failed \subseteq Workers /\ joined \subseteq Workers
      BY <2>1 DEF Shape, MembersOK
    <2>7. /\ es \in [Threads -> {"no", "set", "state", "workers", "main"}]
          /\ got \in [Threads -> Tasks \cup {None}]
          /\ joining \in [{Owner, Main} -> 1..NumWorkers]
      BY <2>1 DEF Shape, ThreadsOK, Workers
    <2>8. pc \in [Threads -> {"none", "start", "async", "add", "process", "poll", "wait",
                           "destroy", "kill", "waitasync", "end",
                           "pop", "popped", "run", "ran", "finish", "setdone",
                           "join", "rethrow", "returned", "threw",
                           "leave", "guard", "exit"}]
      BY <2>1 DEF Shape, ThreadsOK, Pcs, WorkerPcs, MainPcs, OwnerPcs
    <2>9. use \in Uses /\ added \subseteq use.tasks /\ processed \in [Tasks -> Nat]
      BY <2>1 DEF Shape, CallerOK
    <2>. QED  BY <2>2, <2>3, <2>4, <2>5, <2>6, <2>7, <2>8, <2>9, Zenon DEF TypeOK
  <1>2. PoolInv => TasksDoneLast
    <2> SUFFICES ASSUME PoolInv, allPushed, pc[Main] \notin {"kill", "threw"}, ~StopsEarly
                 PROVE  added = use.tasks
      BY DEF TasksDoneLast
    <2>1. Shape /\ Counter
      BY DEF PoolInv
    <2>2. taskProducers = 0 /\ Unit \in {0, 1} /\ Cardinality(Open) \in Nat /\ IsFiniteSet(Open)
      BY <2>1, OpenFinite DEF Counter, Unit
    <2>3. Unit = 0 /\ Cardinality(Open) = 0
      BY <2>1, <2>2 DEF Counter
    <2>4. Open = {}
      BY <2>2, <2>3, FS_EmptySet
    <2>5. Roots \subseteq added
      BY <2>3 DEF Unit
    <2>6. ASSUME NEW t \in use.tasks PROVE t \in added
      <3>1. CASE Parent[t] = None
        BY <2>5, <3>1 DEF Roots
      <3>2. CASE Parent[t] # None
        <4>1. Parent[t] \in use.tasks /\ Parent[Parent[t]] = None
          BY <2>1, <3>2, PoolAssumption DEF Shape, CallerOK
        <4>2. Parent[t] \in added /\ t \in Children(Parent[t])
          BY <2>5, <4>1 DEF Roots, Children
        <4>3. Parent[t] \in Producers
          BY <4>1, <4>2 DEF Producers
        <4>4. processed[Parent[t]] # 0
          BY <2>4, <4>2, <4>3 DEF Open, Left
        <4>. QED  BY <2>1, <4>1, <4>2, <4>4 DEF Counter
      <3>. QED  BY <3>1, <3>2
    <2>. QED  BY <2>1, <2>6 DEF Shape, CallerOK
  <1>. QED  BY <1>1, <1>2, Inductive, PTL DEF Bookkeeping

\* The failure of a worker stays visible in m_async_state.
THEOREM FailureShown == Spec => []FailureVisible
  <1>1. PoolInv => FailureVisible
    BY DEF PoolInv, Shown, FailureVisible
  <1>. QED  BY <1>1, Inductive, PTL

\* The destructor joins every thread once, and leaves none running, unless the
\* owner throws while process_async() runs.
THEOREM DestructionCorrect == Spec => []CleanDestruction
  <1>1. PoolInv => CleanDestruction
    <2> SUFFICES ASSUME PoolInv, ~Races
                 PROVE  /\ ~aborted
                        /\ At(Owner, "end") => /\ \A w \in Workers : At(w, "exit")
                                               /\ pc[Main] \in {"none", "returned", "threw"}
      BY DEF CleanDestruction, Races
    <2>1. ~aborted /\ Turns /\ Joining
      BY DEF PoolInv, Joins
    <2>. QED  BY <2>1 DEF Turns, Early, Joining, At
  <1>. QED  BY <1>1, Inductive, PTL

=============================================================================
