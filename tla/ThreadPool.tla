----------------------------- MODULE ThreadPool -----------------------------
(***************************************************************************)
(* shcore::Thread_pool_base (thread_pool.h) on top of Synchronized_queue   *)
(* (synchronized_queue.h): worker threads run the produce_data half of a   *)
(* task, one thread runs the process_data half of every finished task.     *)
(*                                                                         *)
(* Threads: the workers 1..NumWorkers, Owner (who creates the pool, adds   *)
(* the tasks and destroys the pool) and Main (who executes process(): the  *)
(* owner's own call when Style is "sync", else the thread that             *)
(* process_async() starts).  A task whose Parent is another task is added  *)
(* by the process_data of its parent, as Dump_info::rescan_metadata does   *)
(* for the tables of a schema; the tasks_done() of such an owner is        *)
(* guarded by the counter task_producers.                                  *)
(***************************************************************************)
EXTENDS Integers, Sequences, FiniteSets

CONSTANTS
    NumWorkers,   \* m_threads
    Tasks,        \* everything add_task() is ever called with
    Parent,       \* the task whose process_data adds this one, or None
    Priority,     \* Queue_priority of each task, 1 (LOWEST) .. 4 (HIGH)
    Uses,         \* the ways in which the shell uses a pool, see Use
    None

Workers == 1..NumWorkers
Owner   == 0
Main    == NumWorkers + 1
Threads == Workers \cup {Owner, Main}

Styles     == {"sync", "results", "state"}
FaultKinds == {"produce", "process", "terminate", "external", "owner"}

\* One use of the pool: the tasks it gets, how the owner waits for them,
\* whether the pool was given an external interrupt flag, and the failures
\* that may happen.
Use == [tasks : SUBSET Tasks, style : Styles, hasFlag : BOOLEAN, faults : SUBSET FaultKinds]

\* The tasks that add tasks are those of the owner: table tasks add none, and
\* task_producers only counts schemas.  No pool that is given a flag has any:
\* process() stops at the flag without running the process_data that would call
\* tasks_done().
ASSUME PoolAssumption ==
    /\ NumWorkers \in Nat \ {0}
    /\ IsFiniteSet(Tasks) /\ None \notin Tasks
    /\ Parent \in [Tasks -> Tasks \cup {None}]
    /\ Priority \in [Tasks -> 1..4]
    /\ Uses \subseteq Use
    /\ \A u \in Uses :
          /\ "external" \in u.faults => u.hasFlag
          /\ u.hasFlag => \A t \in u.tasks : Parent[t] = None
          /\ \A t \in u.tasks : Parent[t] # None =>
                Parent[t] \in u.tasks /\ Parent[Parent[t]] = None

VARIABLES
    use,              \* the use of the pool, which never changes
    \* the two queues: deques by priority, and the guards, which come last
    workerTasks,      \* m_worker_tasks.m_queues, priority -> sequence
    workerGuards,     \* its k_shutdown_priority deque
    mainTasks,        \* m_main_thread_tasks, one priority only
    mainGuards,
    \* members of the pool
    activeThreads,    \* m_active_threads
    workerInterrupt,  \* m_worker_interrupt
    interruptFlag,    \* *m_interrupted
    allPushed,        \* m_all_tasks_pushed
    asyncState,       \* m_async_state
    failed,           \* workers with an entry in m_worker_exceptions
    joined,           \* elements of m_workers that were joined
    cleared,          \* m_workers is empty
    \* threads
    pc,               \* where each thread is
    es,               \* where it is in emergency_shutdown(), if it is
    got,              \* task (or None, a guard) the thread has popped
    joining,          \* the element of m_workers it joins
    aborted,          \* join() threw inside a destructor
    \* the caller's bookkeeping
    added,            \* tasks given to add_task()
    taskProducers,    \* rescan_metadata(): task_producers
    processed         \* how often the process_data of a task has finished

queues   == <<workerTasks, workerGuards, mainTasks, mainGuards>>
flags    == <<workerInterrupt, interruptFlag>>
members  == <<activeThreads, allPushed, asyncState, failed, joined, cleared>>
threads  == <<pc, es, got, joining, aborted>>
caller   == <<added, taskProducers, processed>>
vars     == <<use, queues, flags, members, threads, caller>>

Style   == use.style
HasFlag == use.hasFlag
Faults  == use.faults

Roots       == {t \in use.tasks : Parent[t] = None}
Children(t) == {k \in use.tasks : Parent[k] = t}
Producers   == {t \in use.tasks : Children(t) # {}}

TypeOK ==
    /\ use \in Uses
    /\ workerTasks \in [1..4 -> Seq(Tasks)]
    /\ workerGuards \in Nat
    /\ mainTasks \in Seq(Tasks)
    /\ mainGuards \in Nat
    /\ activeThreads \in 0..NumWorkers
    /\ workerInterrupt \in BOOLEAN
    /\ interruptFlag \in BOOLEAN
    /\ allPushed \in BOOLEAN
    /\ asyncState \in {"IDLE", "PRODUCING", "PROCESSING", "DONE", "TERMINATED"}
    /\ failed \subseteq Workers
    /\ joined \subseteq Workers
    /\ cleared \in BOOLEAN
    /\ pc \in [Threads -> {"none", "start", "async", "add", "process", "poll", "wait",
                           "destroy", "kill", "waitasync", "end",
                           "pop", "popped", "run", "ran", "finish", "setdone",
                           "join", "rethrow", "returned", "threw",
                           "leave", "guard", "exit"}]
    /\ es \in [Threads -> {"no", "set", "state", "workers", "main"}]
    /\ got \in [Threads -> Tasks \cup {None}]
    /\ joining \in [{Owner, Main} -> 1..NumWorkers]
    /\ aborted \in BOOLEAN
    /\ added \subseteq use.tasks
    /\ taskProducers \in Nat
    /\ processed \in [Tasks -> Nat]

\* The constructor with an optional flag; no user passes max_queued_tasks, so the
\* queue of tasks has no limit.
Init ==
    /\ use \in Uses
    /\ workerTasks = [p \in 1..4 |-> <<>>]
    /\ workerGuards = 0
    /\ mainTasks = <<>>
    /\ mainGuards = 0
    /\ activeThreads = NumWorkers
    /\ workerInterrupt = FALSE
    /\ interruptFlag = FALSE
    /\ allPushed = FALSE
    /\ asyncState = "IDLE"
    /\ failed = {}
    /\ joined = {}
    /\ cleared = FALSE
    /\ pc = [x \in Threads |-> IF x = Owner THEN "start" ELSE "none"]
    /\ es = [x \in Threads |-> "no"]
    /\ got = [x \in Threads |-> None]
    /\ joining = [x \in {Owner, Main} |-> 1]
    /\ aborted = FALSE
    /\ added = {}
    /\ taskProducers = 1
    /\ processed = [t \in Tasks |-> 0]

----------------------------------------------------------------------------
(* Helpers.                                                                *)

\* interrupted()
Interrupted == workerInterrupt \/ (HasFlag /\ interruptFlag)

\* A thread is at l and not inside emergency_shutdown().
At(x, l)   == pc[x] = l /\ es[x] = "no"
Goto(x, l) == pc' = [pc EXCEPT ![x] = l]

\* The deque unsynchronized_pop() takes from: the highest priority that has
\* an element; 0 stands for the guards.
NextPriority ==
    LET ready == {p \in 1..4 : workerTasks[p] # <<>>} IN
    IF ready = {} THEN 0 ELSE CHOOSE p \in ready : \A q \in ready : q <= p

\* pop() of m_worker_tasks and of m_main_thread_tasks, by thread x.
PopWorkerTasks(x) ==
    LET p == NextPriority IN
    \/ /\ p > 0
       /\ got' = [got EXCEPT ![x] = Head(workerTasks[p])]
       /\ workerTasks' = [workerTasks EXCEPT ![p] = Tail(@)]
       /\ UNCHANGED workerGuards
    \/ /\ p = 0 /\ workerGuards > 0
       /\ got' = [got EXCEPT ![x] = None]
       /\ workerGuards' = workerGuards - 1
       /\ UNCHANGED workerTasks

PopMainTasks(x) ==
    \/ /\ mainTasks # <<>>
       /\ got' = [got EXCEPT ![x] = Head(mainTasks)]
       /\ mainTasks' = Tail(mainTasks)
       /\ UNCHANGED mainGuards
    \/ /\ mainTasks = <<>> /\ mainGuards > 0
       /\ got' = [got EXCEPT ![x] = None]
       /\ mainGuards' = mainGuards - 1
       /\ UNCHANGED mainTasks

\* add_task()
AddTask(t) ==
    /\ ~allPushed
    /\ workerTasks' = [workerTasks EXCEPT ![Priority[t]] = Append(@, t)]
    /\ added' = added \cup {t}

\* maybe_shutdown() of rescan_metadata(), with the tasks_done() it calls.
\* Owners that know all their tasks call tasks_done() themselves: the counter
\* then only has the owner's own unit.
MaybeTasksDone ==
    /\ taskProducers' = taskProducers - 1
    /\ IF taskProducers = 1
         THEN /\ allPushed' = TRUE
              /\ workerGuards' = workerGuards + NumWorkers
         ELSE UNCHANGED <<allPushed, workerGuards>>

----------------------------------------------------------------------------
(* emergency_shutdown(), executed by any thread: the test, the two flags   *)
(* (set together: interrupted() is their disjunction), the state and the   *)
(* two queues are separate steps.                                          *)

\* The call: nothing happens when the local flag is set already.
Emergency(x) == es' = [es EXCEPT ![x] = IF workerInterrupt THEN "no" ELSE "set"]

SetInterrupt(x) ==
    /\ es[x] = "set"
    /\ workerInterrupt' = TRUE
    /\ interruptFlag' = (HasFlag \/ interruptFlag)
    /\ es' = [es EXCEPT ![x] = "state"]
    /\ UNCHANGED <<queues, members, pc, got, joining, aborted, caller>>

SetTerminated(x) ==
    /\ es[x] = "state"
    /\ asyncState' = "TERMINATED"
    /\ es' = [es EXCEPT ![x] = "workers"]
    /\ UNCHANGED <<queues, flags, activeThreads, allPushed, failed, joined, cleared,
                   pc, got, joining, aborted, caller>>

\* MUTANT: one guard for all the workers
ShutdownOne(x) ==
    /\ es[x] = "workers"
    /\ workerGuards' = workerGuards + 1
    /\ es' = [es EXCEPT ![x] = "main"]
    /\ UNCHANGED <<workerTasks, mainTasks, mainGuards, flags, members,
                   pc, got, joining, aborted, caller>>

ShutdownWorkers(x) ==
    /\ es[x] = "workers"
    /\ workerGuards' = workerGuards + NumWorkers
    /\ es' = [es EXCEPT ![x] = "main"]
    /\ UNCHANGED <<workerTasks, mainTasks, mainGuards, flags, members,
                   pc, got, joining, aborted, caller>>

ShutdownMain(x) ==
    /\ es[x] = "main"
    /\ mainGuards' = mainGuards + 1
    /\ es' = [es EXCEPT ![x] = "no"]
    /\ UNCHANGED <<workerTasks, workerGuards, mainTasks, flags, members,
                   pc, got, joining, aborted, caller>>

EmergencyShutdown(x) ==
    SetInterrupt(x) \/ SetTerminated(x) \/ ShutdownWorkers(x) \/ ShutdownMain(x)

----------------------------------------------------------------------------
(* The thread function of start_threads().                                 *)

WorkerPop(w) ==
    /\ At(w, "pop")
    /\ PopWorkerTasks(w)
    /\ Goto(w, "popped")
    /\ UNCHANGED <<mainTasks, mainGuards, flags, members, es, joining, aborted, caller>>

WorkerCheck(w) ==
    /\ At(w, "popped")
    /\ Goto(w, IF Interrupted \/ got[w] = None THEN "leave" ELSE "run")
    /\ UNCHANGED <<queues, flags, members, es, got, joining, aborted, caller>>

\* produce_data() succeeds and its result is queued for process().
Produce(w) ==
    /\ At(w, "run")
    /\ mainTasks' = Append(mainTasks, got[w])
    /\ Goto(w, "ran")
    /\ UNCHANGED <<workerTasks, workerGuards, mainGuards, flags, members,
                   es, got, joining, aborted, caller>>

\* MUTANT: the exception is not kept for rethrow()
ProduceThrowsUnrecorded(w) ==
    /\ "produce" \in Faults
    /\ At(w, "run")
    /\ Emergency(w)
    /\ Goto(w, "exit")
    /\ UNCHANGED <<queues, flags, members, got, joining, aborted, caller>>

\* MUTANT: a failing worker also decrements m_active_threads
ProduceThrowsDecrement(w) ==
    /\ "produce" \in Faults
    /\ At(w, "run")
    /\ failed' = failed \cup {w}
    /\ Emergency(w)
    /\ Goto(w, "leave")
    /\ UNCHANGED <<queues, flags, activeThreads, allPushed, asyncState, joined, cleared,
                   got, joining, aborted, caller>>

\* produce_data() throws: the thread ends after the emergency shutdown,
\* without the decrement of m_active_threads.
ProduceThrows(w) ==
    /\ "produce" \in Faults
    /\ At(w, "run")
    /\ failed' = failed \cup {w}
    /\ Emergency(w)
    /\ Goto(w, "exit")
    /\ UNCHANGED <<queues, flags, activeThreads, allPushed, asyncState, joined, cleared,
                   got, joining, aborted, caller>>

WorkerAgain(w) ==
    /\ At(w, "ran")
    /\ Goto(w, IF Interrupted THEN "leave" ELSE "pop")
    /\ UNCHANGED <<queues, flags, members, es, got, joining, aborted, caller>>

\* maybe_shutdown_main_thread(): the last worker marks the second half ...
WorkerLeave(w) ==
    /\ At(w, "leave")
    /\ activeThreads' = activeThreads - 1
    /\ IF activeThreads = 1
         THEN asyncState' = "PROCESSING" /\ Goto(w, "guard")
         ELSE UNCHANGED asyncState /\ Goto(w, "exit")
    /\ UNCHANGED <<queues, flags, allPushed, failed, joined, cleared,
                   es, got, joining, aborted, caller>>

\* ... and then queues the guard that ends process().
WorkerGuard(w) ==
    /\ At(w, "guard")
    /\ mainGuards' = mainGuards + 1
    /\ Goto(w, "exit")
    /\ UNCHANGED <<workerTasks, workerGuards, mainTasks, flags, members,
                   es, got, joining, aborted, caller>>

WorkerStep(w) ==
    \/ WorkerPop(w) \/ WorkerCheck(w) \/ Produce(w) \/ ProduceThrows(w)
    \/ WorkerAgain(w) \/ WorkerLeave(w) \/ WorkerGuard(w)

----------------------------------------------------------------------------
(* wait_for_worker_threads(), in process(), in kill_threads() and in the   *)
(* destructor.  "join" is the normal end of process(), "kill" the join of  *)
(* kill_threads().                                                         *)

\* What follows the join: the destructor goes on to wait_for_async_thread(),
\* a kill in process() rethrows, its normal end looks for worker exceptions.
AfterJoin(x) ==
    IF x = Owner THEN "waitasync" ELSE IF pc[x] = "kill" THEN "threw" ELSE "rethrow"

\* worker.join() of the next element; the last one also clears m_workers.
Join(x) ==
    /\ x \in {Owner, Main}
    /\ At(x, "join") \/ At(x, "kill")
    /\ pc[joining[x]] = "exit" /\ es[joining[x]] = "no"
    /\ joining[x] \notin joined /\ ~cleared
    /\ joined' = joined \cup {joining[x]}
    /\ IF joining[x] = NumWorkers
         THEN /\ cleared' = TRUE
              /\ Goto(x, AfterJoin(x))
              /\ UNCHANGED joining
         ELSE /\ joining' = [joining EXCEPT ![x] = @ + 1]
              /\ UNCHANGED <<cleared, pc>>
    /\ UNCHANGED <<queues, flags, activeThreads, allPushed, asyncState, failed,
                   es, got, aborted, caller>>

\* The element was joined by another thread: join() throws system_error. In
\* the destructor that ends the program.
JoinThrows(x) ==
    /\ x \in {Owner, Main}
    /\ At(x, "join") \/ At(x, "kill")
    /\ joining[x] \in joined
    /\ IF x = Owner
         THEN aborted' = TRUE /\ UNCHANGED pc
         ELSE Goto(x, "threw") /\ UNCHANGED aborted
    /\ UNCHANGED <<queues, flags, members, es, got, joining, caller>>

\* MUTANT: without the test of m_workers.empty()
KillAlways(x, after) == Goto(x, "kill") /\ Emergency(x)

\* kill_threads()
KillThreads(x, after) ==
    IF cleared THEN Goto(x, after) /\ UNCHANGED es
               ELSE Goto(x, "kill") /\ Emergency(x)

----------------------------------------------------------------------------
(* process()                                                               *)

MainPop ==
    /\ At(Main, "pop")
    /\ PopMainTasks(Main)
    /\ Goto(Main, "popped")
    /\ UNCHANGED <<workerTasks, workerGuards, flags, members, es, joining, aborted, caller>>

MainCheck ==
    /\ At(Main, "popped")
    /\ Goto(Main, IF Interrupted \/ got[Main] = None THEN "finish" ELSE "run")
    /\ UNCHANGED <<queues, flags, members, es, got, joining, aborted, caller>>

\* process_data() of a producing task adds its tasks one at a time.
ProcessAdds(t) ==
    /\ At(Main, "run") /\ Parent[t] = got[Main] /\ t \notin added
    /\ AddTask(t)
    /\ UNCHANGED <<workerGuards, mainTasks, mainGuards, flags, members, threads,
                   taskProducers, processed>>

\* The on_leave_scope of a producing task's process_data.
LeaveTask ==
    IF got[Main] \in Producers
      THEN MaybeTasksDone
      ELSE UNCHANGED <<taskProducers, allPushed, workerGuards>>

\* process_data() returns, or calls terminate() first (execute_view_ddl_tasks).
Process ==
    /\ At(Main, "run")
    /\ Children(got[Main]) \subseteq added
    /\ processed' = [processed EXCEPT ![got[Main]] = @ + 1]
    /\ LeaveTask
    /\ Goto(Main, "ran")
    /\ \/ UNCHANGED es
       \/ "terminate" \in Faults /\ Style = "sync" /\ Emergency(Main)
    /\ UNCHANGED <<workerTasks, mainTasks, mainGuards, flags, activeThreads, asyncState,
                   failed, joined, cleared, got, joining, aborted, added>>

\* process_data() throws, possibly with only some of its tasks added.
ProcessThrows ==
    /\ "process" \in Faults
    /\ At(Main, "run")
    /\ LeaveTask
    /\ KillThreads(Main, "threw")
    /\ UNCHANGED <<workerTasks, mainTasks, mainGuards, flags, activeThreads, asyncState,
                   failed, joined, cleared, got, joining, aborted, added, processed>>

MainAgain ==
    /\ At(Main, "ran")
    /\ Goto(Main, IF Interrupted THEN "finish" ELSE "pop")
    /\ UNCHANGED <<queues, flags, members, es, got, joining, aborted, caller>>

\* The test of the flags and the assignment of DONE are two steps.
MainFinish ==
    /\ At(Main, "finish")
    /\ Goto(Main, IF Interrupted THEN "join" ELSE "setdone")
    /\ UNCHANGED <<queues, flags, members, es, got, joining, aborted, caller>>

MainSetDone ==
    /\ At(Main, "setdone")
    /\ asyncState' = "DONE"
    /\ Goto(Main, "join")
    /\ UNCHANGED <<queues, flags, activeThreads, allPushed, failed, joined, cleared,
                   es, got, joining, aborted, caller>>

\* rethrow()
MainRethrow ==
    /\ At(Main, "rethrow")
    /\ Goto(Main, IF failed # {} THEN "threw" ELSE "returned")
    /\ UNCHANGED <<queues, flags, members, es, got, joining, aborted, caller>>

MainStep ==
    \/ MainPop \/ MainCheck \/ (\E t \in use.tasks : ProcessAdds(t))
    \/ Process \/ ProcessThrows \/ MainAgain
    \/ MainFinish \/ MainSetDone \/ MainRethrow

----------------------------------------------------------------------------
(* The owner of the pool.                                                  *)

StartThreads ==
    /\ At(Owner, "start")
    /\ pc' = [x \in Threads |-> IF x \in Workers THEN "pop"
                                ELSE IF x = Owner
                                     THEN IF Style = "sync" THEN "add" ELSE "async"
                                     ELSE pc[x]]
    /\ UNCHANGED <<queues, flags, members, es, got, joining, aborted, caller>>

\* process_async()
ProcessAsync ==
    /\ At(Owner, "async")
    /\ asyncState' = "PRODUCING"
    /\ pc' = [pc EXCEPT ![Owner] = "add", ![Main] = "pop"]
    /\ UNCHANGED <<queues, flags, activeThreads, allPushed, failed, joined, cleared,
                   es, got, joining, aborted, caller>>

\* MUTANT: a producing task is not counted when it is added
AddUncounted(t) ==
    /\ At(Owner, "add") /\ t \in Roots \ added
    /\ AddTask(t)
    /\ UNCHANGED <<workerGuards, mainTasks, mainGuards, flags, members, threads, taskProducers,
                   processed>>

\* The owner adds a task; a producing one is counted first.
OwnerAdd(t) ==
    /\ At(Owner, "add") /\ t \in Roots \ added
    /\ AddTask(t)
    /\ taskProducers' = IF t \in Producers THEN taskProducers + 1 ELSE taskProducers
    /\ UNCHANGED <<workerGuards, mainTasks, mainGuards, flags, members, threads, processed>>

\* All its tasks are added, or its loop stopped because it was interrupted
\* (the loader, the binlog dumper).
OwnerTasksDone ==
    /\ At(Owner, "add")
    /\ Roots \subseteq added \/ (HasFlag /\ interruptFlag) \/ "terminate" \in Faults
    /\ MaybeTasksDone
    /\ Goto(Owner, IF Style = "sync" THEN "process" ELSE "poll")
    /\ UNCHANGED <<workerTasks, mainTasks, mainGuards, flags, activeThreads, asyncState,
                   failed, joined, cleared, es, got, joining, aborted, added, processed>>

\* The owner calls process() itself.
OwnerProcess ==
    /\ At(Owner, "process")
    /\ pc' = [pc EXCEPT ![Owner] = "wait", ![Main] = "pop"]
    /\ UNCHANGED <<queues, flags, members, es, got, joining, aborted, caller>>

\* Worker_pool::wait() polls the state; the loader's execute_*_ddl_tasks()
\* also stop polling when they have every result.
OwnerPolled ==
    /\ At(Owner, "poll")
    /\ \/ asyncState \in (IF Style = "state" THEN {"DONE", "TERMINATED"} ELSE {"TERMINATED"})
       \/ Style = "state" /\ HasFlag /\ interruptFlag
       \/ Style = "results" /\ \A t \in added : processed[t] > 0
    /\ Goto(Owner, "wait")
    /\ UNCHANGED <<queues, flags, members, es, got, joining, aborted, caller>>

\* The loader was interrupted, and terminates the pool.
OwnerTerminate ==
    /\ "terminate" \in Faults /\ Style = "results"
    /\ At(Owner, "poll")
    /\ Emergency(Owner)
    /\ Goto(Owner, "wait")
    /\ UNCHANGED <<queues, flags, members, got, joining, aborted, caller>>

\* process() returned, or wait_for_process() joined its thread.
OwnerWait ==
    /\ At(Owner, "wait")
    /\ pc[Main] \in {"returned", "threw"}
    /\ Goto(Owner, "destroy")
    /\ UNCHANGED <<queues, flags, members, es, got, joining, aborted, caller>>

\* Something the owner does between its calls of add_task() throws.
OwnerThrows ==
    /\ "owner" \in Faults
    /\ At(Owner, "add")
    /\ Goto(Owner, "destroy")
    /\ UNCHANGED <<queues, flags, members, es, got, joining, aborted, caller>>

\* ~Thread_pool_base()
Destroy ==
    /\ At(Owner, "destroy")
    /\ KillThreads(Owner, "waitasync")
    /\ UNCHANGED <<queues, flags, members, got, joining, aborted, caller>>

WaitForAsyncThread ==
    /\ At(Owner, "waitasync")
    /\ pc[Main] \in {"none", "returned", "threw"}
    /\ Goto(Owner, "end")
    /\ UNCHANGED <<queues, flags, members, es, got, joining, aborted, caller>>

OwnerStep ==
    \/ StartThreads \/ ProcessAsync \/ (\E t \in use.tasks : OwnerAdd(t)) \/ OwnerTasksDone
    \/ OwnerProcess \/ OwnerPolled \/ OwnerTerminate \/ OwnerWait \/ OwnerThrows
    \/ Destroy \/ WaitForAsyncThread

\* ^C, or another thread, sets the flag that the pool was given.
External ==
    /\ "external" \in Faults /\ ~interruptFlag
    /\ interruptFlag' = TRUE
    /\ UNCHANGED <<queues, workerInterrupt, members, threads, caller>>

----------------------------------------------------------------------------
Ended == aborted \/ At(Owner, "end")

ThreadStep(x) ==
    \/ EmergencyShutdown(x)
    \/ x \in Workers /\ WorkerStep(x)
    \/ x = Main /\ MainStep
    \/ x = Owner /\ OwnerStep
    \/ Join(x) \/ JoinThrows(x)

\* Nothing happens once the pool is destroyed.
Step(x) == ~Ended /\ ThreadStep(x) /\ UNCHANGED use

Next ==
    \/ \E x \in Threads : Step(x)
    \/ ~Ended /\ External /\ UNCHANGED use

\* Every thread that can take a step eventually does: the operating system
\* schedules all threads, and the calls they make return.
Fairness == \A x \in Threads : WF_vars(Step(x))

Spec     == Init /\ [][Next]_vars
FairSpec == Spec /\ Fairness
----------------------------------------------------------------------------
(* Properties.                                                             *)

\* Every task that was added has been processed, once.
AllProcessed == \A t \in added : processed[t] = 1

\* The owner never asks the pool to stop early.
Uninterrupted == Faults \cap {"terminate", "external"} = {}

\* The owner has a reason to stop adding tasks.
StopsEarly == "terminate" \in Faults \/ (HasFlag /\ interruptFlag)

\* DONE is only shown when nothing is left: all tasks were announced, and the
\* result of each was processed exactly once, whatever the order in which the
\* workers finish, fail or are interrupted (process(), m_async_state = DONE).
\* A process() that returns normally to an owner that waits for it has
\* processed everything, too: no failure of a worker is swallowed, even when it
\* happens while process() is already ending (rethrow() runs after the join).
\* Only an interrupt that the owner asked for lets process() return early.
DoneMeansProcessed ==
    \/ asyncState = "DONE"
    \/ Uninterrupted /\ pc[Main] = "returned" /\ pc[Owner] = "wait"
    => allPushed /\ AllProcessed

\* tasks_done() comes after the last add_task(), although tasks are added by
\* the owner and by process_data of other tasks: task_producers only reaches
\* zero when nobody is left who could add one (else add_task() throws
\* logic_error).  An owner that was interrupted or a process_data that threw
\* may leave tasks out.
TasksDoneLast ==
    allPushed => added = use.tasks \/ pc[Main] \in {"kill", "threw"} \/ StopsEarly

\* The bookkeeping of the pool is consistent: TasksDoneLast, and m_active_threads
\* and the guards in the two queues never underflow (TypeOK).
Bookkeeping == TypeOK /\ TasksDoneLast

\* The owner sees the failure of a worker in the value process_async() gave
\* it: once process() has ended, and nobody is still inside
\* emergency_shutdown(), the state is TERMINATED, which neither the workers
\* that leave (PROCESSING) nor process() (DONE) overwrite: the failed worker
\* is never counted out of m_active_threads.  The failure of a process_data
\* has no such guarantee, because there all the workers leave.
FailureVisible ==
    failed # {} /\ pc[Main] \in {"returned", "threw"} /\ (\A x \in Threads : es[x] = "no")
        => asyncState = "TERMINATED"

\* The destructor finishes: no std::thread is joined twice (join() would
\* throw in a destructor), and after it no thread of the pool is running.  An
\* owner that throws while process_async() runs does not have this guarantee:
\* kill_threads() and process() then join the same workers.
CleanDestruction ==
    ~("owner" \in Faults /\ Style # "sync") =>
        /\ ~aborted
        /\ At(Owner, "end") => /\ \A w \in Workers : At(w, "exit")
                               /\ pc[Main] \in {"none", "returned", "threw"}

\* Nobody waits for ever on one of the two queues, on a join, or for a state
\* that does not come: the owner gets to the end of the destructor.
Termination == <>Ended
============================================================================
