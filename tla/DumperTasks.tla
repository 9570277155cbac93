----------------------------- MODULE DumperTasks -----------------------------
(***************************************************************************)
(* The task engine of the dumper (src/modules/util/dump/dumper.cc): what   *)
(* Dumper::run() and do_run() do in the main thread, the loop of the       *)
(* worker threads (Table_worker), the pool of sessions the workers borrow  *)
(* from, and the ^C handler that every dump utility installs around run(). *)
(*                                                                         *)
(* The main thread pushes HIGH tasks (metadata and DDL files) and MEDIUM   *)
(* ones (chunking of a table).  A chunking task pushes LOW tasks (dump of  *)
(* one chunk) and, with checksums enabled, LOWEST ones; a dump without     *)
(* data that computes checksums has LOWEST tasks instead of the chunking   *)
(* ones.  Guards sit below all of them.  As tasks of one priority are      *)
(* alike here, a queue is a record of counters: pop() takes from the first *)
(* one that is not zero.                                                   *)
(* What a task writes, the SQL it runs and the progress it reports are     *)
(* left out; a task either does its work or throws.                        *)
(***************************************************************************)
EXTENDS Integers, FiniteSets

CONSTANTS
  NumWorkers,    \* m_options.worker_threads()
  NumSessions,   \* m_options.threads()
  NumHigh,       \* metadata and DDL files of the dump
  NumTables,     \* tables (or partitions) that are dumped or checksummed
  MaxChunks,     \* bound: chunks a single table is split into
  Checksum,      \* whether the dump computes checksums
  Failures,      \* the places that may throw an exception
  SignalAt,      \* the points of the main thread at which ^C may arrive
  MaxSignals     \* bound: how many times ^C is pressed

Places == {"lock", "init", "prepare", "tasks", "finalize",
           "high", "validate", "chunk", "data", "finish", "sum"}

MainPoints == {"start", "lock", "sessions", "threads", "init", "prepare",
               "tasks", "maybe", "join", "finalize", "rethrow", "cleanup",
               "unwind", "final", "catch", "kill", "killjoin", "done"}

ASSUME SizesAssumption ==
  /\ NumWorkers \in Nat \ {0}
  /\ NumSessions \in Nat \ {0}
  /\ NumHigh \in Nat
  /\ NumTables \in Nat
  /\ MaxChunks \in Nat \ {0}
  /\ MaxSignals \in Nat

ASSUME FaultsAssumption ==
  /\ Checksum \in BOOLEAN
  /\ Failures \subseteq Places
  /\ SignalAt \subseteq MainPoints

VARIABLES
  main,        \* where the main thread is
  interrupt,   \* m_worker_interrupt
  workers,     \* m_workers.size()
  wpc,         \* where each worker is
  task,        \* the kind of task each worker holds
  made,        \* chunks the chunking task of each worker has pushed
  queue,       \* m_worker_tasks
  pool,        \* m_session_pool.size()
  holds,       \* the workers whose m_session is set
  closed,      \* sessions closed by the cleanup of do_run()
  created,     \* tasks the main thread has pushed
  dumpData,    \* m_options.dump_data(), chosen by the caller
  produced,    \* m_main_thread_finished_producing_chunking_tasks
  highDone,    \* m_ddl_written + m_schema_metadata_written + ...
  validated,   \* whether the checks of maybe_ddl_dump_finished() were made
  chunkDone,   \* m_chunking_tasks_completed
  dataTotal,   \* m_data_tasks_total
  dumped,      \* m_data_tasks_completed
  summed,      \* m_checksum_tasks_completed
  failed,      \* the workers with an entry in m_worker_exceptions
  doneFile,    \* whether finalize_dump() wrote @.done.json
  result,      \* how run() ended
  sig,         \* where the ^C handler is
  signals      \* how many times ^C was pressed

mainVars    == <<main, workers, created, produced, closed, doneFile, result>>
workerVars  == <<wpc, task, made, holds, failed>>
counterVars == <<dumpData, highDone, validated, chunkDone, dataTotal, dumped,
                 summed>>
sigVars     == <<sig, signals>>
vars == <<mainVars, workerVars, counterVars, sigVars, interrupt, queue, pool>>

Workers == 1..NumWorkers

Kinds == {"high", "chunk", "data", "sum", "guard"}

Queues == [Kinds -> Nat]

\* A dump has data, checksums or both; with neither there are no table tasks.
Init ==
  /\ dumpData \in BOOLEAN /\ (dumpData \/ Checksum)
  /\ main = "start"
  /\ interrupt = FALSE
  /\ workers = 0
  /\ wpc = [w \in Workers |-> "none"]
  /\ task = [w \in Workers |-> "guard"]
  /\ made = [w \in Workers |-> 0]
  /\ queue = [k \in Kinds |-> 0]
  /\ pool = 0
  /\ holds = {}
  /\ closed = 0
  /\ created = 0
  /\ produced = FALSE
  /\ highDone = 0
  /\ validated = FALSE
  /\ chunkDone = 0
  /\ dataTotal = 0
  /\ dumped = 0
  /\ summed = 0
  /\ failed = {}
  /\ doneFile = FALSE
  /\ result = "none"
  /\ sig = "none"
  /\ signals = 0

-----------------------------------------------------------------------------
(* The queue *)

Push(k) == queue' = [queue EXCEPT ![k] = @ + 1]

\* m_worker_tasks.shutdown(m_workers.size()): one guard per worker thread that
\* exists right now.
ShutdownQueue == queue' = [queue EXCEPT !["guard"] = @ + workers]

\* The queue pop() takes from: the first that is not empty, the one of the
\* guards being the last.
FirstQueue(k) ==
  /\ queue[k] > 0
  /\ k \in {"chunk", "data", "sum", "guard"} => queue["high"] = 0
  /\ k \in {"data", "sum", "guard"} => queue["chunk"] = 0
  /\ k \in {"sum", "guard"} => queue["data"] = 0
  /\ k = "guard" => queue["sum"] = 0

\* The tables whose tasks the main thread has pushed.
TablesPushed == IF created > NumHigh THEN created - NumHigh ELSE 0

\* m_chunking_tasks_total
ChunkTotal == IF dumpData THEN TablesPushed ELSE 0

\* MUTANT: the flag of the main thread is not taken into account.
AllCompleted == chunkDone = ChunkTotal

AllTasksProduced == produced /\ chunkDone = ChunkTotal

MaybePushShutdownTasks ==
  IF AllTasksProduced THEN ShutdownQueue ELSE UNCHANGED queue

-----------------------------------------------------------------------------
(* The main thread: Dumper::run() and do_run() *)

MainAt(from, to) == main = from /\ main' = to

\* The flag is cleared once, when do_run() starts.
Clear ==
  /\ MainAt("start", "lock")
  /\ interrupt' = FALSE
  /\ UNCHANGED <<workers, created, produced, closed, doneFile, result, queue,
                 pool, workerVars, counterVars, sigVars>>

\* acquire_read_locks(), then do_run() returns when it was interrupted.
AcquireReadLocks ==
  /\ MainAt("lock", IF interrupt THEN "final" ELSE "sessions")
  /\ UNCHANGED <<workers, created, produced, closed, doneFile, result, queue,
                 pool, interrupt, workerVars, counterVars, sigVars>>

CreateWorkerSessions ==
  /\ MainAt("sessions", "threads")
  /\ pool' = NumSessions
  /\ UNCHANGED <<workers, created, produced, closed, doneFile, result, queue,
                 interrupt, workerVars, counterVars, sigVars>>

\* create_worker_threads(): one thread at a time, each starts at once.
CreateWorkerThread ==
  /\ MainAt("threads", IF workers + 1 = NumWorkers THEN "init" ELSE "threads")
  /\ workers' = workers + 1
  /\ wpc' = [wpc EXCEPT ![workers + 1] = "pop"]
  /\ UNCHANGED <<created, produced, closed, doneFile, result, queue, pool,
                 interrupt, task, made, holds, failed, counterVars, sigVars>>

\* initialize_instance_cache() and lock_instance(); then, with the cleanup of
\* the sessions in place, everything up to dump_ddl().
InitializeCache ==
  /\ \/ MainAt("init", "prepare")
     \/ MainAt("prepare", "tasks")
  /\ UNCHANGED <<workers, created, produced, closed, doneFile, result, queue,
                 pool, interrupt, workerVars, counterVars, sigVars>>

\* push_table_task(): the table is chunked, or its checksum is all there is.
TableTask == IF dumpData THEN "chunk" ELSE "sum"

\* create_schema_metadata_tasks(), create_schema_ddl_tasks() and
\* create_table_tasks(): the HIGH tasks first, then a task per table.
CreateTask ==
  /\ main = "tasks"
  /\ created < NumHigh + NumTables
  /\ Push(IF created < NumHigh THEN "high" ELSE TableTask)
  /\ created' = created + 1
  /\ UNCHANGED <<main, workers, produced, closed, doneFile, result, pool,
                 interrupt, workerVars, counterVars, sigVars>>

\* The end of create_table_tasks().
FinishProducing ==
  /\ created = NumHigh + NumTables
  /\ MainAt("tasks", "maybe")
  /\ produced' = TRUE
  /\ UNCHANGED <<workers, created, closed, doneFile, result, queue, pool,
                 interrupt, workerVars, counterVars, sigVars>>

MainMaybeShutdown ==
  /\ MainAt("maybe", "join")
  /\ MaybePushShutdownTasks
  /\ UNCHANGED <<workers, created, produced, closed, doneFile, result, pool,
                 interrupt, workerVars, counterVars, sigVars>>

\* wait_for_all_tasks(), called by do_run() and by kill_workers().
AllJoined == \A w \in 1..workers : wpc[w] = "exit"

WaitForAllTasks ==
  /\ AllJoined
  /\ \/ MainAt("join", "finalize") /\ UNCHANGED result
     \/ MainAt("killjoin", "done") /\ result' = "error"
  /\ workers' = 0
  /\ UNCHANGED <<created, produced, closed, doneFile, queue, pool, interrupt,
                 workerVars, counterVars, sigVars>>

\* finalize_dump() writes @.done.json, unless the dump was interrupted.
Finalize ==
  /\ MainAt("finalize", "rethrow")
  /\ doneFile' = ~interrupt
  /\ UNCHANGED <<workers, created, produced, closed, result, queue, pool,
                 interrupt, workerVars, counterVars, sigVars>>

Rethrow ==
  /\ MainAt("rethrow", IF failed # {} THEN "unwind" ELSE "cleanup")
  /\ UNCHANGED <<workers, created, produced, closed, doneFile, result, queue,
                 pool, interrupt, workerVars, counterVars, sigVars>>

\* The scope guard "Ensures all the worker sessions get closed": pops every
\* session, waiting for it, both on success and when an exception unwinds.
CloseSession ==
  /\ main \in {"cleanup", "unwind"}
  /\ closed < NumSessions
  /\ pool > 0
  /\ pool' = pool - 1
  /\ closed' = closed + 1
  /\ UNCHANGED <<main, workers, created, produced, doneFile, result, queue,
                 interrupt, workerVars, counterVars, sigVars>>

SessionsClosed ==
  /\ closed = NumSessions
  /\ MainAt("cleanup", "final") \/ MainAt("unwind", "catch")
  /\ UNCHANGED <<workers, created, produced, closed, doneFile, result, queue,
                 pool, interrupt, workerVars, counterVars, sigVars>>

\* MUTANT: run() does not look at the flag when do_run() returns.
FinishOk ==
  /\ MainAt("final", "done")
  /\ result' = "ok"
  /\ UNCHANGED <<workers, created, produced, closed, doneFile, queue, pool,
                 interrupt, workerVars, counterVars, sigVars>>

\* The end of run(): "Interrupted by user", or success.
Finish ==
  /\ MainAt("final", "done")
  /\ result' = IF interrupt THEN "cancelled" ELSE "ok"
  /\ UNCHANGED <<workers, created, produced, closed, doneFile, queue, pool,
                 interrupt, workerVars, counterVars, sigVars>>

\* An exception in the main thread.  Where the sessions have been handed over
\* to the cleanup they are closed first, then run() catches it.
MainThrows ==
  /\ main \in Failures
  /\ main' = IF main \in {"lock", "init"} THEN "catch" ELSE "unwind"
  /\ UNCHANGED <<workers, created, produced, closed, doneFile, result, queue,
                 pool, interrupt, workerVars, counterVars, sigVars>>

\* kill_workers(): emergency_shutdown() sets the flag, then pushes the guards.
KillWorkers ==
  /\ MainAt("catch", "kill")
  /\ interrupt' = TRUE
  /\ UNCHANGED <<workers, created, produced, closed, doneFile, result, queue,
                 pool, workerVars, counterVars, sigVars>>

KillGuards ==
  /\ MainAt("kill", "killjoin")
  /\ ShutdownQueue
  /\ UNCHANGED <<workers, created, produced, closed, doneFile, result, pool,
                 interrupt, workerVars, counterVars, sigVars>>

MainStep ==
  \/ Clear
  \/ AcquireReadLocks
  \/ CreateWorkerSessions
  \/ CreateWorkerThread
  \/ InitializeCache
  \/ CreateTask
  \/ FinishProducing
  \/ MainMaybeShutdown
  \/ WaitForAllTasks
  \/ Finalize
  \/ Rethrow
  \/ CloseSession
  \/ SessionsClosed
  \/ Finish
  \/ MainThrows
  \/ KillWorkers
  \/ KillGuards

-----------------------------------------------------------------------------
(* A worker thread: Table_worker::run() *)

Goto(w, to) == wpc' = [wpc EXCEPT ![w] = to]

At(w, from, to) == wpc[w] = from /\ Goto(w, to)

Pop(w) ==
  \E k \in Kinds :
    /\ FirstQueue(k)
    /\ At(w, "pop", "popped")
    /\ queue' = [queue EXCEPT ![k] = @ - 1]
    /\ task' = [task EXCEPT ![w] = k]
    /\ UNCHANGED <<mainVars, made, holds, failed, counterVars, sigVars,
                   interrupt, pool>>

\* Interrupted, the worker drops the task it has just taken; a guard ends it.
CheckPopped(w) ==
  /\ At(w, "popped", IF interrupt \/ task[w] = "guard" THEN "exit"
                                                       ELSE "session")
  /\ UNCHANGED <<mainVars, task, made, holds, failed, counterVars, sigVars,
                 interrupt, queue, pool>>

TakeSession(w) ==
  /\ At(w, "session", "check")
  /\ pool > 0
  /\ pool' = pool - 1
  /\ holds' = holds \union {w}
  /\ UNCHANGED <<mainVars, task, made, failed, counterVars, sigVars,
                 interrupt, queue>>

CheckSession(w) ==
  /\ At(w, "check", IF interrupt THEN "leave" ELSE "run")
  /\ made' = [made EXCEPT ![w] = 0]
  /\ UNCHANGED <<mainVars, task, holds, failed, counterVars, sigVars,
                 interrupt, queue, pool>>

\* write_schema_metadata(), write_table_metadata(), dump_*_ddl(): the file is
\* written and counted; maybe_ddl_dump_finished() is the next step.
WriteFile(w) ==
  /\ task[w] = "high"
  /\ At(w, "run", "written")
  /\ highDone' = highDone + 1
  /\ UNCHANGED <<mainVars, task, made, holds, failed, dumpData, validated,
                 chunkDone, dataTotal, dumped, summed, sigVars, interrupt,
                 queue, pool>>

\* MUTANT: an off-by-one in the comparison of the counters.
ValidateOffByOne(w) ==
  /\ At(w, "written", "leave")
  /\ validated' = (validated \/ highDone > NumHigh)
  /\ UNCHANGED <<mainVars, task, made, holds, failed, dumpData, highDone,
                 chunkDone, dataTotal, dumped, summed, sigVars, interrupt,
                 queue, pool>>

MaybeDdlDumpFinished(w) ==
  /\ At(w, "written", "leave")
  /\ validated' = (validated \/ highDone = NumHigh)
  /\ UNCHANGED <<mainVars, task, made, holds, failed, dumpData, highDone,
                 chunkDone, dataTotal, dumped, summed, sigVars, interrupt,
                 queue, pool>>

\* push_table_data_task(), first half: the chunk is counted and, if enabled,
\* its checksum is pushed.  The second half is PushDataTask.
PushChecksumTask ==
  /\ dataTotal' = dataTotal + 1
  /\ IF Checksum THEN Push("sum") ELSE UNCHANGED queue

\* create_ranged_tasks() pushes the chunks of the table one by one.
ProduceChunk(w) ==
  /\ task[w] = "chunk"
  /\ At(w, "run", "push")
  /\ made[w] < MaxChunks
  /\ ~interrupt
  /\ PushChecksumTask
  /\ made' = [made EXCEPT ![w] = @ + 1]
  /\ UNCHANGED <<mainVars, task, holds, failed, dumpData, highDone, validated,
                 chunkDone, dumped, summed, sigVars, interrupt, pool>>

\* create_table_data_tasks_impl(): chunking is over, or was interrupted; a
\* table without ranges is dumped whole, and so is one for which the
\* interrupted chunk_non_integer_column() says 0 after it has pushed some.
ChunkingEnds(w) ==
  /\ task[w] = "chunk"
  /\ \/ /\ made[w] > 0
        /\ At(w, "run", "chunked")
        /\ UNCHANGED <<dataTotal, queue>>
     \/ /\ made[w] = 0 \/ interrupt
        /\ At(w, "run", "whole")
        /\ PushChecksumTask
  /\ UNCHANGED <<mainVars, task, made, holds, failed, dumpData, highDone,
                 validated, chunkDone, dumped, summed, sigVars, interrupt,
                 pool>>

\* The data task of the chunk, or of the whole table, is pushed.
PushDataTask(w) ==
  /\ At(w, "push", "run") \/ At(w, "whole", "chunked")
  /\ Push("data")
  /\ UNCHANGED <<mainVars, task, made, holds, failed, counterVars, sigVars,
                 interrupt, pool>>

\* chunking_task_finished(): the counter, then maybe_push_shutdown_tasks().
CountChunking(w) ==
  /\ At(w, "chunked", "counted")
  /\ chunkDone' = chunkDone + 1
  /\ UNCHANGED <<mainVars, task, made, holds, failed, dumpData, highDone,
                 validated, dataTotal, dumped, summed, sigVars, interrupt,
                 queue, pool>>

WorkerMaybeShutdown(w) ==
  /\ At(w, "counted", "leave")
  /\ MaybePushShutdownTasks
  /\ UNCHANGED <<mainVars, task, made, holds, failed, counterVars, sigVars,
                 interrupt, pool>>

\* dump_table_data_impl(): the rows are written (an interrupt ends the task),
\* then the session is released, before the file is finished.
WriteRows(w) ==
  /\ task[w] = "data"
  /\ \/ interrupt /\ At(w, "run", "leave") /\ UNCHANGED <<holds, pool>>
     \/ At(w, "run", "finish") /\ holds' = holds \ {w} /\ pool' = pool + 1
  /\ UNCHANGED <<mainVars, task, made, failed, counterVars, sigVars,
                 interrupt, queue>>

\* finish_writing() and data_task_finished().
FinishWriting(w) ==
  /\ At(w, "finish", "leave")
  /\ dumped' = dumped + 1
  /\ UNCHANGED <<mainVars, task, made, holds, failed, dumpData, highDone,
                 validated, chunkDone, dataTotal, summed, sigVars, interrupt,
                 queue, pool>>

ComputeChecksum(w) ==
  /\ task[w] = "sum"
  /\ At(w, "run", "leave")
  /\ summed' = summed + 1
  /\ UNCHANGED <<mainVars, task, made, holds, failed, dumpData, highDone,
                 validated, chunkDone, dataTotal, dumped, sigVars, interrupt,
                 queue, pool>>

\* MUTANT: a session that was released already is pushed again.
ReleaseAgain(w) ==
  /\ holds' = holds \ {w}
  /\ pool' = pool + 1

\* release_session(), unless the session was released earlier.
ReleaseSession(w) ==
  /\ holds' = holds \ {w}
  /\ pool' = IF w \in holds THEN pool + 1 ELSE pool

\* The end of the loop's body: on_leave_scope releases the session.
Leave(w) ==
  /\ At(w, "leave", "loop")
  /\ ReleaseSession(w)
  /\ UNCHANGED <<mainVars, task, made, failed, counterVars, sigVars,
                 interrupt, queue>>

Loop(w) ==
  /\ At(w, "loop", IF interrupt THEN "exit" ELSE "pop")
  /\ UNCHANGED <<mainVars, task, made, holds, failed, counterVars, sigVars,
                 interrupt, queue, pool>>

\* What the worker is doing, named as in Failures.
Place(w) == CASE wpc[w] = "run" -> task[w]
              [] wpc[w] = "written" /\ highDone = NumHigh -> "validate"
              [] wpc[w] = "finish" -> "finish"
              [] OTHER -> "none"

\* An exception leaves the loop's body, which releases the session.
Throw(w) ==
  /\ Place(w) \in Failures
  /\ Goto(w, "threw")
  /\ ReleaseSession(w)
  /\ UNCHANGED <<mainVars, task, made, failed, counterVars, sigVars,
                 interrupt, queue>>

\* handle_exception(): recorded, then emergency_shutdown(): flag, guards.
HandleException(w) ==
  /\ At(w, "threw", "emergency")
  /\ failed' = failed \union {w}
  /\ UNCHANGED <<mainVars, task, made, holds, counterVars, sigVars,
                 interrupt, queue, pool>>

EmergencyShutdown(w) ==
  /\ At(w, "emergency", "guards")
  /\ interrupt' = TRUE
  /\ UNCHANGED <<mainVars, task, made, holds, failed, counterVars, sigVars,
                 queue, pool>>

EmergencyGuards(w) ==
  /\ At(w, "guards", "exit")
  /\ ShutdownQueue
  /\ UNCHANGED <<mainVars, task, made, holds, failed, counterVars, sigVars,
                 interrupt, pool>>

WorkerStep(w) ==
  \/ Pop(w)
  \/ CheckPopped(w)
  \/ TakeSession(w)
  \/ CheckSession(w)
  \/ WriteFile(w)
  \/ MaybeDdlDumpFinished(w)
  \/ ProduceChunk(w)
  \/ ChunkingEnds(w)
  \/ PushDataTask(w)
  \/ CountChunking(w)
  \/ WorkerMaybeShutdown(w)
  \/ WriteRows(w)
  \/ FinishWriting(w)
  \/ ComputeChecksum(w)
  \/ Leave(w)
  \/ Loop(w)
  \/ Throw(w)
  \/ HandleException(w)
  \/ EmergencyShutdown(w)
  \/ EmergencyGuards(w)

-----------------------------------------------------------------------------
(* ^C: interrupt() in the signal handler, abort() in the helper thread *)

Interrupt ==
  /\ signals < MaxSignals
  /\ main \in SignalAt
  /\ sig = "none" /\ sig' = "notify"
  /\ signals' = signals + 1
  /\ interrupt' = TRUE
  /\ UNCHANGED <<mainVars, workerVars, counterVars, queue, pool>>

\* abort() is emergency_shutdown() of a thread that is not the main one; the
\* query it kills in the main session is an exception of the main thread.
Abort ==
  /\ sig = "notify" /\ sig' = "guards"
  /\ interrupt' = TRUE
  /\ UNCHANGED <<mainVars, workerVars, counterVars, queue, pool, signals>>

\* MUTANT: abort() only sets the flag.
AbortFlagOnly ==
  /\ sig = "guards" /\ sig' = "none"
  /\ UNCHANGED <<mainVars, workerVars, counterVars, queue, pool, signals,
                 interrupt>>

AbortGuards ==
  /\ sig = "guards" /\ sig' = "none"
  /\ ShutdownQueue
  /\ UNCHANGED <<mainVars, workerVars, counterVars, interrupt, pool, signals>>

Next ==
  \/ MainStep
  \/ \E w \in Workers : WorkerStep(w)
  \/ Interrupt
  \/ Abort
  \/ AbortGuards

Spec == Init /\ [][Next]_vars

\* Every thread keeps running; a pop() that finds something returns.
FairSpec ==
  /\ Spec
  /\ WF_vars(MainStep)
  /\ \A w \in Workers : WF_vars(WorkerStep(w))
  /\ WF_vars(Abort \/ AbortGuards)

-----------------------------------------------------------------------------
(* Properties *)

WorkerPoints == {"none", "pop", "popped", "session", "check", "run", "push",
                 "whole", "written", "chunked", "counted", "finish", "leave",
                 "loop", "threw", "emergency", "guards", "exit"}

\* The variables have their types.
TypeOK ==
  /\ main \in MainPoints
  /\ interrupt \in BOOLEAN
  /\ workers \in 0..NumWorkers
  /\ wpc \in [Workers -> WorkerPoints]
  /\ task \in [Workers -> Kinds]
  /\ made \in [Workers -> 0..MaxChunks]
  /\ queue \in Queues
  /\ pool \in Nat
  /\ holds \in SUBSET Workers
  /\ closed \in 0..NumSessions
  /\ created \in 0..(NumHigh + NumTables)
  /\ dumpData \in BOOLEAN
  /\ produced \in BOOLEAN
  /\ highDone \in Nat
  /\ validated \in BOOLEAN
  /\ chunkDone \in Nat
  /\ dataTotal \in Nat
  /\ dumped \in Nat
  /\ summed \in Nat
  /\ failed \in SUBSET Workers
  /\ doneFile \in BOOLEAN
  /\ result \in {"none", "ok", "cancelled", "error"}
  /\ sig \in {"none", "notify", "guards"}
  /\ signals \in 0..MaxSignals

\* Nothing is left to be produced, waiting in the queue or unfinished.
EverythingDumped ==
  /\ highDone = NumHigh
  /\ dumpData => /\ chunkDone = NumTables
                 /\ dumped = dataTotal
                 /\ Checksum => summed = dataTotal
  /\ ~dumpData => summed = NumTables

\* "The dump is complete when @.done.json has been written": finalize_dump()
\* is only reached with every file written, every table chunked, every chunk
\* dumped and every checksum computed (those of the tables, in a dump that has
\* no data), and after the consistency and compatibility checks that
\* maybe_ddl_dump_finished() leaves to whichever worker writes the last DDL
\* file.
DoneFileMeansComplete ==
  doneFile => EverythingDumped /\ (NumHigh > 0 => validated)

\* In a dump that is not interrupted a worker thread ends only when there is
\* nothing left for it: no chunking task is pending or running, and no task
\* is waiting behind the guard it took.
WorkersLeaveLast ==
  (~interrupt /\ \E w \in Workers : wpc[w] = "exit") =>
    /\ main # "tasks"
    /\ dumpData => chunkDone = NumTables
    /\ \A k \in Kinds \ {"guard"} : queue[k] = 0

\* Sessions are neither lost nor duplicated: every one of them is in the pool,
\* borrowed by one worker or closed, so the cleanup gets all of them back; none
\* is taken from an empty pool (TypeOK).
SessionsConserved ==
  TypeOK /\
  LET open == pool + closed + Cardinality(holds)
  IN  open = NumSessions \/ (open = 0 /\ workers = 0)

\* run() returns normally only when no worker has failed, @.done.json has
\* been written, and ^C was not pressed at any of the points SignalAt.
OkMeansDone == result = "ok" => doneFile /\ failed = {} /\ signals = 0

\* run() returns, whoever throws and whenever ^C is pressed, so that the
\* locks and the sessions it holds are given back.  (Two cases are not covered:
\* ^C while the worker threads are being created, which leaves workers without
\* a guard, and an exception of the main thread while it creates the tasks,
\* which closes the sessions that workers wait for.)
Termination == <>(main = "done")
=============================================================================
