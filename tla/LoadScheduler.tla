---------------------------- MODULE LoadScheduler ----------------------------
(***************************************************************************)
(* The scheduling core of Dump_loader: one main thread, a pool of worker    *)
(* threads and the FIFO m_worker_events between them.  The main thread runs *)
(* execute_tasks(): the table DDL phase (execute_threaded) and then the     *)
(* loop that scans the dump, handles worker events and checks for the end.  *)
(* Every READY event makes it ask schedule_next() for one more task, queue  *)
(* that task by weight and hand the heaviest pending one to the worker.     *)
(*                                                                         *)
(* The bookkeeping of Dump_reader (chunks seen, consumed and loaded, index, *)
(* analyze and checksum stages per table) is modelled as the loader uses    *)
(* it.  What the tasks do to the server, and the progress log, is the       *)
(* subject of ResumableLoad.                                                *)
(***************************************************************************)
EXTENDS Integers, Sequences, FiniteSets, FiniteSetsExt

CONSTANTS
  Workers,       \* the worker threads, as many as the 'threads' option
  Tables,        \* tables of the dump
  Parts,         \* units of table data: a table, or one of its partitions
  TableOf,       \* the table of a part
  NumChunks,     \* how many data files the dumper writes for a part
  Missing,       \* parts whose last data file may never show up (broken dump)
  Serial,        \* parts loaded one chunk at a time (engine not transactional,
                 \* or a UNIQUE ... WITHOUT OVERLAPS key)
  PrevLoaded,    \* chunks <<p, i>> the progress file says are DONE
  DeferredIdx,   \* tables whose indexes are deferred
  IndexWeight,   \* weight of a table's index task, before it is cut to the
                 \* size of the pool
  AnalyzeMode,   \* the analyzeTables option: "off", "on" or "histogram"
  Histograms,    \* tables with histogram information in the dump
  Checksums,     \* parts with a checksum to verify ({}: option not given)
  NoTable,       \* tables that may be gone from the server when their checksum
                 \* is due
  MayFail,       \* BOOLEAN: a worker, or the main thread, may fail
  MayInterrupt   \* BOOLEAN: the user may press ^C

threads_count == Cardinality(Workers)

Kinds == {"ddl", "chunk", "index", "analyze", "checksum"}

ASSUME SchedulerAssumption ==
  /\ IsFiniteSet(Workers) /\ threads_count \in Nat \ {0}
  /\ IsFiniteSet(Tables) /\ IsFiniteSet(Parts)
  /\ TableOf \in [Parts -> Tables]
  /\ NumChunks \in [Parts -> Nat \ {0}]
  /\ Missing \subseteq Parts /\ Serial \subseteq Parts
  /\ Checksums \subseteq Parts
  /\ DeferredIdx \subseteq Tables /\ Histograms \subseteq Tables
  /\ NoTable \subseteq Tables
  /\ IndexWeight \in [Tables -> Nat \ {0}]
  /\ AnalyzeMode \in {"off", "on", "histogram"}
  /\ MayFail \in BOOLEAN /\ MayInterrupt \in BOOLEAN
  /\ PrevLoaded \subseteq Parts \X Nat

VARIABLES
  \* the dump directory, written by a dump that may still be running
  written,       \* data files written so far, per part
  dumpDone,      \* @.done.json was written
  \* Dump_reader
  available,     \* chunks found by the last rescan, per part
  complete,      \* m_dump_status = COMPLETE
  consumed,      \* chunks_consumed, per part
  loaded,        \* chunks_loaded, per part
  indexes,       \* per table: "none", "todo", "scheduled" or "created"
  analyze,       \* per table: "todo", "scheduled" or "finished"
  checksum,      \* per part: "none", "todo", "scheduled" or "verified"
  \* Dump_loader, main thread
  mpc,           \* where the main thread is
  phase,         \* "ddl" or "data": which schedule_next is in use
  ddlTodo,       \* tables whose DDL task was not scheduled yet
  cur,           \* the worker whose READY event is being handled
  scanned,       \* handle_table_data() rescanned the dump already
  idle,          \* idle_workers, a FIFO
  pending,       \* m_pending_tasks: a FIFO per weight
  top,           \* m_top_pos + 1
  weight,        \* m_current_weight
  live,          \* m_workers
  result,        \* how the load ended: "none", "ok" or "error"
  \* shared between the threads
  inflight,      \* m_tables_being_loaded, entries per part
  interrupt,     \* m_worker_interrupt
  queue,         \* m_worker_events
  \* the workers
  wpc,           \* where each worker is
  work,          \* m_work_ready, a queue of BOOLEANs
  task,          \* m_task, the task the worker was given last
  ran            \* the work executed so far: <<kind, of, index>> (history)

dumpVars   == <<written, dumpDone>>
dataVars   == <<available, complete, consumed, loaded>>
stageVars  == <<indexes, analyze, checksum, ddlTodo>>
readerVars == <<dataVars, stageVars>>
poolVars   == <<pending, top, weight>>
workerVars == <<wpc, work, task, ran>>
vars == <<dumpVars, readerVars, mpc, phase, cur, scanned, idle, poolVars, live,
          result, inflight, interrupt, queue, workerVars>>

----------------------------------------------------------------------------
(* Tasks and events.                                                        *)

Task(kind, of, index, w) ==
  [kind |-> kind, of |-> of, index |-> index, weight |-> w]

NoTask == Task("none", "none", 0, 0)

\* push_pending_task() never lets a task weigh more than the whole pool.
Cut(w) == Min({w, threads_count})

\* An event carries the worker only; "of" and "index" record, for the
\* properties, which task the worker was executing when it posted the event.
Event(type, w) ==
  [type |-> type, worker |-> w, kind |-> task[w].kind, of |-> task[w].of,
   index |-> task[w].index]

Ready(w) ==
  [type |-> "READY", worker |-> w, kind |-> "none", of |-> "none", index |-> 0]

\* MUTANT: the position always moves to the new task.
EmplaceMovesTop(t) ==
  /\ pending' = [pending EXCEPT ![t.weight] = Append(@, t)]
  /\ top' = t.weight

\* Priority_queue::emplace(): one FIFO per weight.
Emplace(t) ==
  /\ pending' = [pending EXCEPT ![t.weight] = Append(@, t)]
  /\ top' = Max({top, t.weight})

PendingEmpty == \A w \in DOMAIN pending : pending[w] = <<>>

TopTask == Head(pending[top])

\* MUTANT: the search for the next task runs below the first position.
PopTopUnderflow ==
  /\ pending' = [pending EXCEPT ![top] = Tail(@)]
  /\ \E w \in 0..top :
       /\ top' = w
       /\ \A v \in (w + 1)..top : pending'[v] = <<>>
       /\ w > 0 => pending'[w] # <<>>

\* Priority_queue::pop_top(): the position of the heaviest task left, or the
\* first one when the queue is empty.
PopTop ==
  /\ pending' = [pending EXCEPT ![top] = Tail(@)]
  /\ \E w \in 1..top :
       /\ top' = w
       /\ \A v \in (w + 1)..top : pending'[v] = <<>>
       /\ w > 1 => pending'[w] # <<>>

----------------------------------------------------------------------------
(* Dump_reader.                                                             *)

\* The files of a part that are there, at least, when the dump is complete.
FilesOf(p) == IF p \in Missing THEN NumChunks[p] - 1 ELSE NumChunks[p]

\* MUTANT: the last chunk is not waited for.
AllChunksSeen(p, what) == what[p] = available[p]

\* Table_data_info::all_chunks_are(): the last chunk has a name of its own.
AllChunksAre(p, what) == available[p] = NumChunks[p] /\ what[p] = available[p]

PartsOf(t) == {p \in Parts : TableOf[p] = t}

all_data_scheduled(t) == \A p \in PartsOf(t) : AllChunksAre(p, consumed)
all_data_loaded(t)    == \A p \in PartsOf(t) : AllChunksAre(p, loaded)
all_data_verified(t)  ==
  \A p \in PartsOf(t) : checksum[p] \in {"none", "verified"}

\* m_tables_with_data
tables_with_data == {p \in Parts : consumed[p] < available[p]}

data_available == tables_with_data # {}
data_pending   == \E t \in Tables : ~all_data_scheduled(t)
work_available ==
  \E t \in Tables : \/ ~all_data_scheduled(t)
                    \/ indexes[t] = "todo"
                    \/ analyze[t] = "todo"
                    \/ ~all_data_verified(t)

\* MUTANT: serial parts are not held back.
CandidatesNoSerial ==
  LET progress == {p \in tables_with_data : consumed[p] > 0}
      fresh    == {p \in tables_with_data : inflight[p] = 0}
  IN  IF fresh # {} THEN fresh ELSE progress

\* schedule_chunk_proportionally(): the parts it may return.  Which of them is
\* a matter of file sizes, so any is possible.
Candidates ==
  LET offered  == {p \in tables_with_data : ~(inflight[p] > 0 /\ p \in Serial)}
      progress == {p \in offered : consumed[p] > 0}
      fresh    == {p \in offered : inflight[p] = 0}
      best     == IF fresh \cap progress # {} THEN fresh \cap progress
                  ELSE IF Cardinality(progress) < threads_count THEN fresh
                  ELSE {}
  IN  IF best # {} THEN best ELSE progress

\* rescan(): one listing of the directory.
Rescan ==
  /\ available' = written
  /\ complete' = dumpDone

----------------------------------------------------------------------------
Init ==
  /\ written = [p \in Parts |-> 0] /\ dumpDone = FALSE
  /\ available = [p \in Parts |-> 0] /\ complete = FALSE
  /\ consumed = [p \in Parts |-> 0] /\ loaded = [p \in Parts |-> 0]
  /\ indexes = [t \in Tables |-> "none"]
  /\ analyze = [t \in Tables |->
                  IF AnalyzeMode = "off" THEN "finished" ELSE "todo"]
  /\ checksum = [p \in Parts |-> IF p \in Checksums THEN "todo" ELSE "none"]
  /\ ddlTodo = Tables
  /\ mpc = "start" /\ phase = "ddl"
  /\ cur = CHOOSE w \in Workers : TRUE
  /\ scanned = FALSE /\ idle = <<>>
  /\ pending = [w \in 1..threads_count |-> <<>>] /\ top = 1 /\ weight = 0
  /\ live = Workers /\ result = "none"
  /\ inflight = [p \in Parts |-> 0]
  /\ interrupt = FALSE /\ queue = <<>>
  /\ wpc = [w \in Workers |-> "connect"]
  /\ work = [w \in Workers |-> <<>>]
  /\ task = [w \in Workers |-> NoTask]
  /\ ran = {}

----------------------------------------------------------------------------
(* The dump process, running at the same time.                              *)

WriteChunk(p) ==
  /\ ~dumpDone /\ written[p] < NumChunks[p]
  /\ written' = [written EXCEPT ![p] = @ + 1]
  /\ UNCHANGED <<dumpDone, readerVars, mpc, phase, cur, scanned, idle,
                 poolVars, live, result, inflight, interrupt, queue, workerVars>>

FinishDump ==
  /\ ~dumpDone /\ \A p \in Parts : written[p] >= FilesOf(p)
  /\ dumpDone' = TRUE
  /\ UNCHANGED <<written, readerVars, mpc, phase, cur, scanned, idle,
                 poolVars, live, result, inflight, interrupt, queue, workerVars>>

----------------------------------------------------------------------------
(* Worker::do_run() and the execute() of the tasks.                         *)

mainVars == <<readerVars, mpc, phase, cur, scanned, idle, poolVars, live, result>>

\* connect(), then post CONNECTED.
WConnect(w) ==
  /\ wpc[w] = "connect"
  /\ wpc' = [wpc EXCEPT ![w] = "ready"]
  /\ queue' = Append(queue, Event("CONNECTED", w))
  /\ UNCHANGED <<dumpVars, mainVars, inflight, interrupt, work, task, ran>>

\* The top of the loop: post READY, then block on m_work_ready.
WReady(w) ==
  /\ wpc[w] = "ready"
  /\ wpc' = [wpc EXCEPT ![w] = "wait"]
  /\ queue' = Append(queue, Ready(w))
  /\ UNCHANGED <<dumpVars, mainVars, inflight, interrupt, work, task, ran>>

\* Woken with work to do.
WPop(w) ==
  /\ wpc[w] = "wait" /\ work[w] # <<>>
  /\ Head(work[w]) /\ ~interrupt
  /\ work' = [work EXCEPT ![w] = Tail(@)]
  /\ wpc' = [wpc EXCEPT ![w] = "exec"]
  /\ UNCHANGED <<dumpVars, mainVars, inflight, interrupt, queue, task, ran>>

\* Woken by stop(), or after an interrupt: the task given is not executed.
WExit(w) ==
  /\ wpc[w] = "wait" /\ work[w] # <<>>
  /\ ~Head(work[w]) \/ interrupt
  /\ work' = [work EXCEPT ![w] = Tail(@)]
  /\ wpc' = [wpc EXCEPT ![w] = "exited"]
  /\ queue' = Append(queue, Event("EXIT", w))
  /\ UNCHANGED <<dumpVars, mainVars, inflight, interrupt, task, ran>>

\* execute() begins with a *_START event.
WStart(w) ==
  /\ wpc[w] = "exec"
  /\ wpc' = [wpc EXCEPT ![w] = "run"]
  /\ queue' = Append(queue, Event("START", w))
  /\ UNCHANGED <<dumpVars, mainVars, inflight, interrupt, work, task, ran>>

\* Load_data_task::load() drops its entry of m_tables_being_loaded on leave.
Leave(w) ==
  IF task[w].kind = "chunk"
  THEN inflight' = [inflight EXCEPT ![task[w].of] = @ - 1]
  ELSE UNCHANGED inflight

WorkOf(w) == <<task[w].kind, task[w].of, task[w].index>>

\* The work itself succeeds ...
WRun(w) ==
  /\ wpc[w] = "run"
  /\ wpc' = [wpc EXCEPT ![w] = "end"]
  /\ ran' = ran \cup {WorkOf(w)}
  /\ Leave(w)
  /\ UNCHANGED <<dumpVars, mainVars, interrupt, queue, work, task>>

\* ... and is reported with a *_END event.
WEnd(w) ==
  /\ wpc[w] = "end"
  /\ wpc' = [wpc EXCEPT ![w] = "ready"]
  /\ queue' = Append(queue, Event("END", w))
  /\ UNCHANGED <<dumpVars, mainVars, inflight, interrupt, work, task, ran>>

\* handle_current_exception(): no connection, or the task threw.
WFail(w) ==
  /\ MayFail
  /\ \/ wpc[w] = "connect" /\ UNCHANGED inflight
     \/ wpc[w] = "run" /\ Leave(w)
  /\ wpc' = [wpc EXCEPT ![w] = "exited"]
  /\ interrupt' = TRUE
  /\ queue' = Append(queue, Event("FATAL_ERROR", w))
  /\ UNCHANGED <<dumpVars, mainVars, work, task, ran>>

WorkerStep(w) ==
  \/ WConnect(w) \/ WReady(w) \/ WPop(w) \/ WExit(w)
  \/ WStart(w) \/ WRun(w) \/ WEnd(w) \/ WFail(w)

----------------------------------------------------------------------------
(* handle_worker_events(), main thread.                                     *)

\* The loop runs until all the workers that are left are idle.
Handling(type) ==
  /\ mpc = "events" /\ Len(idle) < Cardinality(live)
  /\ queue # <<>> /\ Head(queue).type = type
  /\ queue' = Tail(queue)

\* CONNECTED feeds the monitoring thread and *_START the progress log.
HandleOther ==
  /\ Handling("CONNECTED") \/ Handling("START")
  /\ UNCHANGED <<dumpVars, mainVars, inflight, interrupt, workerVars>>

\* The on_*_end() handlers: all of them read worker->current_task().
HandleEnd ==
  /\ Handling("END")
  /\ LET k == Head(queue).kind
         x == task[Head(queue).worker].of
     IN  /\ loaded' = IF k = "chunk" THEN [loaded EXCEPT ![x] = @ + 1]
                       ELSE loaded
         /\ indexes' = CASE k = "ddl" /\ x \in DeferredIdx ->
                               [indexes EXCEPT ![x] = "todo"]
                         [] k = "index" -> [indexes EXCEPT ![x] = "created"]
                         [] OTHER -> indexes
         /\ analyze' = IF k = "analyze" THEN [analyze EXCEPT ![x] = "finished"]
                        ELSE analyze
         /\ checksum' = IF k = "checksum"
                         THEN [checksum EXCEPT ![x] = "verified"] ELSE checksum
  /\ UNCHANGED <<dumpVars, available, complete, consumed, ddlTodo, mpc, phase,
                 cur, scanned, idle, poolVars, live, result, inflight,
                 interrupt, workerVars>>

\* MUTANT: the task is not marked as done(), its weight can be given back again.
HandleReadyNotDone ==
  LET w == Head(queue).worker
  IN  /\ Handling("READY")
      /\ weight' = weight - task[w].weight
      /\ IF interrupt
         THEN /\ idle' = Append(idle, w)
              /\ UNCHANGED <<mpc, cur, scanned>>
         ELSE /\ mpc' = "schedule" /\ cur' = w /\ scanned' = FALSE
              /\ UNCHANGED idle
      /\ UNCHANGED <<dumpVars, readerVars, phase, pending, top, live, result,
                     inflight, interrupt, workerVars>>

\* A worker is free: its task is done() and weighs nothing any more.  Unless
\* the load is interrupted, schedule_next() is called.
HandleReady ==
  LET w == Head(queue).worker
  IN  /\ Handling("READY")
      /\ weight' = weight - task[w].weight
      /\ task' = [task EXCEPT ![w].weight = 0]
      /\ IF interrupt
         THEN /\ idle' = Append(idle, w)
              /\ UNCHANGED <<mpc, cur, scanned>>
         ELSE /\ mpc' = "schedule" /\ cur' = w /\ scanned' = FALSE
              /\ UNCHANGED idle
      /\ UNCHANGED <<dumpVars, readerVars, phase, pending, top, live, result,
                     inflight, interrupt, wpc, work, ran>>

\* FATAL_ERROR and EXIT: clear_worker() joins the thread and forgets it.  (The
\* handler of FATAL_ERROR sets m_worker_interrupt too, which the failing worker
\* did before it posted the event.)
HandleExit ==
  /\ Handling("FATAL_ERROR") \/ Handling("EXIT")
  /\ live' = live \ {Head(queue).worker}
  /\ UNCHANGED <<dumpVars, readerVars, mpc, phase, cur, scanned, idle,
                 poolVars, result, inflight, interrupt, workerVars>>

\* The idle workers go back into the queue, for the next call.  After the
\* table DDL the data phase begins; in the data phase the end is checked.
LeaveEvents ==
  /\ mpc = "events" /\ Len(idle) >= Cardinality(live)
  /\ queue' = queue \o [i \in DOMAIN idle |-> Ready(idle[i])]
  /\ idle' = <<>>
  /\ IF phase = "ddl" THEN mpc' = "scan" /\ phase' = "data"
     ELSE mpc' = "check" /\ UNCHANGED phase
  /\ UNCHANGED <<dumpVars, readerVars, cur, scanned, poolVars, live, result,
                 inflight, interrupt, workerVars>>

----------------------------------------------------------------------------
(* schedule_next(), main thread.                                            *)

Push(kind, of, index, w) ==
  /\ Emplace(Task(kind, of, index, Cut(w)))
  /\ mpc' = "assign"
  /\ UNCHANGED weight

restVars == <<dumpVars, phase, cur, idle, live, result, interrupt, queue,
              workerVars>>

\* execute_table_ddl_tasks(): the DDL of any table that was fetched; a wait for
\* more of them ends with an interrupt.
NextTableDdl ==
  /\ mpc = "schedule" /\ phase = "ddl"
  /\ \/ \E t \in ddlTodo : /\ ddlTodo' = ddlTodo \ {t}
                           /\ Push("ddl", t, 0, 1)
     \/ /\ ddlTodo = {} \/ interrupt
        /\ mpc' = "assign"
        /\ UNCHANGED <<ddlTodo, poolVars>>
  /\ UNCHANGED <<restVars, dataVars, indexes, analyze, checksum, scanned,
                 inflight>>

\* MUTANT: the progress file is not asked about the chunk.
NextChunkAgain ==
  /\ mpc = "schedule" /\ phase = "data"
  /\ \E p \in Candidates :
       /\ consumed' = [consumed EXCEPT ![p] = @ + 1]
       /\ inflight' = [inflight EXCEPT ![p] = @ + 1]
       /\ Push("chunk", p, consumed[p], 1)
  /\ UNCHANGED <<restVars, available, complete, loaded, stageVars, scanned>>

\* handle_table_data(), next_table_chunk() and schedule_table_chunk(): a chunk
\* that was loaded by an earlier run only counts as loaded.
NextChunk ==
  /\ mpc = "schedule" /\ phase = "data"
  /\ \E p \in Candidates :
       /\ consumed' = [consumed EXCEPT ![p] = @ + 1]
       /\ IF <<p, consumed[p]>> \in PrevLoaded
          THEN /\ loaded' = [loaded EXCEPT ![p] = @ + 1]
               /\ UNCHANGED <<mpc, inflight, poolVars>>
          ELSE /\ inflight' = [inflight EXCEPT ![p] = @ + 1]
               /\ Push("chunk", p, consumed[p], 1)
               /\ UNCHANGED loaded
  /\ UNCHANGED <<restVars, available, complete, stageVars, scanned>>

\* No chunk is available: look for new files, once per call.
NoChunk ==
  /\ mpc = "schedule" /\ phase = "data" /\ Candidates = {}
  /\ IF ~complete /\ ~scanned
     THEN /\ IF interrupt THEN UNCHANGED <<available, complete>> ELSE Rescan
          /\ scanned' = TRUE
          /\ UNCHANGED mpc
     ELSE /\ mpc' = "indexes"
          /\ UNCHANGED <<available, complete, scanned>>
  /\ UNCHANGED <<restVars, consumed, loaded, stageVars, poolVars, inflight>>

indexes_created(t) == indexes[t] \in {"none", "created"}

\* MUTANT: indexes are due once all chunks were handed out.
IndexDueEarly(t) == all_data_scheduled(t) /\ indexes[t] = "todo"

\* next_deferred_index()
IndexDue(t) == all_data_loaded(t) /\ indexes[t] = "todo"

NextIndex ==
  /\ mpc = "indexes"
  /\ \/ \E t \in Tables :
          /\ IndexDue(t)
          /\ indexes' = [indexes EXCEPT ![t] = "scheduled"]
          /\ Push("index", t, 0, IndexWeight[t])
     \/ /\ \A t \in Tables : ~IndexDue(t)
        /\ mpc' = "analyze"
        /\ UNCHANGED <<indexes, poolVars>>
  /\ UNCHANGED <<restVars, dataVars, analyze, checksum, ddlTodo, scanned,
                 inflight>>

\* next_table_analyze(); in the "histogram" mode the tables without histograms
\* are passed over.
AnalyzeDue(t) ==
  all_data_loaded(t) /\ indexes_created(t) /\ analyze[t] = "todo"

NextAnalyze ==
  /\ mpc = "analyze"
  /\ \/ \E t \in Tables :
          /\ AnalyzeDue(t)
          /\ analyze' = [analyze EXCEPT ![t] = "scheduled"]
          /\ IF AnalyzeMode = "on" \/ t \in Histograms
             THEN Push("analyze", t, 0, 1)
             ELSE UNCHANGED <<mpc, poolVars>>
     \/ /\ \A t \in Tables : ~AnalyzeDue(t)
        /\ mpc' = "checksum"
        /\ UNCHANGED <<analyze, poolVars>>
  /\ UNCHANGED <<restVars, dataVars, indexes, checksum, ddlTodo, scanned,
                 inflight>>

\* next_table_checksum(); the checksums are read together with @.done.json.
ChecksumDue(p) ==
  /\ complete /\ AllChunksAre(p, loaded) /\ checksum[p] = "todo"
  /\ indexes_created(TableOf[p]) /\ analyze[TableOf[p]] = "finished"

NextChecksum ==
  /\ mpc = "checksum"
  /\ \/ \E p \in Parts :
          /\ ChecksumDue(p)
          /\ \/ /\ TableOf[p] \in NoTable
                /\ checksum' = [checksum EXCEPT ![p] = "verified"]
                /\ UNCHANGED <<mpc, poolVars>>
             \/ /\ checksum' = [checksum EXCEPT ![p] = "scheduled"]
                /\ Push("checksum", p, 0, 1)
     \/ /\ \A p \in Parts : ~ChecksumDue(p)
        /\ mpc' = "assign"
        /\ UNCHANGED <<checksum, poolVars>>
  /\ UNCHANGED <<restVars, dataVars, indexes, analyze, ddlTodo, scanned,
                 inflight>>

\* Nothing to do, or the next task is too heavy for the threads left.
MustWait == ~PendingEmpty => weight + TopTask.weight > threads_count

AssignIdle ==
  /\ mpc = "assign" /\ MustWait
  /\ idle' = Append(idle, cur)
  /\ mpc' = "events"
  /\ UNCHANGED <<dumpVars, readerVars, phase, cur, scanned, poolVars, live,
                 result, inflight, interrupt, queue, workerVars>>

\* MUTANT: the workers told to try again are not taken off the idle ones.
AssignTaskKeepIdle ==
  /\ mpc = "assign" /\ ~MustWait
  /\ PopTop
  /\ weight' = weight + TopTask.weight
  /\ task' = [task EXCEPT ![cur] = TopTask]
  /\ work' = [work EXCEPT ![cur] = Append(@, TRUE)]
  /\ LET n == Min({threads_count - weight', Len(idle)})
     IN  queue' = queue \o [i \in 1..n |-> Ready(idle[i])]
  /\ mpc' = "events"
  /\ UNCHANGED <<dumpVars, readerVars, phase, cur, scanned, idle, live, result,
                 inflight, interrupt, wpc, ran>>

\* Worker::schedule(), then as many idle workers as there is weight left are
\* told to try again: a heavy task may have made them wait.
AssignTask ==
  /\ mpc = "assign" /\ ~MustWait
  /\ PopTop
  /\ weight' = weight + TopTask.weight
  /\ task' = [task EXCEPT ![cur] = TopTask]
  /\ work' = [work EXCEPT ![cur] = Append(@, TRUE)]
  /\ LET n == Min({threads_count - weight', Len(idle)})
     IN  /\ queue' = queue \o [i \in 1..n |-> Ready(idle[i])]
         /\ idle' = SubSeq(idle, n + 1, Len(idle))
  /\ mpc' = "events"
  /\ UNCHANGED <<dumpVars, readerVars, phase, cur, scanned, live, result,
                 inflight, interrupt, wpc, ran>>

----------------------------------------------------------------------------
(* The loop of execute_tasks(), main thread.                                *)

\* The first turn of the loop begins with the table DDL; after an early
\* interrupt everything is skipped.
StartTasks ==
  /\ mpc = "start"
  /\ mpc' = IF interrupt THEN "check" ELSE "events"
  /\ UNCHANGED <<dumpVars, readerVars, phase, cur, scanned, idle, poolVars,
                 live, result, inflight, interrupt, queue, workerVars>>

\* scan_for_more_data() waits for data, or for the end of the dump.
Scan ==
  /\ mpc = "scan"
  /\ IF complete \/ interrupt THEN UNCHANGED <<available, complete>> ELSE Rescan
  /\ mpc' = IF interrupt THEN "check"
            ELSE IF complete' \/ \E p \in Parts : consumed[p] < available'[p]
                 THEN "events" ELSE "scan"
  /\ UNCHANGED <<dumpVars, consumed, loaded, stageVars, phase, cur, scanned,
                 idle, poolVars, live, result, inflight, interrupt, queue,
                 workerVars>>

\* MUTANT: missing data is not noticed.
CheckNoMissing ==
  /\ mpc = "check"
  /\ LET over == complete /\ ~data_available
     IN  CASE interrupt -> mpc' = "join" /\ UNCHANGED result
           [] ~interrupt /\ over /\ ~work_available ->
                mpc' = "join" /\ result' = "ok"
           [] OTHER -> mpc' = "scan" /\ UNCHANGED result
  /\ UNCHANGED <<dumpVars, readerVars, phase, cur, scanned, idle, poolVars,
                 live, inflight, interrupt, queue, workerVars>>

\* All the workers are idle: done, broken, interrupted or once more.
Check ==
  /\ mpc = "check"
  /\ LET over == complete /\ ~data_available
     IN  CASE interrupt -> mpc' = "join" /\ UNCHANGED result
           [] ~interrupt /\ over /\ ~work_available ->
                mpc' = "join" /\ result' = "ok"
           [] ~interrupt /\ over /\ work_available /\ data_pending ->
                mpc' = "join" /\ result' = "error"
           [] OTHER -> mpc' = "scan" /\ UNCHANGED result
  /\ UNCHANGED <<dumpVars, readerVars, phase, cur, scanned, idle, poolVars,
                 live, inflight, interrupt, queue, workerVars>>

\* join_workers(), on every way out of execute_tasks().
StopWorkers ==
  /\ mpc = "join"
  /\ mpc' = "joining"
  /\ work' = [w \in Workers |->
               IF w \in live THEN Append(work[w], FALSE) ELSE work[w]]
  /\ UNCHANGED <<dumpVars, readerVars, phase, cur, scanned, idle, poolVars,
                 live, result, inflight, interrupt, queue, wpc, task, ran>>

JoinWorkers ==
  /\ mpc = "joining" /\ \A w \in Workers : wpc[w] = "exited"
  /\ mpc' = "stopped"
  /\ UNCHANGED <<dumpVars, readerVars, phase, cur, scanned, idle, poolVars,
                 live, result, inflight, interrupt, queue, workerVars>>

MainStep ==
  \/ StartTasks
  \/ HandleOther \/ HandleEnd \/ HandleReady \/ HandleExit \/ LeaveEvents
  \/ NextTableDdl \/ NextChunk \/ NoChunk
  \/ NextIndex \/ NextAnalyze \/ NextChecksum
  \/ AssignIdle \/ AssignTask
  \/ Scan \/ Check \/ StopWorkers \/ JoinWorkers

\* An exception on the main thread: the dump cannot be listed, the progress
\* file cannot be written, the wait for the dump timed out.
MainFail ==
  /\ MayFail /\ mpc \in {"start", "events", "schedule", "scan", "check"}
  /\ mpc' = "join" /\ result' = "error"
  /\ UNCHANGED <<dumpVars, readerVars, phase, cur, scanned, idle, poolVars,
                 live, inflight, interrupt, queue, workerVars>>

\* The thread pool that fetches the table DDL has failed: the workers are
\* interrupted, the exception is thrown once they are idle.
FetchFail ==
  /\ MayFail /\ mpc = "schedule" /\ phase = "ddl" /\ ~interrupt
  /\ interrupt' = TRUE /\ result' = "error"
  /\ mpc' = "assign"
  /\ UNCHANGED <<dumpVars, readerVars, phase, cur, scanned, idle, poolVars,
                 live, inflight, queue, workerVars>>

\* interrupt(): the first ^C.
Interrupt ==
  /\ MayInterrupt /\ ~interrupt /\ mpc # "stopped"
  /\ interrupt' = TRUE
  /\ UNCHANGED <<dumpVars, mainVars, inflight, queue, workerVars>>

DumpStep == FinishDump \/ \E p \in Parts : WriteChunk(p)

Done == mpc = "stopped" /\ dumpDone /\ UNCHANGED vars

Next ==
  \/ MainStep \/ MainFail \/ FetchFail \/ Interrupt \/ DumpStep
  \/ \E w \in Workers : WorkerStep(w)
  \/ Done

Spec == Init /\ [][Next]_vars

FairSpec ==
  /\ Spec
  /\ WF_vars(MainStep) /\ WF_vars(DumpStep)
  /\ \A w \in Workers : WF_vars(WorkerStep(w))

----------------------------------------------------------------------------
(* Properties.                                                              *)

Tasks == [kind: Kinds \cup {"none"}, of: Tables \cup Parts \cup {"none"},
          index: Nat, weight: 0..threads_count]

Events == [type: {"CONNECTED", "READY", "START", "END", "EXIT", "FATAL_ERROR"},
           worker: Workers, kind: Kinds \cup {"none"},
           of: Tables \cup Parts \cup {"none"}, index: Nat]

\* The types of the variables of the main thread, the workers and the queues.
\* (That weight is never negative is part of WeightAccounting.)
TypeOK ==
  /\ written \in [Parts -> Nat] /\ dumpDone \in BOOLEAN
  /\ available \in [Parts -> Nat] /\ complete \in BOOLEAN
  /\ consumed \in [Parts -> Nat] /\ loaded \in [Parts -> Nat]
  /\ indexes \in [Tables -> {"none", "todo", "scheduled", "created"}]
  /\ analyze \in [Tables -> {"todo", "scheduled", "finished"}]
  /\ checksum \in [Parts -> {"none", "todo", "scheduled", "verified"}]
  /\ ddlTodo \subseteq Tables
  /\ mpc \in {"start", "events", "schedule", "indexes", "analyze", "checksum",
              "assign", "scan", "check", "join", "joining", "stopped"}
  /\ phase \in {"ddl", "data"} /\ cur \in Workers /\ scanned \in BOOLEAN
  /\ idle \in Seq(Workers) /\ live \subseteq Workers
  /\ pending \in [1..threads_count -> Seq(Tasks)]
  /\ top \in 1..threads_count /\ weight \in Int
  /\ result \in {"none", "ok", "error"}
  /\ inflight \in [Parts -> Int] /\ interrupt \in BOOLEAN
  /\ queue \in Seq(Events)
  /\ wpc \in [Workers -> {"connect", "ready", "wait", "exec", "run", "end",
                         "exited"}]
  /\ work \in [Workers -> Seq(BOOLEAN)]
  /\ task \in [Workers -> Tasks]

\* The handlers of *_START and *_END cast worker->current_task() to the type
\* the event stands for and read it: an event that is still queued is always
\* about the task its worker holds now, however late it is handled.
EventTaskMatch ==
  \A i \in 1..Len(queue) :
    LET e == queue[i]
    IN  e.type \in {"START", "END"} =>
          /\ task[e.worker].kind = e.kind
          /\ task[e.worker].of = e.of /\ task[e.worker].index = e.index

\* Worker::schedule() replaces m_task, destroying the old one, without a lock:
\* it only ever does so while that worker is blocked, with no work given to it
\* and no event about its old task left to handle.
TaskReplacedWhenFree ==
  mpc = "assign" =>
    /\ wpc[cur] = "wait" /\ work[cur] = <<>>
    /\ \A i \in 1..Len(queue) : queue[i].worker # cur
    /\ \A i \in 1..Len(idle) : idle[i] # cur

\* m_current_weight is the weight of the tasks that were handed out and not
\* reported back by READY, and the tasks running together never weigh more
\* than there are threads: READY posted again for an idle worker must not
\* count its old task twice.
WeightAccounting ==
  /\ weight = MapThenSumSet(LAMBDA w : task[w].weight, Workers)
  /\ weight \in 0..threads_count

\* Priority_queue: m_top_pos is the position of the heaviest pending task.
TopIsHeaviest ==
  ~PendingEmpty =>
    pending[top] # <<>> /\ \A w \in top + 1 .. threads_count : pending[w] = <<>>

\* Chunks of one part whose engine is not transactional (or which has a
\* WITHOUT OVERLAPS key) are never loaded by two connections at a time.  The
\* partitions of a table are parts of their own and do load together.
SerialExclusive ==
  \A v, w \in Workers :
    /\ v # w /\ wpc[v] = "run" /\ wpc[w] = "run"
    /\ task[v].kind = "chunk" /\ task[w].kind = "chunk"
    /\ task[v].of = task[w].of
    => task[v].of \notin Serial

ChunkRan(p, i) == <<p, i>> \in PrevLoaded \/ <<"chunk", p, i>> \in ran
DataRan(t)     == \A p \in PartsOf(t) : \A i \in 0..(NumChunks[p] - 1) :
                    ChunkRan(p, i)
IndexesRan(t)  == t \in DeferredIdx => <<"index", t, 0>> \in ran
Analyzed(t)    ==
  AnalyzeMode = "on" \/ (AnalyzeMode = "histogram" /\ t \in Histograms)
    => <<"analyze", t, 0>> \in ran

\* The stages of a table are executed in order although all of them share one
\* pool: data after its DDL, indexes after all its data in every partition,
\* ANALYZE after the indexes, checksums after everything else.
StageOrder ==
  \A w \in Workers : wpc[w] = "run" =>
    LET x == task[w].of
        t == IF task[w].kind \in {"chunk", "checksum"} THEN TableOf[x] ELSE x
    IN  CASE task[w].kind = "chunk" -> <<"ddl", t, 0>> \in ran
          [] task[w].kind = "index" -> DataRan(t)
          [] task[w].kind = "analyze" -> DataRan(t) /\ IndexesRan(t)
          [] task[w].kind = "checksum" ->
               /\ \A i \in 0..(NumChunks[x] - 1) : ChunkRan(x, i)
               /\ IndexesRan(t) /\ Analyzed(t)
          [] OTHER -> TRUE

\* execute_tasks() leaves its loop with success only when every task of the
\* dump was executed: work_available() asks what was scheduled, not what was
\* finished, and relies on all the workers being idle for the rest.
OkMeansAllDone ==
  result = "ok" =>
    /\ \A t \in Tables : /\ <<"ddl", t, 0>> \in ran /\ DataRan(t)
                          /\ IndexesRan(t) /\ Analyzed(t)
    /\ \A p \in Checksums : TableOf[p] \notin NoTable =>
                              <<"checksum", p, 0>> \in ran

\* No piece of work is executed twice by one load, and a chunk the progress
\* file reports as DONE is not executed at all.
ExecutedOnce ==
  [][\A w \in Workers : wpc[w] = "run" /\ wpc'[w] = "end" =>
       /\ WorkOf(w) \notin ran
       /\ task[w].kind = "chunk" =>
            <<task[w].of, task[w].index>> \notin PrevLoaded]_vars

\* The load always ends: finished, failed or interrupted, with all its worker
\* threads joined.
Termination == <>(mpc = "stopped")
============================================================================
