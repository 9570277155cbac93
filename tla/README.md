# A TLA+ model of MariaDB Shell's dump, load and copy utilities

MariaDB Shell (`src/`) is a command line client and a set of utilities for
MariaDB servers. Most of it is parsing, formatting and I/O. Its hard part is the
dump and load family: `util.dump_*()` writes a database as many data files with
a pool of threads, `util.load_dump()` reads such a directory, possibly while it
is still being written, into another server with another pool, and records its
progress in a file so that a load that stopped can be repeated; `util.copy_*()`
runs both in one process and passes the rows through memory. This directory
models these three, from the code, with the thread pool and the queue they
share, and checks and proves what they promise.

Line numbers below are those of the sources. `PROJECT.json` maps every
definition to the lines it stands for and lists the hazards the properties are
aimed at.

## The system

### Components

| component | state | operations | hard because | modelled by |
|---|---|---|---|---|
| `Dump_loader`, main thread (`modules/util/load/dump_loader.cc`) | `m_pending_tasks`, `m_current_weight`, `idle_workers`, `m_workers`, the phase of the load | `execute_tasks()`, `handle_worker_events()`, `schedule_next_task()`, `join_workers()` | one thread reacts to events of many; the end of the load is inferred from everyone being idle | `LoadScheduler` |
| `Dump_loader::Worker` | `m_task`, `m_work_ready`, the connection | `do_run()`, the `execute()` of each kind of task | `m_task` is replaced by the main thread without a lock; errors and ^C at any point | `LoadScheduler` |
| `Dump_reader` (`dump_reader.cc`) | chunks seen, consumed and loaded, stages of every table | `rescan()`, `next_table_chunk()`, `next_deferred_index()`, `next_table_analyze()`, `next_table_checksum()`, the `on_*()` notifications | stages are ordered by counters changed in different handlers | `LoadScheduler` |
| `Load_progress_log` (`load_progress_log.h`) | the progress file, `m_last_state` | `init()`, `log()`, `status()` | written after the fact, read by the next process | `ResumableLoad` |
| LOAD DATA worker (`import_table/load_data.cc`) | transaction buffer, offset, sub-chunk number | one `LOAD DATA` per transaction, retry after a deadlock | row boundaries against two limits; a retry has to undo everything that was read ahead | `LoadData`, `CopyPipe` |
| Dumper (`dump/dumper.cc`) | task queue, session pool, counters, files | creates tasks, chunks tables, writes files, then `@.done.json` | the end is found by whoever finishes last; sessions are shared; ^C and failures anywhere | `DumperTasks` |
| Chunking of tables (`dump/dumper.cc`) | search range, accumulated range | estimates with `EXPLAIN`, halves and doubles ranges, merges small ones | machine arithmetic at the ends of a type; estimates that contradict each other; rows that come and go | `IntegerChunking`, `RowChunking` |
| Copy utilities (`copy/copy_operation.cc`, in-memory file system) | requests and responses, one lent buffer | dump and load in one process | each side must be stopped when the other fails | `CopyPipe` |
| Parallel table import (`import_table/`) | file queue | splits the file, loads the ranges | shares the LOAD DATA worker | the worker: `LoadData` |
| Thread pool (`mysqlshdk/libs/utils/thread_pool.h`) | two queues, `m_active_threads`, `m_async_state`, exceptions | `add_task()`, `tasks_done()`, `process()`, `process_async()`, `terminate()`, destructor | produce and process halves on different threads; shutdown from any of them | `ThreadPool` |
| Synchronized queue (`synchronized_queue.h`) | deques by priority, `m_size`, two condition variables | `push()`, `pop()`, `try_pop()`, `shutdown()` | notifications after the mutex is released | `SynchronizedQueue` |
| Object storage (`mysqlshdk/libs/storage/backend`) | parts of an upload, retry counters | multipart upload, retry strategy | retries of what was already done | – |
| Interrupt handler (`mysqlshdk/shellcore`) | stack of handlers | push, pop, SIGINT | signal against the threads | only its effect on load, dump and copy |
| the rest: sessions, credentials, upgrade checker, printers, prompts, bindings | – | – | I/O, formatting, parsing | – |

### How they interact

The main thread and the workers share one FIFO, `m_worker_events`
(`shcore::Synchronized_queue`). A worker posts `CONNECTED` once, then repeats:
post `READY`, block on its own queue `m_work_ready`, execute what it was given
between a `*_START` and a `*_END` event. `READY` makes the main thread put *at
most one* new task into `m_pending_tasks` (a FIFO per weight) and hand the
heaviest pending one to this worker if the threads left suffice; otherwise the
worker is idle, and is woken by posting `READY` again in its name. Two more
things are shared without going through the queue: `m_worker_interrupt`, set by
^C, by a failing worker or by the main thread, and `m_tables_being_loaded`,
entries of which the main thread adds and the workers drop.

Only the main thread writes the progress file, when it gets to an event. The
server is thus ahead of the file whenever the process stops, and the next
process decides from the file alone what to skip, resume or load.

The dumper has no events. Its main thread and its workers share a
`Synchronized_queue` of tasks with five priorities, the lowest of which holds the
guards that end the workers, and atomic counters; the main thread waits for its
workers by joining them. DDL scripts and metadata of a dump are fetched
through `Thread_pool`, which is a second pair of such queues. In a copy, a data
file is a `Synchronized_file`: the loading worker lends its buffer to the dumping
worker through one queue and gets the number of bytes back through another.

## Modules

| module | models |
|---|---|
| `LoadScheduler` | main thread, workers, their queues, the bookkeeping of `Dump_reader` and the dump written meanwhile; one run of the loader |
| `LoadScheduler_proofs` | its inductive invariant and theorems |
| `ResumableLoad` | server, progress file, process: loading table data over several runs, with crashes |
| `ResumableLoad_proofs` | its inductive invariant, theorems and the refinement |
| `ExactlyOnceLoad` | what loading promises seen from the server; abstract specification of `ResumableLoad` |
| `ThreadPool` | `Thread_pool_base` and the ways its users drive it |
| `ThreadPool_proofs` | its inductive invariant and theorems |
| `SynchronizedQueue` | the queue at the level of its condition variables |
| `SynchronizedQueue_proofs` | its invariants and theorems, and those of `CopyPipe`, which passes its request through two such queues |
| `LoadData` | one LOAD DATA worker with one file |
| `LoadData_proofs` | its invariants and theorems |
| `DumperTasks` | main thread, workers, sessions and ^C handler of a dump |
| `DumperTasks_proofs` | its invariants about the sessions and the tasks, and theorems |
| `IntegerChunking` | splitting a table along an integer column |
| `IntegerChunking_proofs` | its invariants and theorems |
| `RowChunking` | splitting a table along any other index |
| `RowChunking_proofs` | its invariant and theorem |
| `CopyPipe` | the pipe a data file is in a copy |
| `MC...` | values of the constants of each of these for TLC |

A definition whose comment begins with MUTANT is a wrong version of the one that
follows it; no specification uses it. Replacing the right one by it violates the
property `PROJECT.json` names, which shows that the property depends on it.

### LoadScheduler

A *part* is the unit `Dump_reader` calls `Table_data_info`: a table, or one of
its partitions. A step is what happens between two points at which another
thread could notice a difference: posting an event, taking one, blocking, setting
the interrupt flag. `mpc` and `wpc` are the places in the code where the main
thread and each worker are:

| `mpc` | code |
|---|---|
| `start` | `execute_tasks()`, before the loop |
| `events` | `handle_worker_events()`, waiting for an event |
| `schedule`, `indexes`, `analyze`, `checksum` | `schedule_next()`, at the successive questions it asks the reader (in the DDL phase: the table DDL queue) |
| `assign` | the rest of the `READY` handler, after `schedule_next()` |
| `scan` | `scan_for_more_data()` |
| `check` | the end of the loop's body |
| `join`, `joining`, `stopped` | `join_workers()` |

| `wpc` | code |
|---|---|
| `connect` | `Worker::do_run()` before CONNECTED |
| `ready`, `wait` | posting READY; blocked on `m_work_ready` |
| `exec`, `run`, `end` | `execute()`: before `*_START`, the work, before `*_END` |
| `exited` | the thread is over |

`WriteChunk` and `FinishDump` are the dumper. Data files of a part appear in
order: the reader only takes a part's next file, so files that overtake it are not seen
before it is there. Which chunk the
reader picks depends on file sizes; `Candidates` is the set of parts it can
return and any of them may be chosen. The event record carries the task it is
about only for the properties; the handlers use the worker's current task, as in
the code. `weight` and `inflight` are integers, so that going below zero would
be visible instead of being excluded.

Left out: schema and view DDL (on the main thread before and after this loop),
accounts, BULK LOAD and secondary load (not used with MariaDB), the second ^C,
which kills the connections of the workers, and the difference between a checksum
that matches and one that does not (which is reported at the end of the load).
`m_abort` only selects the final message. An interrupt that arrives after the
loop has been left with success counts as a success here.

### ResumableLoad

`server[c][r]` counts the copies of row `r` of data file `c`. The progress file is
the state `Load_progress_log::init()` rebuilds from its lines: a status per chunk,
and the size of every finished sub-chunk. `ReadLog`, `RewriteLog` are the two
halves of `init()` for a file that exists: opening a local file for writing
empties it (`storage/backend/file.cc`); a remote one is kept in memory and stored
as a whole by every `flush()`. `CheckObjects` and `Begin` are the start of a run.
`ScheduleChunk` and `SkipChunk` are `schedule_table_chunk()`; the handlers of
`LOAD_START`, `LOAD_SUBCHUNK_END` and `LOAD_END` write the file. `WPrepare` is the
`TRUNCATE` of a resumed table without a key, `WCommit` one transaction,
`WReport` `transaction_finished()`.

A run ends early in four ways, chosen by `Stops`: `interrupt` (the first ^C) and
`fatal` (a statement fails on a worker) let the main thread handle all the events;
`error` (an exception on the main thread) leaves the events of the workers
unhandled; `crash` kills the process between any two steps. On an engine that is
not transactional a statement that does not complete may leave some of its rows; a
kill may leave every statement that was being executed half done (`RowsLeft`).
`Restart` is the user repeating the call. The last of `MaxRuns` runs is left alone.

Left out: entries of the file other than chunks, sub-chunks and the server's UUID,
a line cut in two by a crash, the `resetProgress` option, the retry after a deadlock (see `LoadData`).

### ThreadPool

Workers run the `produce_data` half of a task, one thread (`Main`) the
`process_data` half of every finished one; `Owner` creates the pool, adds tasks
and destroys it. `es` follows each thread through `emergency_shutdown()`, which
checks a flag, sets it, sets the state and pushes guards into both queues, all
steps of their own. The queues of `Synchronized_queue` are abstracted to
sequences whose `pop()` blocks: what happens inside is `SynchronizedQueue`. They are
unbounded, since no user of the pool passes `max_queued_tasks`. A
`use` says how the pool is driven, and is chosen in `Init` among those of the
code: `Dump_info::rescan_metadata()` (tasks add tasks, `process()` on the owner's
thread), the binlog utilities and views (an external flag), the DDL of the loader
(`process_async()`, the owner takes results and may call `terminate()`), and
`Worker_pool::wait()` (the owner polls the state). `aborted` is the
`std::system_error` of a thread that is joined twice.

### SynchronizedQueue

What happens under `m_queue_mutex` is one step; waiting, being notified, waking
spuriously or by time-out and notifying after the release are others. Producers
push a script of priorities. `shutdown()` is called once, at any time: behind
everything, as in `tasks_done()`, or while producers go on, as in an emergency. It
pushes the guards (`PushGuards`) and notifies all consumers in a second step; `due` is
what was pushed before the guards, which is what must come out before one of them is
taken. The limit is chosen in `Init`.

### LoadData

The file is the set of offsets at which a row ends; `m_data` is the part between
what was sent and what was read. Each call of the client library is one `Read`
step, an alternative for each return of `Transaction_buffer::read()`. The server
(external) commits, rolls back because of a deadlock, before (`early`) or after it
asked for the file, or fails otherwise. `Retry` is the whole of the retry: rewind to
the retry point, bytes of the range, progress, sleep. Left out: warnings, the text
of statements, escapes (they only hide row ends), compression.

### DumperTasks

`dumpData` is `m_options.dump_data()`, chosen in `Init`: a dump with data, whose tables
are first chunked, or one that only computes checksums, whose tasks the main thread
pushes itself. Tasks of one priority are alike, so the queue is a record of counters.
A chunk's checksum task and its data task are pushed in two steps, between which
other workers may run out of work; a table whose chunking is interrupted gets one
more task for the whole table, although some of its chunks were already pushed. `main` and
`wpc` are places in `do_run()` and `Table_worker::run()`. `MaybePushShutdownTasks`,
which both the main thread and any worker may reach, is one step per caller, after
the counters it reads were changed by another; `Interrupt`, `Abort`, `AbortGuards`
are the handler of ^C. `Failures` are the places that throw. Left out: the SQL that
locks the source and writes the files, progress display, the second ^C.

### IntegerChunking and RowChunking

`IntegerChunking` follows `chunk_integer_column()`, `adaptive_step_v2()` and
`Chunk_coalescer` statement by statement; sums and differences that leave the type
of the column wrap around (the code is undefined there for signed types; wrapping
is what the build produces). Every `EXPLAIN` may answer with any member of `RowCounts`, also
one that contradicts an earlier one. Chunking one value by the next column is the same
algorithm with `nested` set, so it is one step of the outer level; both levels are
initial states. Which chunk is marked as the last one follows the code's flushes
(`Marked`, `FlushAgain`), not the end of the walk. Rows with NULL in the column are
selected by the chunk with number 0 only, so one has to exist (`nulls`). A DECIMAL column
is walked in units of its last digit in a class that does not overflow, which is a type
whose ends no sum reaches; that its distance is compared in whole units when a
constant step is considered only changes which of the two step functions is used, and
both are covered. `RowChunking` is the walk with `LIMIT ... OFFSET` queries, between
which other clients insert and delete rows unless the dump is consistent.

### CopyPipe

`WriterStep` is `Synchronized_file::write()` and `close()` called by a dumping
worker, `ReaderStep` `read()` called by `fast_sub_chunking()` of the loading one.
A byte is its offset, so that anything lost, repeated or torn is visible. The three
flags of an interrupt (file system, dumper, loader) are set one after another, as in
`copy_operation.cc`. A side that fails (`broken`) makes the other one stop through the
same flags, but only when its `run()` throws, which it does after joining all of its
workers (`Throws`). These others, with their own pipes, are an environment:
one of them may be the one that fails (`OtherFails`), and nothing is assumed about when
they leave. The answer -1 to the second read, for a row that did not fit, is an error
to the client library and fails the statement. Bound: one thing goes wrong (`Sound`).

## Runs

| run | instance | shows |
|---|---|---|
| `stages` | 3 workers; a table with two partitions (2 files, loaded serially, and 1 file loaded by an earlier run) and an empty table; index tasks weighing 2 and 5 (cut to 3); histograms of one table, checksums | types; events match tasks; DDL, data, indexes, ANALYZE and checksum in this order for each table; weights add up and never exceed the pool; `top()` is the heaviest task; serial parts are loaded by one worker at a time; nothing is executed twice |
| `faults` | 2 workers, a table of 3 files, the first loaded by an earlier run, with an index task as heavy as the pool; the last file may never arrive, the table may be gone when its checksum is due; any worker or the main thread may fail, ^C at any time | no success with work left; a task is replaced only while its worker is free; all threads joined in the end |
| `resume_graceful` | 2 workers; one table with a key, one without on an engine without transactions, one file of 2 rows each; ^C or a failing statement, 2 runs | rows are never there without a log entry; the load is one `ExactlyOnceLoad`; the repeated call is not refused and finally loads the dump |
| `resume_crash` | 2 workers, a table with a key, without transactions, 2 files of 2 rows, one row per transaction; crash, which may leave both statements half done, or main thread error in each of the first 2 of 3 runs | the file never claims more than the server holds; a skipped prefix is on the server; `ExactlyOnceLoad` |
| `resume_truncate` | 2 workers, a table without a key, 2 files | **violation** of `LogSound`, see Findings |
| `pool` | 2 workers, up to 4 tasks, the five uses, each with the faults it can have | DONE, or a `process()` that returns, means that everything was processed once; `tasks_done()` is last; the failure of a worker stays visible; the destructor joins every thread once; everyone returns |
| `queue` | 2 producers of 2 elements, 2 consumers, one of them timed; unbounded, and bounded by 1; `shutdown()` before or after the producers end | no lost wake-up; FIFO per priority, guards behind what was pushed before them; everything pushed before the guards is delivered |
| `load_data` | all files of 5 bytes and all layouts of rows, transactions of up to 4 bytes or unlimited, client buffers of 2 and 3, whole files and ranges, seekable or not | all bytes once and in order; sub-chunks are whole rows within the limit; progress is what is committed; sleeps stay within the limit; the worker ends |
| `dump` | 2 workers, 1 session, a DDL task, 2 tables of up to 1 chunk each, with data and checksums or with checksums only; all failures, one ^C | `@.done.json` only after everything was dumped and validated; workers leave last; sessions are conserved; success means no failure and no ^C; `run()` returns |
| `chunk_integer` | types of 3 bits, signed and unsigned, all ranges, six estimates around 20 rows per chunk, small and large tables, with and without a next column | every key in one chunk unless the distance of the keys overflows their type, one chunk marked as last, NULL rows dumped; the assertions of the code; the search ends |
| `chunk_rows` | 4 keys, 2 rows per chunk, up to 4 chunks, consistent or not, interrupted or not | stable rows are kept, on a snapshot once; the last chunk, and no other, is marked |
| `pipe` | all tables of up to 3 rows of 1, 2, 3 or 6 bytes, buffers of 2 and 3, transactions of 4; ^C, failures of either side or of another dump worker | bytes arrive in order, in whole rows, within the limit of a transaction; one request at most, held by one side; both sides end, provided that the other workers of a side that failed leave |

Bounds. In the scheduler two workers are enough for one of them to be late with an
event while the other one is scheduled; three are needed for a task of weight 2 to
leave one thread, which is what the waking of idle workers is about. Two files let a
part be half consumed, two partitions let a table be half loaded. Two rows make a file
that can be cut into two transactions, so that a load can be resumed in its middle;
three runs allow a resumed run to be stopped too, so that sub-chunks of two runs with
different boundaries add up. `MaxCopies = 2` stands for "more than once", `MaxSub`
is above every sub-chunk number that occurs (TypeOK checks it).
In the pool two workers let one leave while the other throws; a task with two children
makes the counter of producers go up and down. Two producers and two consumers are the
least for a notification to reach a thread other than the one it was meant for. Five
bytes with buffers of 2 and 3 and transactions of up to 4 put a row end before, at and
after every limit, and a row can exceed both. One session for two workers makes them
wait for it; two tables let one be chunked while the other is created. Three bits hold
ranges that are halved twice and both ends of the type; the six estimates are one for
each comparison the code makes. Rows of 1, 2, 3 and 6 bytes fit the buffer, fill it,
exceed it and exceed the transaction.

Fairness. Weak fairness of every thread: the operating system runs every thread that
can go on, and statements sent to the server end one way or the other.
`WF(DumpStep)` in `LoadScheduler`: the dump goes on; were it to stop without
`@.done.json`, the loader would wait, or time out according to `waitDumpTimeout`,
which is one of the reasons of `MainFail`. `WF(Restart)` in `ResumableLoad` is the user
repeating the call. The handler of ^C, once called, runs to its end
(`WF(Abort \/ AbortGuards)` in `DumperTasks`, `WF(Signal)` in `CopyPipe`). `Throws` of
`CopyPipe` has no fairness, because the workers it waits for may never leave; that they
do is the premise `OthersLeave` of `BothEnd`. Failures, ^C,
time-outs and spurious wake-ups have no fairness. Deadlock is checked in the scheduler
and the resumed loads, where `Done` and `Over` are the only states the system may rest in;
the other models end by stopping, and where one may not end too early the run checks
`Termination`, `AllDelivered` or `BothEnd` (`chunk_rows` checks no liveness: with
other clients inserting rows for ever the walk need not end).

## Findings

**TRUNCATE on resume drops finished chunks** (`resume_truncate`,
`dump_loader.cc:1549`). An interrupted chunk of a table without a unique key
empties the table although other chunks of it are DONE in the file and will be
skipped: their rows are lost.

### Deviations

Places where a property of the runs holds only with a condition, because the code
does something else when it is not met. The condition is in the comment of the property or
in the choice of constants, and changing it makes TLC show the behaviour.

| where | what happens | condition |
|---|---|---|
| `dump_loader.cc:5491` | a chunk is started on the server before the main thread logs it; after a kill, or an exception on the main thread, it may be loaded and still be PENDING: the next run loads it again, and a table without a key has the rows twice (`load-dump-utility.md:217` says duplicates are discarded or the table truncated) | `resume_crash` has a table with a key; `StartLogged` shows that ^C and failing workers do not have this problem |
| `dump_loader.cc:3063` | `analyzeTables: "histogram"` with `checksum`: a table without histograms is passed over after it was marked as scheduled and never becomes finished, so that its checksum is never due and `work_available()` stays true | `stages` has no checksums for the table without histograms |
| `load_progress_log.h:671` | a local progress file is empty between being opened for writing and being written back: a process killed then loses all progress, and the next run refuses the tables that exist | `resume_graceful` has no crashes, `resume_crash` has `IgnoreExisting` |
| `thread_pool.h:318` | a `process_data` that throws sets TERMINATED, which the last worker to leave overwrites with PROCESSING; the loader compares with TERMINATED only (`dump_loader.cc:4745`) | `FailureVisible` is about workers |
| `thread_pool.h:100` | an owner that throws after `process_async()` destroys the pool: destructor and `process()` join the same `std::thread`s | `CleanDestruction` excludes this use |
| `synchronized_queue.h:122` | `pop()` notifies one producer, and only when the queue was full: with a limit of 2 or more and two sleeping producers one of them sleeps for ever. No caller passes a limit | `MaxSizes = {0, 1}` |
| `load_data.cc:418` | a line terminator of two characters may begin at the last byte before a limit; the boundary is then one past it: more is sent than the buffer takes (the assertion at 587), or a transaction ends between the two characters | `Needle = 1` |
| `load_data.cc:421` | within a limit of one byte the search for the last row end gives up although that byte may end a row (`p < needle.size()`): with a client that asked for one byte at a time a transaction could end inside a row. Clients ask for far more | `1 \notin BufLens` in `SubChunksCorrect` |
| `load_data.cc:1058` | a statement rolled back before the server asks for the file subtracts the bytes of the attempt before it from the progress again | `ProgressExact` excludes `early` |
| `dumper.cc:6287` | ^C while worker threads are being created pushes guards for those that exist; the others wait for ever | `Running` |
| `dumper.cc:2949` | ^C before `do_run()` clears the flag is forgotten, and the dump goes on | `Running` |
| `dumper.cc:2995` | an exception on the main thread while it creates tasks takes the sessions out of the pool before the workers are stopped: a worker that waits for one waits for ever | `AllFailures` lacks `"tasks"` |
| `dumper.cc:1865` | `right - left` overflows for signed keys that span more than half of their type: the range that is counted is inverted (the assertion of `between()`, 1331), and the chop may answer with a step back, so that chunks overlap (the comment at 2138 says "ensure that there's no integer overflow"). Types of three bits are too small for the overlap; one of five bits with keys from -16 to 8 shows it | `DistanceFits` in `RangesOrdered` and `ChunksComplete` |
| `dumper.cc:1928` | for the same reason, with the smallest value of the type among the keys, the binary chop may go back and forth for ever | `DistanceFits` in `Termination` |
| `load_data.cc:531` | ^C between the two reads of a row longer than the buffer leaves zero bytes, which the next statement may send | `~cancelled` in `StreamIntact` |
| `copy_operation.cc:246` | `run()` of a side that failed throws only after it has joined all of its workers. A dump worker that waits in `write()` of another file for a reader that is itself waiting for the failed side never leaves: the flags are not raised, and `copy()` waits until ^C | `OthersLeave` in `BothEnd` |
| `synchronized_file.cc:116` | an interrupted reader leaves, with its buffer, while the writer may hold its request ("protected by the two queues", `synchronized_file.h:165`) | `~cancelled` in `RequestProtected` |

## Proofs

`LoadScheduler_proofs` holds for every finite set of workers, every dump and every
combination of options that satisfy `SchedulerAssumption` (`LoadScheduler`), which
says no more than that the constants have their types and there is at least one
worker. Failures and interrupts are included.

| theorem | states |
|---|---|
| `Inductive` | `Spec => []IInv` |
| `TypeCorrect` | `Spec => []TypeOK` |
| `QueueCorrect` | `Spec => []TopIsHeaviest` |
| `ScheduleSafe` | `Spec => []TaskReplacedWhenFree` |
| `EventsCorrect` | `Spec => []EventTaskMatch` |
| `SchedulerInductive` | `Spec => []SchedInv` |
| `WeightCorrect` | `Spec => []WeightAccounting` |
| `SerialCorrect` | `Spec => []SerialExclusive` |
| `StagesCorrect` | `Spec => []StageOrder` |
| `OkCorrect` | `Spec => []OkMeansAllDone` |
| `OnceCorrect` | `Spec => ExecutedOnce` |

The inductive invariant `IInv` is `TypeOK /\ TopPosition /\ Handshake /\
EventTaskMatch`.

- `TopPosition` strengthens `TopIsHeaviest`, which says nothing while the queue is
  empty: the next `emplace()` only moves the position up, so it must have gone back
  to the first one by then.
- `Handshake` is about where a worker that reported READY can be. Such a worker is
  blocked with nothing given to it (`ReadyFree`, `IdleFree`, `CurFree`), READY is its
  last event and there is only one (`ReadyLast`), and it is in one place: in the
  queue, among the idle ones (once: `IdleDistinct`) or being handled. Every action
  moves it from one place to another; posting READY again for an idle worker is only
  right because it was taken off `idle_workers` first. `WorkGiven` says that a worker
  gets no second task before it took the first. `TaskReplacedWhenFree` is `CurFree`
  at the moment of the assignment.
- `EventTaskMatch` is preserved because a task is replaced only while no event of its
  worker is queued. `Handshake` ends with `join_workers()`, when every worker
  is told to stop wherever it is; nothing is handled and no task is replaced
  afterwards, so `EventTaskMatch` remains.

The proof goes through the actions: one lemma per group of actions for the types
and the queue, one for the handshake, and lemmas on `Emplace`, `PopTop`,
`Push` and on the waking of idle workers, which both rest on.

The other five theorems need to know where every piece of work is. `SchedInv` adds to
`IInv`, in layers:

- `Account`: a piece of work (`<<kind, of, index>>`) is issued once by `schedule_next()`
  (`Issued`, read off the reader's counters and stages), waits in `m_pending_tasks`, is
  owned by one worker from `Worker::schedule()` until its END is handled, and is executed
  in between. `Ledger` says that these places exclude each other, `NothingLost` that
  without an interrupt nothing issued is in none of them, `SerialOne` that a Serial part
  has one chunk on the way and is marked so in `m_tables_being_loaded`. Each action has one of
  six effects on the account (`SameWork`, `Drops`, `Runs`, `Reports`, `Takes`,
  `Pushes`), and the lemmas about the effects carry the proof.
- `Stages`: the reader's counters and stages, in terms of what was executed and handled:
  `loaded[p]` is the number of chunks taken from `p` that were executed and handled or
  come from an earlier run (`ChunkCounts`), so `all_chunks_are(loaded)` means that all
  were executed; indexes, ANALYZE and checksums are issued only behind them. `DataPhase`
  says that the data phase begins with all the DDL handled.
- `Weights`: the sum over the workers is `WeightAccounting`; idle workers and the one being
  scheduled hold nothing, and a pending task is in the queue of its weight. `MapThenSumSet`
  is a recursion over subsets; that it has a solution, and what one changed weight does to
  it, is proved with a least counterexample (`LeastWorkers`).
- `Idleness`: without an interrupt nobody is gone (`Present`); a worker is idle only if there
  was nothing that fits for it, so when all are idle, nothing is pending: a single task never
  weighs more than the pool (`IdleMeans`). With `NothingLost` this is what
  `execute_tasks()` relies on at its end, and at the end of the DDL phase.

`ResumableLoad_proofs` holds for every finite set of workers, every dump (tables,
partitions, data files, rows, keys and engines), any size of transaction and any number of
runs that satisfy `LoadAssumption`, which says that the constants have their types.

| theorem | states |
|---|---|
| `LoadInductive` | `Spec => []Base` |
| `RowsThereCorrect` | `OneFile => (Spec => []RowsThere)` |
| `LogCorrect` | `OneFile => (Spec => []LogSound)` |
| `SkipCorrect` | `OneFile => (Spec => []SkipSound)` |
| `RowsLoggedCorrect` | `Graceful => (Spec => [](RowsLogged /\ mpc # "join"))` |
| `StartCorrect` | `Graceful => (Spec => []StartLogged)` |
| `NothingLeftCorrect` | `Spec => []NothingLeft` |
| `NoCopiesCorrect` | `Keyed \/ Graceful => (Spec => []NoCopies)` |
| `ExactlyOnceCorrect` | `Keyed \/ (OneFile /\ Graceful) => (Spec => ExactlyOnce)` |

The conditions are what the code needs, and the runs satisfy them. `OneFile`: a table
without a key has one data file; without it `LogSound` is false (`resume_truncate`, see
Findings). `Graceful`: runs end by ^C or by a failing statement, not by a kill or an
exception on the main thread, after which a chunk may have rows that the file does not
know of (`dump_loader.cc:5491` in Deviations). `Keyed`: every table has a key, and such
rows are replaced.

- `Base` is inductive without any condition. Its core is what ties the queue to the
  workers: the events of one worker are in order and say where it can be (`Handshake`), a
  chunk is given to one worker per run (`Taken`), the file says of a chunk that was not
  taken in this run what it said at its beginning (`LogKept`), and a chunk is in the file
  from its LOAD_START on (`ChunkLogged`).
- `SubChunks` is the reason why a prefix of a file may be skipped. For each chunk there is
  one sequence of sub-chunk sizes, of which the file holds a prefix and the queue the rest
  (`SubView`); a crash cuts it back to that prefix. Their sum is where the
  worker is in the file (`SubRows`), and they are numbered across runs: a run adds at most
  one more than there are rows (`SubCount`), which is why `MaxSub` is large enough.
  `BytesToSkip` is a recursion over a set; the lemmas on it are proved
  with a least counterexample (`SmallestSet`).
- `RowsThere`: what was loaded, and what the file calls DONE, is on the server. Only the
  worker of a chunk can take its rows away, and a chunk with LOAD_END posted has none.
- `RowsLogged`: a chunk with rows is in the file, or its LOAD_START is queued. The main
  thread stops when the remaining workers are idle, and those have no event queued, nor
  have the ones that are gone: so nothing is lost with the queue.
- `NoCopies` says more than that there are none: a table without a key has no rows behind
  the place where a worker loads. `NothingLeft`: a chunk that was taken is DONE,
  about to be, or with a worker, and nobody is idle while there are more.

The refinement maps a commit, a partial load that is kept by an engine without
transactions, `TRUNCATE` and the end of the load to `Add`, `Add`, `StartOver` and `Finish` of
`ExactlyOnceLoad`, everything else to no step. A kill that leaves rows of several
statements is one `Add` with rows of several files. While it was proved, `LoadRows` turned out to
be written with a `CASE` whose arms overlap, of which TLC takes the first but whose meaning
leaves open which one holds; it is an `IF` now.

`ThreadPool_proofs` holds for any number of workers, any finite set of tasks, any
priorities and any set of uses that satisfies `PoolAssumption`: beyond the types it says
that an external interrupt needs a flag, that no pool with a flag has tasks that add tasks,
and that only tasks of the owner add some (the schemas of
`Dump_reader::Dump_info::rescan_metadata()`, `dump_reader.cc:1678`).

| theorem | states |
|---|---|
| `Inductive` | `Spec => []PoolInv` |
| `DoneCorrect` | `Spec => []DoneMeansProcessed` |
| `BookkeepingCorrect` | `Spec => []Bookkeeping` |
| `FailureShown` | `Spec => []FailureVisible` |
| `DestructionCorrect` | `Spec => []CleanDestruction` |

`PoolInv` is built in layers, each proved from the ones before it.

- `Shape` keeps every thread in its own code; `Fresh` and `Early` say what cannot have
  happened before `process()` is called, `Flagged` that `emergency_shutdown()` goes on
  only with the flag set.
- `Counted`: `m_active_threads` is the number of workers that have not left, *plus* the
  failed ones, which end without the decrement. So it is zero only if nobody failed, and
  then everybody has left.
- `Guards`: who takes a guard takes it after all tasks (or all results), unless the pool is
  being shut down. A guard alone proves nothing, because both `tasks_done()` and
  `emergency_shutdown()` push them; the flag is set before the second kind exists.
- `Once`, `Apart`, `NoneLost`: a task that was added is in one place only (queued, with one
  worker, among the results, in the hands of `process()`, or finished), and is somewhere
  unless something failed or was interrupted (`Broken`). With `Guards` and `Counted`:
  when `process()` finds a guard and no interrupt, every place but the last is empty, which is
  why DONE may be set (`FinishSettled`).
- `Counter`: `task_producers` is at least the number of producing tasks that have not ended,
  plus one while the owner adds tasks; it is zero once `tasks_done()` was called.
- `Shown`: a failure is about to be written as TERMINATED, or is, and nobody overwrites it.
- `Result` is what `process()` reports at each of its last steps, and why it may have been
  stopped; `Joins` is who joins which worker.

`SynchronizedQueue_proofs` holds for any finite sets of producers and consumers, any script
and any limit (`QueueAssumption`). `WakeupsCorrect` is `Spec => []NoLostWakeup`:
`NoLostWakeup` compares the elements in the queue with the
notifications that are owed and the consumers already woken; with the types of the
variables it counts (`Shape`) it is inductive. `push()` adds one to both sides, its late
`notify_one()` turns a notification owed into a woken consumer unless nobody sleeps,
the late `notify_all()` of `shutdown()`, owed to every sleeper, wakes them all,
`pop()` takes one off both sides or finds nobody asleep. There is a lemma per action.
The other half, that producers are not forgotten, is false for limits above 1 (see
Deviations). `OrderCorrect` is `Spec => []PopOrder`. Its invariant `OrderInv` adds what
the popped elements alone cannot show: each deque holds elements of its own priority
(`InTheirQueue`), in the order of each producer and behind what was popped (`InLine`),
nothing pushed is missing (`NothingLost`), and what was pushed before the guards is out
when one is taken (`GuardsBehind`).

The same module proves the pipe of the copy utilities, for files of any rows, buffers of
any lengths, any limit of a transaction and any set of faults (`SizesAssumption` and
`FaultsAssumption` of `CopyPipe`, whose specification is called `PipeSpec` so that both
modules can be extended).

| theorem | states |
|---|---|
| `PipeInductive` | `PipeSpec => []PipeInv` |
| `CopyCorrect` | `PipeSpec => []CopyExact` |
| `RequestSafe` | `PipeSpec => []RequestProtected` |

`PipeInv` is `PipeShape /\ FlagsOrdered /\ (Live => Stream /\ HandOver)`.

- `PipeShape` has the types, the row the writer is at, and that a request holds no more
  bytes than the rows before it.
- `FlagsOrdered`: nothing is wrong, ^C was pressed, the dumper failed or the loader did
  (`Quiet`, `Cancelling`, `DumperFailed`, `LoaderFailed`), and in each case the flags are
  set in the order of `copy_operation.cc`. A reader that finds the file system interrupted, without ^C, can
  conclude that the writer has left, and a writer that the reader has.
- `Stream` is what the target has: the bytes of the file from the first one, committed in
  whole rows, the running transaction within its limit or part of one row. `Live` ends
  when ^C interrupts the file system; from then on a reader may leave with part of its
  buffer unwritten (see Deviations), and only the shape remains.
- `HandOver` follows the one request. While the reader waits it is with the writer or in
  the queue (`Asked`), answered (`Answered`, also by a writer that has closed since),
  sent back because the row does not fit (`Refused`) or overtaken by the end of the file
  (`Ended`). `Ahead` is the reason why nothing is lost or repeated: what was received
  and what was handed over end where the row of the writer begins, which is also why
  the answer 0 means that everything has arrived. `ForBuffer` keeps a read within what
  is left of the transaction; `ForRow` is the second read for a row that is longer than
  the buffer, which the writer must fill with exactly this row.

The offsets of the rows are a recursive function (`RowEnd`); that it exists and grows is
proved from the least number for which it would not. The proof found a mistake in the
type invariant, which allowed a request only lengths up to the size of the file or the
length of a whole buffer: with other constants than those of the run a partly filled
buffer is neither.

`LoadData_proofs` holds for every file length, layout of rows, range, buffer, transaction
size and sequence of answers of the server.

| theorem | states |
|---|---|
| `LoadedCorrect` | `Spec => []LoadedOnce` |
| `CountersCorrect` | `Needle = 1 => (Spec => []Counters)` |
| `SubChunksCorrect` | `Client => (Spec => SubChunks)` |

What is committed is the first `Len(table)` bytes of the input; what the running statement
has received continues it, and a retry goes back to the same place (`Stream`). `Limits`
says where the end of the transaction may be and that nothing ends before the input does,
`Counting` that the counters are those of the stream. `Rows`, for the last theorem, says
where in a row the sent bytes end: after complete rows, before a row that fits, or inside
a row that alone is longer than the transaction. The hypotheses are the deviations above:
terminators of one byte (`Needle = 1`), and for `Client` also no requests for a single byte.

`DumperTasks_proofs` holds for any number of workers, sessions and tasks, any set of
failures (those left out of the run included) and signals (`SizesAssumption`,
`FaultsAssumption`).

| theorem | states |
|---|---|
| `SessionsSafe` | `Spec => []SessionsConserved` |
| `DumpComplete` | `Heard => (Spec => []DoneFileMeansComplete)` |
| `WorkersEndLast` | `Heard => (Spec => []WorkersLeaveLast)` |
| `OkMeansDumped` | `SignalAt \cap {"start", "done"} = {} => (Spec => []OkMeansDone)` |

The sum of pooled, closed and borrowed sessions is not inductive by itself: a worker that
gives a session back must have one, and one that takes a session must have none. `Borrowed`
says where in the loop a worker has one (at its end it may or may not, which is why
`release_session()` asks); `NoSessions` and `AllSessions` separate what comes before
`create_worker_sessions()`, or after a `do_run()` that ended before it, from the rest;
`Starting` says that threads to come have not borrowed anything.
The other three rest on `TaskInv`. `Account` balances each kind of task: finished, queued
and being worked on, or about to be pushed (`Pushing`), add up to those created, or to
less once somebody has failed.
`GuardsLast` says that without an interrupt guards are pushed only when everything was
produced and taken only when nothing waits, `Flagged` that whoever pushes guards otherwise
has raised the flag before, `Phases` what the main thread has done by when, and `Outcome`
what is written and returned. `Heard` excludes a ^C before `do_run()` clears the flag, which
is forgotten while its guards remain (see Deviations); a ^C after the last test of the flag
(`"done"`) is not an error of the dump.

`IntegerChunking_proofs` proves `ChunksCorrect` (`Spec => []ChunksComplete`) and
`AssertionsCorrect` (`Spec => []AssertionsHold`) for every set of integer types, every
range, row count and sequence of answers of EXPLAIN. `Shape` holds without conditions.
`Walk` is about keys whose distance fits their type: everything below the point where the
walk is, except what the coalescer holds, was dumped once (`Covered`); the position stays in
the table (`InTable`), and neither the expansion of an empty range nor the binary chop leaves
it (`InRange`), although the code adds a distance to its right end. An attempt to prove
`Covered` without the condition failed, and led to the overlapping chunks in Deviations.

`RowChunking_proofs` proves `RowsCorrect`, `Spec => []RowsKept`, for any number of keys and
rows per chunk and any changes of the table between the queries (`RowsInv`): rows that stay
are in a chunk or still ahead of `begin` and not behind `end` (`Kept`); the rows without a key
and the mark of the last chunk are where they belong (`Marked`); on a snapshot all chunks
end before `begin` (`Snapshot`). The `LIMIT n - 1, 2` of the code is a `Nth` of the model:
that it exists, and that nothing lies between one and the next, follows from the
well-foundedness of the natural numbers.

Layout. In each module the types come first, then lemmas on what a step of each thread
moves, then one lemma per layer of the invariant with a case per action, then the
theorems. The invariants were checked with TLC on the instances of the runs before they
were proved.

Only model-checked:

- liveness (`Termination`, `AllDelivered`, `BothEnd`, `EventuallyLoaded` and the like), which is
  out of reach of the prover.

Every other property of the passing runs is stated by a theorem.

## Plan

1. `CopyOperation`: a dumper, a loader and several pipes. A dumping worker that fails in
   the middle of a chunk does not close its file, and the file system is interrupted only
   when `Dumper::run()` has joined all workers (`copy_operation.cc:246`).
2. `ProgressLog`: all kinds of entries (DDL, indexes, GTID, accounts), the crash
   points between a statement and its entry, a line cut in two.
3. `MultipartUpload` with the retry strategy; `InterruptHandler`.
4. The splitting of a file into ranges for the parallel import.

Scheduler: the second ^C, checksum mismatches.

## Not modelled

- The SQL of the dumper: locks, the consistency of the snapshot, DDL and its
  compatibility rewriting, the encoding of rows. Straight-line code whose correctness is
  about text and about the server.
- Schema, view and account DDL of the loader, GTID, BULK LOAD and secondary load.
- Sessions, tunnels, credentials, the upgrade checker, JSON import, printers, prompts and
  language bindings: I/O, formatting and parsing, without a state machine of their own.
- The generated SQL parser (`mysqlshdk/libs/parser`), the largest part of the repository,
  and vendored libraries.
- Object storage and the stack of interrupt handlers: on the plan.
