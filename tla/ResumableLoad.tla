---------------------------- MODULE ResumableLoad ----------------------------
(***************************************************************************)
(* Loading table data, over several runs of the loader: the target server,  *)
(* the progress file (Load_progress_log) and the process that dies, fails   *)
(* or is interrupted and is started again.                                  *)
(*                                                                         *)
(* Workers commit to the server and post events; only the main thread       *)
(* writes the progress file, when it gets to handle an event.  The file     *)
(* therefore lags behind the server, and what it says at the moment the     *)
(* process stops decides what the next run does to each chunk.              *)
(*                                                                         *)
(* Scheduling is reduced to what matters here: chunks of a part are taken   *)
(* in order, by whichever worker reports READY.  LoadScheduler has the      *)
(* rest.  The size of a data file, and of a transaction, is counted in      *)
(* rows.                                                                    *)
(***************************************************************************)
EXTENDS Naturals, Sequences, FiniteSets, FiniteSetsExt

CONSTANTS
  Workers,         \* the worker threads
  Tables,          \* tables of the dump
  Parts,           \* units of table data: a table, or one of its partitions
  TableOf,         \* the table of a part
  NumChunks,       \* data files per part
  NumRows,         \* rows in each data file
  Pke,             \* tables that have a primary key, or a unique key of
                   \* non-null columns, while the data is loaded
  NonTrx,          \* tables on an engine that is not transactional
  MaxTrx,          \* rows per transaction at most; 0: no sub-chunks
  LocalFile,       \* the progress file is local (else it is stored remotely)
  IgnoreExisting,  \* the ignoreExistingObjects option
  Stops,           \* how a run may end early: a subset of
                   \* {"crash", "error", "fatal", "interrupt"}
  MaxRuns          \* BOUND: the last run does not end early

Chunks == UNION {{p} \X (0..(NumChunks[p] - 1)) : p \in Parts}

MaxSub    == (NumRows + 1) * MaxRuns  \* BOUND: sub-chunk numbers are below it
MaxCopies == 2                        \* BOUND: two copies stand for more

ASSUME LoadAssumption ==
  /\ IsFiniteSet(Workers) /\ Workers # {}
  /\ TableOf \in [Parts -> Tables] /\ NumChunks \in [Parts -> Nat \ {0}]
  /\ NumRows \in Nat \ {0} /\ MaxTrx \in Nat /\ MaxRuns \in Nat \ {0}
  /\ Pke \subseteq Tables /\ NonTrx \subseteq Tables
  /\ LocalFile \in BOOLEAN /\ IgnoreExisting \in BOOLEAN
  /\ Stops \subseteq {"crash", "error", "fatal", "interrupt"}

VARIABLES
  \* what survives the process
  server,      \* server[c][r]: copies of row r of chunk c on the target
  created,     \* the tables exist on the target
  file,        \* the progress file
  runs,        \* number of the current run
  \* the main thread
  mpc,         \* where it is; "down": the process is not running
  last,        \* m_last_state: the progress file as the run found it
  consumed,    \* chunks taken, per part
  live,        \* m_workers
  idle,        \* idle_workers
  interrupt,   \* m_worker_interrupt
  queue,       \* m_worker_events
  \* the workers
  wpc,         \* where each worker is
  task         \* the chunk given to each worker, and how far it is

serverVars == <<server, created>>
mainVars   == <<mpc, last, consumed, live, idle>>
vars == <<serverVars, file, runs, mainVars, interrupt, queue, wpc, task>>

----------------------------------------------------------------------------
(* The progress file, folded into what init() makes of it: a status per     *)
(* chunk, and per sub-chunk the rows of its transaction once it is DONE.  A *)
(* sub-chunk is only ever asked whether it is DONE, so its start is not     *)
(* kept.                                                                    *)

NotDone == NumRows + 1

EmptyLog ==
  [begun |-> FALSE,                           \* there is a SERVER-UUID entry
   chunk |-> [c \in Chunks |-> "PENDING"],
   sub   |-> [c \in Chunks |-> [k \in 0..MaxSub |-> NotDone]]]

\* do_log() of a Table_chunk entry: nothing is written for what was DONE when
\* the run began, and a later start does not undo DONE.
LogChunk(c, status) ==
  file' = IF last.chunk[c] = "DONE" THEN file
          ELSE [file EXCEPT !.chunk[c] = IF @ = "DONE" THEN @ ELSE status]

\* do_log() of the end of a sub-chunk.
LogSubchunk(c, k, n) ==
  file' = IF last.sub[c][k] # NotDone THEN file
          ELSE [file EXCEPT !.sub[c][k] = n]

\* schedule_table_chunk(): how many leading sub-chunks are DONE, and the rows
\* they hold.
FirstSubchunk(c) == Min({k \in 0..MaxSub : last.sub[c][k] = NotDone})
BytesToSkip(c)   ==
  MapThenSumSet(LAMBDA k : last.sub[c][k],
                {k \in 0..MaxSub : k < FirstSubchunk(c)})

----------------------------------------------------------------------------
(* The target server.                                                       *)

\* MUTANT: LOAD DATA without REPLACE, on a table that lost its key.
LoadRowsTwice(c, lo, hi) ==
  [server EXCEPT ![c] = [r \in 1..NumRows |->
     IF r <= lo \/ r > hi THEN @[r] ELSE Min({@[r] + 1, MaxCopies})]]

\* A committed LOAD DATA of rows lo+1..hi of a chunk: REPLACE (or IGNORE)
\* leaves one copy where a unique key tells the rows apart.
LoadRows(c, lo, hi) ==
  [server EXCEPT ![c] = [r \in 1..NumRows |->
     IF r <= lo \/ r > hi THEN @[r]
     ELSE IF TableOf[c[1]] \in Pke THEN 1 ELSE Min({@[r] + 1, MaxCopies})]]

\* TRUNCATE TABLE: the whole table, whatever chunk asked for it.
Truncate(t) ==
  [c \in Chunks |-> IF TableOf[c[1]] = t THEN [r \in 1..NumRows |-> 0]
                    ELSE server[c]]

----------------------------------------------------------------------------
NoTask == [chunk |-> <<>>, resume |-> FALSE, off |-> 0, sub |-> 0, trx |-> 0]

\* MUTANT: a sub-chunk reports the bytes read so far, not its own.
EventTotalBytes(type, w) ==
  [type |-> type, worker |-> w, sub |-> task[w].sub, bytes |-> task[w].off]

Event(type, w) ==
  [type |-> type, worker |-> w, sub |-> task[w].sub, bytes |-> task[w].trx]

Init ==
  /\ server = [c \in Chunks |-> [r \in 1..NumRows |-> 0]]
  /\ created = FALSE /\ file = EmptyLog
  /\ runs = 1 /\ mpc = "init"
  /\ last = EmptyLog /\ consumed = [p \in Parts |-> 0]
  /\ live = Workers /\ idle = {} /\ interrupt = FALSE /\ queue = <<>>
  /\ wpc = [w \in Workers |-> "ready"] /\ task = [w \in Workers |-> NoTask]

\* The process is gone, and with it everything it kept in memory: the events
\* that were not handled too.
EndProcess ==
  /\ last' = EmptyLog /\ consumed' = [p \in Parts |-> 0]
  /\ live' = Workers /\ idle' = {} /\ interrupt' = FALSE /\ queue' = <<>>
  /\ wpc' = [w \in Workers |-> "ready"] /\ task' = [w \in Workers |-> NoTask]

----------------------------------------------------------------------------
(* setup_progress_file() and the start of a run, main thread.               *)

\* Load_progress_log::init() reads the file and opens it for writing, which
\* empties it when it is local ...
ReadLog ==
  /\ mpc = "init"
  /\ last' = file
  /\ file' = IF LocalFile THEN EmptyLog ELSE file
  /\ mpc' = "opened"
  /\ UNCHANGED <<serverVars, runs, consumed, live, idle, interrupt, queue, wpc,
                 task>>

\* ... then writes back what it read.
RewriteLog ==
  /\ mpc = "opened"
  /\ file' = last
  /\ mpc' = "check"
  /\ UNCHANGED <<serverVars, runs, last, consumed, live, idle, interrupt, queue,
                 wpc, task>>

\* MUTANT: the check is not skipped when a load is resumed.
CheckObjectsAlways ==
  /\ mpc = "check"
  /\ mpc' = IF created /\ ~IgnoreExisting THEN "refused" ELSE "begin"
  /\ UNCHANGED <<serverVars, file, runs, last, consumed, live, idle, interrupt,
                 queue, wpc, task>>

\* check_existing_objects(), unless the load is resumed: tables of an earlier
\* run stop the load before it changes anything.
CheckObjects ==
  /\ mpc = "check"
  /\ mpc' = IF ~last.begun /\ created /\ ~IgnoreExisting THEN "refused"
            ELSE "begin"
  /\ UNCHANGED <<serverVars, file, runs, last, consumed, live, idle, interrupt,
                 queue, wpc, task>>

\* set_server_uuid(), then the DDL.
Begin ==
  /\ mpc = "begin"
  /\ file' = [file EXCEPT !.begun = TRUE]
  /\ created' = TRUE
  /\ mpc' = "load"
  /\ UNCHANGED <<server, runs, last, consumed, live, idle, interrupt, queue, wpc,
                 task>>

----------------------------------------------------------------------------
(* handle_worker_events(), main thread.                                     *)

Handling(type) ==
  /\ mpc = "load" /\ idle # live
  /\ queue # <<>> /\ Head(queue).type = type

Remaining == {p \in Parts : consumed[p] < NumChunks[p]}

NextChunk(p) == <<p, consumed[p]>>

\* schedule_table_chunk(), a chunk that is DONE: it only counts as loaded, and
\* the next one is tried.
SkipChunk ==
  /\ Handling("READY") /\ ~interrupt
  /\ \E p \in Remaining :
       /\ last.chunk[NextChunk(p)] = "DONE"
       /\ consumed' = [consumed EXCEPT ![p] = @ + 1]
  /\ UNCHANGED <<serverVars, file, runs, mpc, last, live, idle, interrupt, queue,
                 wpc, task>>

\* schedule_table_chunk(), a chunk to load: an interrupted one is resumed after
\* its leading DONE sub-chunks.
ScheduleChunk ==
  /\ Handling("READY") /\ ~interrupt
  /\ LET w == Head(queue).worker
     IN  \E p \in Remaining :
           LET c == NextChunk(p)
               resuming == last.chunk[c] = "INTERRUPTED"
           IN  /\ last.chunk[c] # "DONE"
               /\ consumed' = [consumed EXCEPT ![p] = @ + 1]
               /\ task' = [task EXCEPT ![w] =
                    [chunk |-> c, resume |-> resuming,
                     off |-> IF resuming THEN BytesToSkip(c) ELSE 0,
                     sub |-> IF resuming THEN FirstSubchunk(c) ELSE 0,
                     trx |-> 0]]
               /\ wpc' = [wpc EXCEPT ![w] = "given"]
  /\ queue' = Tail(queue)
  /\ UNCHANGED <<serverVars, file, runs, mpc, last, live, idle, interrupt>>

\* No more work for this worker.
NothingToDo ==
  /\ Handling("READY")
  /\ interrupt \/ Remaining = {}
  /\ idle' = idle \cup {Head(queue).worker}
  /\ queue' = Tail(queue)
  /\ UNCHANGED <<serverVars, file, runs, mpc, last, consumed, live, interrupt,
                 wpc, task>>

\* MUTANT: the end of a sub-chunk is logged as the end of its chunk.
HandleLoadEventChunkDone ==
  /\ LET e == Head(queue)
         c == task[e.worker].chunk
     IN  \/ Handling("LOAD_START") /\ LogChunk(c, "INTERRUPTED")
         \/ Handling("LOAD_SUBCHUNK_END") /\ LogChunk(c, "DONE")
         \/ Handling("LOAD_END") /\ LogChunk(c, "DONE")
  /\ queue' = Tail(queue)
  /\ UNCHANGED <<serverVars, runs, mainVars, interrupt, wpc, task>>

\* on_chunk_load_start(), on_subchunk_load_end() and on_chunk_load_end().
HandleLoadEvent ==
  /\ LET e == Head(queue)
         c == task[e.worker].chunk
     IN  \/ Handling("LOAD_START") /\ LogChunk(c, "INTERRUPTED")
         \/ Handling("LOAD_SUBCHUNK_END") /\ LogSubchunk(c, e.sub, e.bytes)
         \/ Handling("LOAD_END") /\ LogChunk(c, "DONE")
  /\ queue' = Tail(queue)
  /\ UNCHANGED <<serverVars, runs, mainVars, interrupt, wpc, task>>

\* FATAL_ERROR and EXIT
HandleExit ==
  /\ Handling("FATAL_ERROR") \/ Handling("EXIT")
  /\ live' = live \ {Head(queue).worker}
  /\ queue' = Tail(queue)
  /\ UNCHANGED <<serverVars, file, runs, mpc, last, consumed, idle, interrupt,
                 wpc, task>>

\* MUTANT: an interrupted load stops without waiting for its workers.
FinishAtOnce ==
  /\ mpc = "load" /\ (interrupt \/ idle = live)
  /\ mpc' = IF interrupt THEN "down" ELSE "complete"
  /\ EndProcess
  /\ UNCHANGED <<serverVars, file, runs>>

\* The workers that are left are idle: the load is complete, or it stops here.
Finish ==
  /\ mpc = "load" /\ idle = live
  /\ mpc' = IF interrupt THEN "down" ELSE "complete"
  /\ EndProcess
  /\ UNCHANGED <<serverVars, file, runs>>

----------------------------------------------------------------------------
(* Load_chunk_task::execute(), workers.                                     *)

Running == mpc \in {"load", "join"}

WReady(w) ==
  /\ Running /\ wpc[w] = "ready"
  /\ wpc' = [wpc EXCEPT ![w] = "wait"]
  /\ queue' = Append(queue, Event("READY", w))
  /\ UNCHANGED <<serverVars, file, runs, mainVars, interrupt, task>>

\* A task given just before an interrupt is not started.
WStart(w) ==
  /\ Running /\ wpc[w] = "given"
  /\ IF interrupt
     THEN /\ wpc' = [wpc EXCEPT ![w] = "exited"]
          /\ queue' = Append(queue, Event("EXIT", w))
     ELSE /\ wpc' = [wpc EXCEPT ![w] = "prepare"]
          /\ queue' = Append(queue, Event("LOAD_START", w))
  /\ UNCHANGED <<serverVars, file, runs, mainVars, interrupt, task>>

\* MUTANT: the table is not truncated.
WPrepareNoTruncate(w) ==
  /\ Running /\ wpc[w] = "prepare"
  /\ wpc' = [wpc EXCEPT ![w] = "load"]
  /\ LET t == TableOf[task[w].chunk[1]]
     IN  task' = IF task[w].resume /\ t \notin Pke
                 THEN [task EXCEPT ![w].off = 0] ELSE task
  /\ UNCHANGED <<serverVars, file, runs, mainVars, interrupt, queue>>

\* do_load(): a resumed chunk of a table without a key starts over, from an
\* empty table; its sub-chunk numbers go on.
WPrepare(w) ==
  /\ Running /\ wpc[w] = "prepare"
  /\ wpc' = [wpc EXCEPT ![w] = "load"]
  /\ LET t == TableOf[task[w].chunk[1]]
     IN  IF task[w].resume /\ t \notin Pke
         THEN /\ server' = Truncate(t)
              /\ task' = [task EXCEPT ![w].off = 0]
         ELSE UNCHANGED <<server, task>>
  /\ UNCHANGED <<created, file, runs, mainVars, interrupt, queue>>

\* How many rows the next LOAD DATA may send: all of them without sub-chunks;
\* none when the end of the file was not noticed before.
TrxSizes(w) ==
  LET rest == NumRows - task[w].off
  IN  IF MaxTrx = 0 THEN {rest} ELSE Min({1, rest})..Min({MaxTrx, rest})

\* How many of them may stay when it does not complete.
Kept(w) ==
  IF TableOf[task[w].chunk[1]] \in NonTrx THEN {0} \cup TrxSizes(w) ELSE {0}

\* One LOAD DATA, one transaction.
WCommit(w) ==
  /\ Running /\ wpc[w] = "load"
  /\ \E n \in TrxSizes(w) :
       /\ server' = LoadRows(task[w].chunk, task[w].off, task[w].off + n)
       /\ task' = [task EXCEPT ![w].off = @ + n, ![w].trx = n]
  /\ wpc' = [wpc EXCEPT ![w] = IF MaxTrx = 0 THEN "end" ELSE "report"]
  /\ UNCHANGED <<created, file, runs, mainVars, interrupt, queue>>

\* transaction_finished(), and the next sub-chunk if the file has more data,
\* or may have: its end is only noticed by a read that returns nothing.
WReport(w) ==
  /\ Running /\ wpc[w] = "report"
  /\ queue' = Append(queue, Event("LOAD_SUBCHUNK_END", w))
  /\ task' = [task EXCEPT ![w].sub = @ + 1]
  /\ \/ /\ task[w].off = NumRows
        /\ wpc' = [wpc EXCEPT ![w] = "end"]
     \/ /\ task[w].trx > 0
        /\ wpc' = [wpc EXCEPT ![w] = "load"]
  /\ UNCHANGED <<serverVars, file, runs, mainVars, interrupt>>

WEnd(w) ==
  /\ Running /\ wpc[w] = "end"
  /\ wpc' = [wpc EXCEPT ![w] = "ready"]
  /\ queue' = Append(queue, Event("LOAD_END", w))
  /\ UNCHANGED <<serverVars, file, runs, mainVars, interrupt, task>>

\* A statement fails: a transactional engine rolls back what LOAD DATA sent,
\* another one keeps it.
WFail(w) ==
  /\ Running /\ "fatal" \in Stops /\ runs < MaxRuns
  /\ \/ wpc[w] = "prepare" /\ UNCHANGED server
     \/ wpc[w] = "load" /\ \E n \in Kept(w) : server' =
          LoadRows(task[w].chunk, task[w].off, task[w].off + n)
  /\ wpc' = [wpc EXCEPT ![w] = "exited"]
  /\ interrupt' = TRUE
  /\ queue' = Append(queue, Event("FATAL_ERROR", w))
  /\ UNCHANGED <<created, file, runs, mainVars, task>>

WorkerStep(w) ==
  \/ WReady(w) \/ WStart(w) \/ WPrepare(w) \/ WCommit(w) \/ WReport(w)
  \/ WEnd(w) \/ WFail(w)

----------------------------------------------------------------------------
(* How a run ends early, and the next one.                                  *)

\* The first ^C.
Interrupt ==
  /\ mpc = "load" /\ ~interrupt
  /\ "interrupt" \in Stops /\ runs < MaxRuns
  /\ interrupt' = TRUE
  /\ UNCHANGED <<serverVars, file, runs, mainVars, queue, wpc, task>>

\* An exception leaves execute_tasks() on the main thread (the dump cannot be
\* listed, the wait for it timed out): join_workers() lets the workers finish
\* what they were given, and nobody handles their events any more.
MainError ==
  /\ mpc = "load"
  /\ "error" \in Stops /\ runs < MaxRuns
  /\ mpc' = "join"
  /\ UNCHANGED <<serverVars, file, runs, last, consumed, live, idle, interrupt,
                 queue, wpc, task>>

Join ==
  /\ mpc = "join" /\ \A w \in Workers : wpc[w] \in {"wait", "exited"}
  /\ mpc' = "down"
  /\ EndProcess
  /\ UNCHANGED <<serverVars, file, runs>>

\* What a process that is killed may leave of a chunk: what there was and, on an
\* engine that cannot roll back, some rows of the statement that was loading it.
RowsLeft(c) ==
  {server[c]} \cup
  UNION {{LoadRows(c, task[w].off, task[w].off + n)[c] : n \in Kept(w)} :
           w \in {v \in Workers : wpc[v] = "load" /\ task[v].chunk = c}}

\* The process is killed, with any number of statements under way.
Crash ==
  /\ mpc \notin {"down", "complete", "refused"}
  /\ "crash" \in Stops /\ runs < MaxRuns
  /\ mpc' = "down"
  /\ server' \in {s \in [Chunks -> UNION {RowsLeft(c) : c \in Chunks}] :
                    \A c \in Chunks : s[c] \in RowsLeft(c)}
  /\ EndProcess
  /\ UNCHANGED <<created, file, runs>>

\* The same load is started again.
Restart ==
  /\ mpc = "down"
  /\ mpc' = "init" /\ runs' = runs + 1
  /\ UNCHANGED <<serverVars, file, last, consumed, live, idle, interrupt, queue,
                 wpc, task>>

MainStep ==
  \/ ReadLog \/ RewriteLog \/ CheckObjects \/ Begin
  \/ SkipChunk \/ ScheduleChunk \/ NothingToDo
  \/ HandleLoadEvent \/ HandleExit \/ Finish \/ Join

Over == mpc \in {"complete", "refused"} /\ UNCHANGED vars

Next ==
  \/ MainStep \/ (\E w \in Workers : WorkerStep(w))
  \/ Interrupt \/ MainError \/ Crash \/ Restart \/ Over

Spec == Init /\ [][Next]_vars

\* The threads run, and the user starts the load again.
FairSpec ==
  /\ Spec
  /\ WF_vars(MainStep) /\ WF_vars(Restart)
  /\ \A w \in Workers : WF_vars(WorkerStep(w))
----------------------------------------------------------------------------
(* Properties.                                                              *)

Logs == [begun: BOOLEAN, chunk: [Chunks -> {"PENDING", "INTERRUPTED", "DONE"}],
         sub: [Chunks -> [0..MaxSub -> 0..NotDone]]]

Events == [type: {"READY", "LOAD_START", "LOAD_SUBCHUNK_END", "LOAD_END",
                  "FATAL_ERROR", "EXIT"},
           worker: Workers, sub: 0..MaxSub, bytes: 0..NumRows]

LoadTasks == [chunk: Chunks \cup {<<>>}, resume: BOOLEAN, off: Nat, sub: 0..MaxSub,
              trx: 0..NumRows]

\* The types of the variables.
TypeOK ==
  /\ server \in [Chunks -> [1..NumRows -> 0..MaxCopies]]
  /\ created \in BOOLEAN /\ file \in Logs /\ last \in Logs
  /\ runs \in 1..MaxRuns
  /\ mpc \in {"init", "opened", "check", "begin", "load", "join", "down",
              "complete", "refused"}
  /\ consumed \in [Parts -> Nat] /\ live \subseteq Workers
  /\ idle \subseteq Workers /\ interrupt \in BOOLEAN
  /\ queue \in Seq(Events)
  /\ wpc \in [Workers -> {"ready", "wait", "given", "prepare", "load",
                           "report", "end", "exited"}]
  /\ task \in [Workers -> LoadTasks]

\* What the progress file says is DONE is on the server, in this run and in
\* every later one: such a chunk is never loaded again.
LogSound ==
  \A c \in Chunks : file.chunk[c] = "DONE" =>
    \A r \in 1..NumRows : server[c][r] > 0

\* A chunk is loaded from an offset within its file, and only if everything
\* before it is already on the server: the sub-chunk sizes in the progress file
\* add up to what earlier runs committed.
SkipSound ==
  TypeOK /\
  \A w \in Workers : wpc[w] \in {"load", "report", "end"} =>
    /\ task[w].off <= NumRows
    /\ \A r \in 1..task[w].off : server[task[w].chunk][r] > 0

\* A load that was interrupted, or that failed on a worker, handles every event
\* before it stops: no chunk has rows on the server that the progress file
\* knows nothing of, so the next run resumes it instead of starting it afresh.
StartLogged ==
  mpc = "down" => \A c \in Chunks :
    (\E r \in 1..NumRows : server[c][r] > 0) => file.chunk[c] # "PENDING"

\* Seen from the server the load, over all its runs, is one load that adds each
\* row once, may start a table over, and is complete only with every row there.
Abstract == INSTANCE ExactlyOnceLoad
              WITH rows <- server, complete <- mpc = "complete"

ExactlyOnce == Abstract!Spec

\* The same call, repeated, ends with the dump loaded.
EventuallyLoaded == <>(mpc = "complete")
============================================================================
