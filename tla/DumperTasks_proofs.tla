--------------------------- MODULE DumperTasks_proofs ---------------------------
(* The sessions of a dump are conserved, and @.done.json and a normal return  *)
(* of run() mean a complete dump, for any number of workers, sessions, tasks, *)
(* failures and signals.                                                      *)
EXTENDS DumperTasks, FiniteSetTheorems, TLAPS

\* The sessions that exist: waiting in the pool, closed, or borrowed.
Open == pool + closed + Cardinality(holds)

\* Before create_worker_sessions(), or after a do_run() that ended before it,
\* there is neither a session nor a thread.
NoSessions ==
  /\ main \in {"start", "lock", "sessions", "final", "catch", "kill",
               "killjoin", "done"}
  /\ pool = 0 /\ closed = 0 /\ holds = {} /\ workers = 0
  /\ \A w \in Workers : wpc[w] = "none"

\* While threads are being created there is at least one more to come, and those
\* to come have done nothing yet.
Starting ==
  main = "threads" => /\ workers < NumWorkers
                      /\ \A w \in Workers : w > workers => wpc[w] = "none"

\* After create_worker_sessions() every session is accounted for.
AllSessions ==
  /\ main \notin {"start", "lock", "sessions"}
  /\ Starting
  /\ Open = NumSessions

\* Where a worker runs a task.
Working == {"check", "run", "push", "whole", "written", "chunked", "counted"}

\* A worker has a session where it uses one and none where it would take one
\* or has given it back; at the end of the loop's body it may be either.
Borrowed ==
  \A w \in Workers :
    /\ wpc[w] \in Working => w \in holds
    /\ wpc[w] \notin Working \union {"leave"} => w \notin holds

SessionInv == TypeOK /\ Borrowed /\ (NoSessions \/ AllSessions)

-----------------------------------------------------------------------------
\* The set of borrowers is finite, so that it can be counted.
LEMMA HoldsFinite ==
  ASSUME NEW S \in SUBSET Workers
  PROVE  IsFiniteSet(S) /\ Cardinality(S) \in Nat
<1>1. IsFiniteSet(Workers)
  BY FS_Interval, SizesAssumption DEF SizesAssumption, Workers
<1> QED
  BY <1>1, FS_Subset, FS_CardinalityType

\* A session that is taken or given back is counted once.
LEMMA HoldsCount ==
  ASSUME NEW S \in SUBSET Workers, NEW w \in Workers
  PROVE  /\ w \notin S => Cardinality(S \union {w}) = Cardinality(S) + 1
         /\ w \in S => Cardinality(S \ {w}) = Cardinality(S) - 1
         /\ w \notin S => S \ {w} = S
<1>1. IsFiniteSet(S)
  BY HoldsFinite
<1> QED
  BY <1>1, FS_AddElement, FS_RemoveElement

\* There is neither a session nor a thread when run() begins.
LEMMA SessionInit == Init => SessionInv
<1> SUFFICES ASSUME Init PROVE SessionInv
  OBVIOUS
<1>1. TypeOK
  <2>1. wpc \in [Workers -> WorkerPoints] /\ task \in [Workers -> Kinds] /\ queue \in Queues
    BY DEF Init, WorkerPoints, Kinds, Queues
  <2>2. made \in [Workers -> 0..MaxChunks]
    BY SizesAssumption DEF Init, SizesAssumption
  <2>3. /\ workers \in 0..NumWorkers /\ closed \in 0..NumSessions
        /\ created \in 0..(NumHigh + NumTables) /\ signals \in 0..MaxSignals
    BY SizesAssumption DEF Init, SizesAssumption
  <2> QED
    BY <2>1, <2>2, <2>3 DEF Init, TypeOK, MainPoints
<1>2. Borrowed
  BY DEF Init, Borrowed, Working
<1>3. NoSessions
  BY DEF Init, NoSessions
<1> QED
  BY <1>1, <1>2, <1>3 DEF SessionInv

\* Pushing guards or tasks leaves a queue of numbers.
LEMMA QueueTypes ==
  ASSUME queue \in Queues, workers \in Nat
  PROVE  /\ ShutdownQueue => queue' \in Queues
         /\ MaybePushShutdownTasks => queue' \in Queues
         /\ \A k \in Kinds : Push(k) => queue' \in Queues
<1>1. ShutdownQueue => queue' \in Queues
  BY DEF ShutdownQueue, Queues, Kinds
<1>2. \A k \in Kinds : Push(k) => queue' \in Queues
  BY DEF Push, Queues, Kinds
<1> QED
  BY <1>1, <1>2 DEF MaybePushShutdownTasks

\* A step of the main thread keeps the types.
LEMMA MainTypes ==
  ASSUME SessionInv, MainStep
  PROVE  TypeOK'
<1> USE SizesAssumption DEF SizesAssumption, SessionInv
<1>w. workers \in Nat
  BY DEF TypeOK
<1>1. CASE Clear
  BY <1>1 DEF Clear, TypeOK, MainPoints, MainAt, workerVars, counterVars,
     sigVars
<1>2. CASE AcquireReadLocks
  BY <1>2 DEF AcquireReadLocks, TypeOK, MainPoints, MainAt, workerVars,
     counterVars, sigVars
<1>3. CASE CreateWorkerSessions
  BY <1>3 DEF CreateWorkerSessions, TypeOK, MainPoints, MainAt, workerVars,
     counterVars, sigVars
<1>4. CASE CreateWorkerThread
  BY <1>4 DEF CreateWorkerThread, TypeOK, MainPoints, MainAt, counterVars,
     sigVars,
     Workers, WorkerPoints, NoSessions, AllSessions, Starting
<1>5. CASE InitializeCache
  BY <1>5 DEF InitializeCache, TypeOK, MainPoints, MainAt, workerVars,
     counterVars, sigVars
<1>6. CASE CreateTask
  BY <1>6, <1>w, QueueTypes DEF CreateTask, TableTask, TypeOK, MainPoints,
     MainAt, workerVars, counterVars, sigVars, Kinds
<1>7. CASE FinishProducing
  BY <1>7 DEF FinishProducing, TypeOK, MainPoints, MainAt, workerVars,
     counterVars, sigVars
<1>8. CASE MainMaybeShutdown
  BY <1>8, <1>w, QueueTypes DEF MainMaybeShutdown, TypeOK, MainPoints, MainAt,
     workerVars, counterVars, sigVars
<1>9. CASE WaitForAllTasks
  BY <1>9 DEF WaitForAllTasks, TypeOK, MainPoints, MainAt, workerVars,
     counterVars, sigVars
<1>10. CASE Finalize
  BY <1>10 DEF Finalize, TypeOK, MainPoints, MainAt, workerVars, counterVars,
     sigVars
<1>11. CASE Rethrow
  BY <1>11 DEF Rethrow, TypeOK, MainPoints, MainAt, workerVars, counterVars,
     sigVars
<1>12. CASE CloseSession
  BY <1>12 DEF CloseSession, TypeOK, MainPoints, MainAt, workerVars,
     counterVars, sigVars
<1>13. CASE SessionsClosed
  BY <1>13 DEF SessionsClosed, TypeOK, MainPoints, MainAt, workerVars,
     counterVars, sigVars
<1>14. CASE Finish
  BY <1>14 DEF Finish, TypeOK, MainPoints, MainAt, workerVars, counterVars,
     sigVars
<1>15. CASE MainThrows
  BY <1>15 DEF MainThrows, TypeOK, MainPoints, MainAt, workerVars, counterVars,
     sigVars
<1>16. CASE KillWorkers
  BY <1>16 DEF KillWorkers, TypeOK, MainPoints, MainAt, workerVars,
     counterVars, sigVars
<1>17. CASE KillGuards
  BY <1>17, <1>w, QueueTypes DEF KillGuards, TypeOK, MainPoints, MainAt,
     workerVars, counterVars, sigVars
<1> QED
  BY <1>1, <1>2, <1>3, <1>4, <1>5, <1>6, <1>7, <1>8, <1>9, <1>10, <1>11, <1>12,
     <1>13, <1>14, <1>15, <1>16, <1>17 DEF MainStep

\* A step of a worker keeps the types.
LEMMA WorkerTypes ==
  ASSUME SessionInv, NEW w \in Workers, WorkerStep(w)
  PROVE  TypeOK'
<1> USE SizesAssumption DEF SizesAssumption, SessionInv
<1>w. workers \in Nat
  BY DEF TypeOK
<1>1. CASE Pop(w)
  BY <1>1 DEF Pop, TypeOK, At, Goto, WorkerPoints, mainVars, counterVars,
     sigVars, FirstQueue, Queues, Kinds
<1>2. CASE CheckPopped(w)
  BY <1>2 DEF CheckPopped, TypeOK, At, Goto, WorkerPoints, mainVars,
     counterVars, sigVars
<1>3. CASE TakeSession(w)
  BY <1>3 DEF TakeSession, TypeOK, At, Goto, WorkerPoints, mainVars,
     counterVars, sigVars
<1>4. CASE CheckSession(w)
  BY <1>4 DEF CheckSession, TypeOK, At, Goto, WorkerPoints, mainVars,
     counterVars, sigVars
<1>5. CASE WriteFile(w)
  BY <1>5 DEF WriteFile, TypeOK, At, Goto, WorkerPoints, mainVars, counterVars,
     sigVars
<1>6. CASE MaybeDdlDumpFinished(w)
  BY <1>6 DEF MaybeDdlDumpFinished, TypeOK, At, Goto, WorkerPoints, mainVars,
     counterVars, sigVars
<1>7. CASE ProduceChunk(w)
  BY <1>7 DEF ProduceChunk, TypeOK, At, Goto, WorkerPoints, mainVars,
     counterVars, sigVars, PushChecksumTask, Push, Queues, Kinds
<1>8. CASE ChunkingEnds(w)
  BY <1>8 DEF ChunkingEnds, TypeOK, At, Goto, WorkerPoints, mainVars,
     counterVars, sigVars, PushChecksumTask, Push, Queues, Kinds
<1>9. CASE CountChunking(w)
  BY <1>9 DEF CountChunking, TypeOK, At, Goto, WorkerPoints, mainVars,
     counterVars, sigVars
<1>10. CASE WorkerMaybeShutdown(w)
  BY <1>10, <1>w, QueueTypes DEF WorkerMaybeShutdown, TypeOK, At, Goto,
     WorkerPoints, mainVars, counterVars, sigVars
<1>11. CASE WriteRows(w)
  BY <1>11 DEF WriteRows, TypeOK, At, Goto, WorkerPoints, mainVars,
     counterVars, sigVars
<1>12. CASE FinishWriting(w)
  BY <1>12 DEF FinishWriting, TypeOK, At, Goto, WorkerPoints, mainVars,
     counterVars, sigVars
<1>13. CASE ComputeChecksum(w)
  BY <1>13 DEF ComputeChecksum, TypeOK, At, Goto, WorkerPoints, mainVars,
     counterVars, sigVars
<1>14. CASE Leave(w)
  BY <1>14 DEF Leave, TypeOK, At, Goto, WorkerPoints, mainVars, counterVars,
     sigVars, ReleaseSession
<1>15. CASE Loop(w)
  BY <1>15 DEF Loop, TypeOK, At, Goto, WorkerPoints, mainVars, counterVars,
     sigVars
<1>16. CASE Throw(w)
  BY <1>16 DEF Throw, TypeOK, At, Goto, WorkerPoints, mainVars, counterVars,
     sigVars, ReleaseSession
<1>17. CASE HandleException(w)
  BY <1>17 DEF HandleException, TypeOK, At, Goto, WorkerPoints, mainVars,
     counterVars, sigVars
<1>18. CASE EmergencyShutdown(w)
  BY <1>18 DEF EmergencyShutdown, TypeOK, At, Goto, WorkerPoints, mainVars,
     counterVars, sigVars
<1>19. CASE EmergencyGuards(w)
  BY <1>19, <1>w, QueueTypes DEF EmergencyGuards, TypeOK, At, Goto,
     WorkerPoints, mainVars, counterVars, sigVars
<1>20. CASE PushDataTask(w)
  BY <1>20, <1>w, QueueTypes DEF PushDataTask, TypeOK, At, Goto, WorkerPoints,
     mainVars, counterVars, sigVars, Kinds
<1> QED
  BY <1>1, <1>2, <1>3, <1>4, <1>5, <1>6, <1>7, <1>8, <1>9, <1>10, <1>11, <1>12,
     <1>13, <1>14, <1>15, <1>16, <1>17, <1>18, <1>19, <1>20 DEF WorkerStep

\* The signal handler keeps the types.
LEMMA SignalTypes ==
  ASSUME SessionInv, Interrupt \/ Abort \/ AbortGuards
  PROVE  TypeOK'
<1> USE SizesAssumption DEF SizesAssumption, SessionInv
<1>1. CASE Interrupt
  BY <1>1 DEF Interrupt, TypeOK, mainVars, workerVars, counterVars
<1>2. CASE Abort
  BY <1>2 DEF Abort, TypeOK, mainVars, workerVars, counterVars
<1>3. CASE AbortGuards
  <2>1. queue \in Queues /\ workers \in Nat
    BY DEF TypeOK
  <2> QED
    BY <1>3, <2>1, QueueTypes DEF AbortGuards, TypeOK, mainVars, workerVars,
       counterVars
<1> QED
  BY <1>1, <1>2, <1>3

\* A step of the main thread that leaves the sessions and the workers alone.
LEMMA MainFrame ==
  ASSUME SessionInv, UNCHANGED <<pool, closed, holds, wpc, workers>>,
         \/ main' \in {"start", "lock", "sessions"}
              /\ main \in {"start", "lock", "sessions"}
         \/ main' \in {"final", "catch", "kill", "killjoin", "done"}
         \/ main \notin {"start", "lock", "sessions", "final", "catch", "kill",
                          "killjoin", "done"}
              /\ main' \notin {"start", "lock", "sessions", "threads"}
  PROVE  Borrowed' /\ (NoSessions' \/ AllSessions')
<1>1. Borrowed'
  BY DEF SessionInv, Borrowed, Working
<1>2. CASE NoSessions
  BY <1>1, <1>2 DEF NoSessions
<1>3. CASE AllSessions
  BY <1>1, <1>3 DEF AllSessions, Starting, Open
<1> QED
  BY <1>1, <1>2, <1>3 DEF SessionInv

\* A step of the main thread keeps the sessions.
LEMMA MainSessions ==
  ASSUME SessionInv, MainStep
  PROVE  Borrowed' /\ (NoSessions' \/ AllSessions')
<1> USE SizesAssumption DEF SizesAssumption
<1>1. CASE Clear
  BY <1>1, MainFrame DEF Clear, MainAt, workerVars
<1>2. CASE AcquireReadLocks
  BY <1>2, MainFrame DEF AcquireReadLocks, MainAt, workerVars
<1>3. CASE CreateWorkerSessions
  <2>1. NoSessions
    BY <1>3 DEF SessionInv, AllSessions, CreateWorkerSessions, MainAt
  <2>2. Cardinality({}) = 0
    BY FS_EmptySet
  <2>3. Borrowed'
    BY <1>3 DEF SessionInv, Borrowed, Working, CreateWorkerSessions, workerVars
  <2>4. AllSessions'
    BY <1>3, <2>1, <2>2 DEF NoSessions, AllSessions, Starting, Open,
       CreateWorkerSessions, MainAt, workerVars
  <2> QED
    BY <2>3, <2>4
<1>4. CASE CreateWorkerThread
  <2>1. AllSessions
    BY <1>4 DEF SessionInv, NoSessions, CreateWorkerThread, MainAt
  <2>2. workers + 1 \in Workers /\ workers \in Nat
    BY <1>4, <2>1 DEF SessionInv, TypeOK, AllSessions, Starting,
       CreateWorkerThread, MainAt, Workers
  <2>3. AllSessions'
    BY <1>4, <2>1, <2>2 DEF SessionInv, TypeOK, AllSessions, Starting, Open,
       CreateWorkerThread, MainAt, Workers
  <2>4. Borrowed'
    BY <1>4, <2>1, <2>2 DEF SessionInv, TypeOK, Borrowed, Working,
       AllSessions, Starting, CreateWorkerThread, MainAt
  <2> QED
    BY <2>3, <2>4
<1>5. CASE InitializeCache
  BY <1>5, MainFrame DEF InitializeCache, MainAt, workerVars
<1>6. CASE CreateTask
  <2>1. Borrowed'
    BY <1>6 DEF SessionInv, Borrowed, Working, CreateTask, workerVars
  <2>2. AllSessions
    BY <1>6 DEF SessionInv, NoSessions, CreateTask
  <2>3. AllSessions'
    BY <1>6, <2>2 DEF AllSessions, Starting, Open, CreateTask, workerVars
  <2> QED
    BY <2>1, <2>3
<1>7. CASE FinishProducing
  BY <1>7, MainFrame DEF FinishProducing, MainAt, workerVars
<1>8. CASE MainMaybeShutdown
  BY <1>8, MainFrame DEF MainMaybeShutdown, MainAt, workerVars
<1>9. CASE WaitForAllTasks
  <2>1. Borrowed'
    BY <1>9 DEF SessionInv, Borrowed, Working, WaitForAllTasks, workerVars
  <2>2. CASE NoSessions
    BY <1>9, <2>1, <2>2 DEF NoSessions, WaitForAllTasks, MainAt, workerVars
  <2>3. CASE AllSessions
    BY <1>9, <2>1, <2>3 DEF AllSessions, Starting, Open, WaitForAllTasks,
       MainAt, workerVars
  <2> QED
    BY <2>1, <2>2, <2>3 DEF SessionInv
<1>10. CASE Finalize
  BY <1>10, MainFrame DEF Finalize, MainAt, workerVars
<1>11. CASE Rethrow
  BY <1>11, MainFrame DEF Rethrow, MainAt, workerVars
<1>12. CASE CloseSession
  <2>1. Borrowed'
    BY <1>12 DEF SessionInv, Borrowed, Working, CloseSession, workerVars
  <2>2. AllSessions
    BY <1>12 DEF SessionInv, NoSessions, CloseSession
  <2>3. pool \in Nat /\ closed \in Nat /\ Cardinality(holds) \in Nat
    BY HoldsFinite DEF SessionInv, TypeOK
  <2>4. AllSessions'
    BY <1>12, <2>2, <2>3 DEF AllSessions, Starting, Open, CloseSession,
       workerVars
  <2> QED
    BY <2>1, <2>4
<1>13. CASE SessionsClosed
  BY <1>13, MainFrame DEF SessionsClosed, MainAt, workerVars
<1>14. CASE Finish
  BY <1>14, MainFrame DEF Finish, MainAt, workerVars
<1>15. CASE MainThrows
  BY <1>15, MainFrame, FaultsAssumption DEF MainThrows, MainAt, workerVars,
     Places, FaultsAssumption
<1>16. CASE KillWorkers
  BY <1>16, MainFrame DEF KillWorkers, MainAt, workerVars
<1>17. CASE KillGuards
  BY <1>17, MainFrame DEF KillGuards, MainAt, workerVars
<1> QED
  BY <1>1, <1>2, <1>3, <1>4, <1>5, <1>6, <1>7, <1>8, <1>9, <1>10, <1>11, <1>12,
     <1>13, <1>14, <1>15, <1>16, <1>17 DEF MainStep

\* Where a worker is, a session exists: it was started after them.
LEMMA StartedAfter ==
  ASSUME SessionInv, NEW w \in Workers, wpc[w] # "none"
  PROVE  AllSessions
  BY DEF SessionInv, NoSessions

\* A step of a worker that neither takes nor gives back a session.
LEMMA WorkerFrame ==
  ASSUME SessionInv, NEW w \in Workers, wpc[w] # "none",
         NEW p, wpc' = [wpc EXCEPT ![w] = p],
         p \in Working => w \in holds,
         p \notin Working \union {"leave"} => w \notin holds,
         UNCHANGED <<mainVars, pool, holds>>
  PROVE  Borrowed' /\ AllSessions'
<1>1. AllSessions'
  BY StartedAfter DEF SessionInv, TypeOK, AllSessions, Starting, Open, mainVars
<1>2. Borrowed'
  BY DEF SessionInv, TypeOK, Borrowed
<1> QED
  BY <1>1, <1>2

\* The session of a worker goes back into the pool, if it still has one.
LEMMA Released ==
  ASSUME SessionInv, NEW w \in Workers, wpc[w] # "none", ReleaseSession(w),
         NEW p, wpc' = [wpc EXCEPT ![w] = p],
         p \notin Working,
         UNCHANGED mainVars
  PROVE  Borrowed' /\ AllSessions'
<1>1. AllSessions
  BY StartedAfter
<1>2. holds \in SUBSET Workers /\ pool \in Nat /\ closed \in Nat
  BY DEF SessionInv, TypeOK
<1>3. Cardinality(holds) \in Nat
  BY <1>2, HoldsFinite
<1>4. pool' + Cardinality(holds') = pool + Cardinality(holds)
  <2>1. CASE w \in holds
    <3>1. Cardinality(holds \ {w}) = Cardinality(holds) - 1
      BY <1>2, <2>1, HoldsCount
    <3> QED
      BY <2>1, <3>1, <1>2, <1>3 DEF ReleaseSession
  <2>2. CASE w \notin holds
    BY <2>2 DEF ReleaseSession
  <2> QED
    BY <2>1, <2>2
<1>5. Cardinality(holds') \in Nat /\ pool' \in Nat
  <2>1. holds' \in SUBSET Workers
    BY <1>2 DEF ReleaseSession
  <2> QED
    BY <2>1, <1>2, HoldsFinite DEF ReleaseSession
<1>6. AllSessions'
  BY <1>1, <1>2, <1>3, <1>4, <1>5 DEF SessionInv, TypeOK, AllSessions,
     Starting, Open, mainVars
<1>7. Borrowed'
  BY DEF SessionInv, TypeOK, Borrowed, Working, ReleaseSession
<1> QED
  BY <1>6, <1>7

\* A step of a worker keeps the sessions.
LEMMA WorkerSessions ==
  ASSUME SessionInv, NEW w \in Workers, WorkerStep(w)
  PROVE  Borrowed' /\ AllSessions'
<1>1. CASE Pop(w)
  BY <1>1, WorkerFrame DEF SessionInv, Borrowed, Working, Pop, At, Goto
<1>2. CASE CheckPopped(w)
  BY <1>2, WorkerFrame DEF SessionInv, Borrowed, Working, CheckPopped, At, Goto
<1>3. CASE TakeSession(w)
  <2>1. AllSessions /\ w \notin holds
    BY <1>3, StartedAfter DEF SessionInv, Borrowed, Working, TakeSession, At
  <2>2. holds \in SUBSET Workers /\ pool \in Nat /\ closed \in Nat
    BY DEF SessionInv, TypeOK
  <2>3. Cardinality(holds \union {w}) = Cardinality(holds) + 1 /\ Cardinality(holds) \in Nat
    BY <2>1, <2>2, HoldsCount, HoldsFinite
  <2>4. AllSessions'
    BY <1>3, <2>1, <2>2, <2>3 DEF SessionInv, TypeOK, AllSessions, Starting,
       Open, TakeSession, At, Goto, mainVars
  <2>5. Borrowed'
    BY <1>3 DEF SessionInv, TypeOK, Borrowed, Working, TakeSession, At, Goto
  <2> QED
    BY <2>4, <2>5
<1>4. CASE CheckSession(w)
  BY <1>4, WorkerFrame DEF SessionInv, Borrowed, Working, CheckSession, At, Goto
<1>5. CASE WriteFile(w)
  BY <1>5, WorkerFrame DEF SessionInv, Borrowed, Working, WriteFile, At, Goto
<1>6. CASE MaybeDdlDumpFinished(w)
  BY <1>6, WorkerFrame DEF SessionInv, Borrowed, Working,
     MaybeDdlDumpFinished, At, Goto
<1>7. CASE ProduceChunk(w)
  BY <1>7, WorkerFrame DEF SessionInv, Borrowed, Working, ProduceChunk, At, Goto
<1>8. CASE ChunkingEnds(w)
  BY <1>8, WorkerFrame DEF SessionInv, Borrowed, Working, ChunkingEnds, At, Goto
<1>9. CASE CountChunking(w)
  BY <1>9, WorkerFrame DEF SessionInv, Borrowed, Working, CountChunking, At,
     Goto
<1>10. CASE WorkerMaybeShutdown(w)
  BY <1>10, WorkerFrame DEF SessionInv, Borrowed, Working,
     WorkerMaybeShutdown, At, Goto
<1>11. CASE WriteRows(w)
  <2>1. w \in holds /\ wpc[w] = "run"
    BY <1>11 DEF SessionInv, Borrowed, Working, WriteRows, At
  <2>2. CASE wpc' = [wpc EXCEPT ![w] = "leave"] /\ UNCHANGED <<holds, pool>>
    BY <1>11, <2>1, <2>2, WorkerFrame DEF Working, WriteRows
  <2>3. CASE wpc' = [wpc EXCEPT ![w] = "finish"] /\ ReleaseSession(w)
    BY <1>11, <2>1, <2>3, Released DEF Working, WriteRows
  <2> QED
    BY <1>11, <2>1, <2>2, <2>3 DEF WriteRows, At, Goto, ReleaseSession
<1>12. CASE FinishWriting(w)
  BY <1>12, WorkerFrame DEF SessionInv, Borrowed, Working, FinishWriting, At,
     Goto
<1>13. CASE ComputeChecksum(w)
  BY <1>13, WorkerFrame DEF SessionInv, Borrowed, Working, ComputeChecksum,
     At, Goto
<1>14. CASE Leave(w)
  BY <1>14, Released DEF Working, Leave, At, Goto
<1>15. CASE Loop(w)
  BY <1>15, WorkerFrame DEF SessionInv, Borrowed, Working, Loop, At, Goto
<1>16. CASE Throw(w)
  <2>1. wpc[w] # "none"
    BY <1>16, FaultsAssumption DEF Throw, Place, FaultsAssumption, Places
  <2> QED
    BY <1>16, <2>1, Released DEF Working, Throw, Goto
<1>17. CASE HandleException(w)
  BY <1>17, WorkerFrame DEF SessionInv, Borrowed, Working, HandleException,
     At, Goto
<1>18. CASE EmergencyShutdown(w)
  BY <1>18, WorkerFrame DEF SessionInv, Borrowed, Working, EmergencyShutdown,
     At, Goto
<1>19. CASE EmergencyGuards(w)
  BY <1>19, WorkerFrame DEF SessionInv, Borrowed, Working, EmergencyGuards,
     At, Goto
<1>20. CASE PushDataTask(w)
  BY <1>20, WorkerFrame DEF SessionInv, Borrowed, Working, PushDataTask, At,
     Goto
<1> QED
  BY <1>1, <1>2, <1>3, <1>4, <1>5, <1>6, <1>7, <1>8, <1>9, <1>10, <1>11, <1>12,
     <1>13, <1>14, <1>15, <1>16, <1>17, <1>18, <1>19, <1>20 DEF WorkerStep

\* The signal handler does not touch the sessions.
LEMMA SignalSessions ==
  ASSUME SessionInv, Interrupt \/ Abort \/ AbortGuards
  PROVE  Borrowed' /\ (NoSessions' \/ AllSessions')
<1>1. UNCHANGED <<mainVars, workerVars, pool>>
  BY DEF Interrupt, Abort, AbortGuards
<1> QED
  BY <1>1 DEF SessionInv, Borrowed, Working, NoSessions, AllSessions,
     Starting, Open, mainVars, workerVars

\* Sessions are accounted for in every state of a dump.
THEOREM SessionsAccounted == Spec => []SessionInv
<1>1. Init => SessionInv
  BY SessionInit
<1>2. SessionInv /\ [Next]_vars => SessionInv'
  <2> SUFFICES ASSUME SessionInv, [Next]_vars PROVE SessionInv'
    OBVIOUS
  <2>1. CASE MainStep
    BY <2>1, MainTypes, MainSessions DEF SessionInv
  <2>2. ASSUME NEW w \in Workers, WorkerStep(w) PROVE SessionInv'
    BY <2>2, WorkerTypes, WorkerSessions DEF SessionInv
  <2>3. CASE Interrupt \/ Abort \/ AbortGuards
    BY <2>3, SignalTypes, SignalSessions DEF SessionInv
  <2>4. CASE UNCHANGED vars
    BY <2>4 DEF SessionInv, TypeOK, Borrowed, NoSessions, AllSessions,
       Starting, Open, vars,
       mainVars, workerVars, counterVars, sigVars
  <2> QED
    BY <2>1, <2>2, <2>3, <2>4 DEF Next
<1> QED
  BY <1>1, <1>2, PTL DEF Spec

\* No session is lost, borrowed twice or given back twice, however tasks end: the
\* worker's scope guard, the early release of dump_table_data_impl() and the
\* clean-up of do_run() agree about every one of them.
THEOREM SessionsSafe == Spec => []SessionsConserved
<1>1. SessionInv => SessionsConserved
  <2> SUFFICES ASSUME SessionInv PROVE SessionsConserved
    OBVIOUS
  <2>1. CASE NoSessions
    BY <2>1, FS_EmptySet DEF NoSessions, SessionInv, SessionsConserved
  <2>2. CASE AllSessions
    BY <2>2 DEF AllSessions, Starting, Open, SessionInv, SessionsConserved
  <2> QED
    BY <2>1, <2>2 DEF SessionInv
<1> QED
  BY <1>1, SessionsAccounted, PTL

-----------------------------------------------------------------------------
(* What happens to the tasks.  The guards of the workers are pushed once     *)
(* everything is produced, or after an interrupt; as they are popped last, a *)
(* worker that ends leaves nothing behind.                                   *)

\* A ^C is never forgotten: none is sent before do_run() clears the flag.
Heard == "start" \notin SignalAt

\* Tasks are handed out and not finished.
Active == {"popped", "session", "check", "run", "push", "whole", "chunked",
           "finish"}

\* A chunk has been counted and is about to be pushed.
Pushes == {"push", "whole"}

Pushing == Cardinality({w \in Workers : wpc[w] \in Pushes})

Real == Kinds \ {"guard"}

Doing(k) == {w \in Workers : task[w] = k /\ wpc[w] \in Active}

Busy(k) == Cardinality(Doing(k))

Load(k) == queue[k] + Busy(k) + (IF k = "data" THEN Pushing ELSE 0)

DoneOf(k) == CASE k = "high" -> highDone
               [] k = "chunk" -> chunkDone
               [] k = "data" -> dumped
               [] OTHER -> summed

SumTotal == IF dumpData THEN (IF Checksum THEN dataTotal ELSE 0)
                         ELSE TablesPushed

TotalOf(k) == CASE k = "high" -> created - TablesPushed
                [] k = "chunk" -> ChunkTotal
                [] k = "data" -> dataTotal
                [] OTHER -> SumTotal

\* Nobody has failed, and nobody has interrupted the dump.
Calm == ~interrupt /\ \A w \in Workers : wpc[w] \notin {"threw", "emergency", "guards"}

\* A task is done, waiting or being worked on; in a calm dump none is dropped.
Account ==
  \A k \in Real : /\ DoneOf(k) + Load(k) <= TotalOf(k)
                  /\ Calm => DoneOf(k) + Load(k) = TotalOf(k)

\* What a worker is doing follows from the task it has.
Fits ==
  \A w \in Workers :
    /\ wpc[w] \in {"push", "whole", "chunked", "counted"} => task[w] = "chunk"
    /\ wpc[w] = "written" => task[w] = "high"
    /\ wpc[w] = "finish" => task[w] = "data"
    /\ wpc[w] \in {"session", "check", "run"} => task[w] # "guard"

\* Whoever shuts the dump down has raised the flag first.
Flagged ==
  /\ sig # "none" \/ signals > 0 => interrupt
  /\ main = "start" => ~interrupt
  /\ main \in {"kill", "killjoin"} => interrupt
  /\ \A w \in Workers : wpc[w] = "guards" => interrupt

GuardTaken(w) == wpc[w] = "exit" \/ (wpc[w] = "popped" /\ task[w] = "guard")

\* Guards are pushed when everything was produced, and taken when nothing waits.
GuardsLast ==
  ~interrupt =>
    /\ queue["guard"] > 0 \/ (\E w \in Workers : GuardTaken(w))
         => produced /\ (dumpData => chunkDone = NumTables)
    /\ (\E w \in Workers : GuardTaken(w)) => \A k \in Real : queue[k] = 0

Phases ==
  /\ produced => /\ created = NumHigh + NumTables
                 /\ main \notin {"start", "lock", "sessions", "threads", "init",
                                 "prepare", "tasks"}
  /\ main \in {"init", "prepare", "tasks", "maybe", "join"} => workers = NumWorkers
  /\ main \in {"finalize", "rethrow", "cleanup"} \/ doneFile
       => \A w \in Workers : wpc[w] = "exit"
  /\ doneFile => main \in {"rethrow", "cleanup", "unwind", "final", "catch",
                           "kill", "killjoin", "done"}

Outcome ==
  /\ doneFile => EverythingDumped /\ (NumHigh > 0 => validated)
  /\ Calm /\ NumHigh > 0 /\ highDone = NumHigh
       => validated \/ \E w \in Workers : wpc[w] = "written"
  /\ ~interrupt /\ main \in {"rethrow", "cleanup", "final"} => doneFile
  /\ ~interrupt /\ main \in {"cleanup", "final"} => failed = {}
  /\ result = "ok" => main = "done" /\ doneFile /\ failed = {}

TaskInv == Fits /\ Flagged /\ Account /\ GuardsLast /\ Phases /\ Outcome

-----------------------------------------------------------------------------
\* The tasks that are being worked on can be counted.
LEMMA BusyCounted ==
  ASSUME NEW k
  PROVE  Busy(k) \in Nat /\ Busy(k)' \in Nat
<1>1. Doing(k) \in SUBSET Workers /\ Doing(k)' \in SUBSET Workers
  BY DEF Doing, Workers
<1>2. Cardinality(Doing(k)) \in Nat /\ Cardinality(Doing(k)') \in Nat
  BY <1>1, HoldsFinite
<1> QED
  BY <1>2 DEF Busy

\* A worker that goes on keeps its task, or is done with it.
LEMMA BusyStep ==
  ASSUME NEW w \in Workers, \A v \in Workers \ {w} : wpc'[v] = wpc[v], UNCHANGED task
  PROVE  /\ (wpc'[w] \in Active <=> wpc[w] \in Active)
              => \A k \in Kinds : Busy(k)' = Busy(k)
         /\ wpc[w] \in Active /\ wpc'[w] \notin Active
              => \A k \in Kinds : Busy(k)' = IF k = task[w] THEN Busy(k) - 1 ELSE Busy(k)
<1>2. (wpc'[w] \in Active <=> wpc[w] \in Active) => \A k \in Kinds : Doing(k)' = Doing(k)
  BY DEF Doing
<1>3. ASSUME wpc[w] \in Active, wpc'[w] \notin Active, NEW k \in Kinds, task[w] # k
      PROVE  Doing(k)' = Doing(k)
  BY <1>3 DEF Doing
<1>4. ASSUME wpc[w] \in Active, wpc'[w] \notin Active, NEW k \in Kinds, task[w] = k
      PROVE  Cardinality(Doing(k)') = Cardinality(Doing(k)) - 1
  <2>1. Doing(k)' = Doing(k) \ {w} /\ w \in Doing(k) /\ Doing(k) \in SUBSET Workers
    BY <1>4 DEF Doing
  <2> QED
    BY <2>1, HoldsCount
<1> QED
  BY <1>2, <1>3, <1>4 DEF Busy

\* The chunks that are about to be pushed can be counted, too.
LEMMA PushingCounted == Pushing \in Nat /\ Pushing' \in Nat
<1> DEFINE P == {w \in Workers : wpc[w] \in Pushes}
<1>1. P \in SUBSET Workers /\ P' \in SUBSET Workers
  BY DEF Workers
<1>2. Cardinality(P) \in Nat /\ Cardinality(P') \in Nat
  BY <1>1, HoldsFinite
<1> QED
  BY <1>2 DEF Pushing

\* A worker is about to push one more chunk, or has pushed it.
LEMMA PushingStep ==
  ASSUME NEW w \in Workers, \A v \in Workers \ {w} : wpc'[v] = wpc[v]
  PROVE  /\ (wpc'[w] \in Pushes <=> wpc[w] \in Pushes) => Pushing' = Pushing
         /\ wpc[w] \notin Pushes /\ wpc'[w] \in Pushes => Pushing' = Pushing + 1
         /\ wpc[w] \in Pushes /\ wpc'[w] \notin Pushes => Pushing' = Pushing - 1
<1> DEFINE P == {v \in Workers : wpc[v] \in Pushes}
           Q == {v \in Workers : wpc'[v] \in Pushes}
<1>0. Pushing = Cardinality(P) /\ Pushing' = Cardinality(Q)
  BY DEF Pushing
<1>a. P \in SUBSET Workers /\ (w \in P <=> wpc[w] \in Pushes)
  OBVIOUS
<1>1. (wpc'[w] \in Pushes <=> wpc[w] \in Pushes) => Q = P
  OBVIOUS
<1>2. wpc[w] \notin Pushes /\ wpc'[w] \in Pushes => Q = P \union {w}
  OBVIOUS
<1>3. wpc[w] \in Pushes /\ wpc'[w] \notin Pushes => Q = P \ {w}
  OBVIOUS
<1> HIDE DEF P, Q
<1> QED
  BY <1>0, <1>a, <1>1, <1>2, <1>3, HoldsCount

\* A task that is popped is not lost on the way to the worker.
LEMMA BusyPop ==
  ASSUME SessionInv, NEW w \in Workers, wpc[w] = "pop", NEW k \in Kinds,
         wpc' = [wpc EXCEPT ![w] = "popped"], task' = [task EXCEPT ![w] = k]
  PROVE  \A j \in Kinds : Busy(j)' = IF j = k THEN Busy(j) + 1 ELSE Busy(j)
<1>1. wpc \in [Workers -> WorkerPoints] /\ task \in [Workers -> Kinds]
  BY DEF SessionInv, TypeOK
<1>2. \A j \in Kinds : j # k => Doing(j)' = Doing(j)
  BY <1>1 DEF Doing, Active
<1>3. Doing(k)' = Doing(k) \union {w} /\ w \notin Doing(k) /\ Doing(k) \in SUBSET Workers
  BY <1>1 DEF Doing, Active
<1>4. Cardinality(Doing(k)') = Cardinality(Doing(k)) + 1
  BY <1>3, HoldsCount
<1> QED
  BY <1>2, <1>4 DEF Busy

\* The numbers of waiting tasks are natural numbers.
LEMMA Numbers ==
  ASSUME TypeOK
  PROVE  /\ \A k \in Kinds : queue[k] \in Nat
         /\ workers \in Nat /\ created \in Nat
         /\ NumHigh \in Nat /\ NumTables \in Nat /\ TablesPushed \in Nat
         /\ ChunkTotal \in Nat /\ SumTotal \in Nat
         /\ highDone \in Nat /\ chunkDone \in Nat /\ dataTotal \in Nat
         /\ dumped \in Nat /\ summed \in Nat
  BY SizesAssumption DEF SizesAssumption, TypeOK, Queues, ChunkTotal,
     TablesPushed, SumTotal

\* There is nothing to do, and nobody to do it, when run() begins.
LEMMA TaskInit == Init => TaskInv
<1> SUFFICES ASSUME Init PROVE TaskInv
  OBVIOUS
<1> USE SizesAssumption DEF SizesAssumption
<1>1. \A k \in Kinds : Busy(k) = 0
  <2>1. \A k \in Kinds : Doing(k) = {}
    BY DEF Init, Doing, Active
  <2> QED
    BY <2>1, FS_EmptySet DEF Busy
<1>p. Pushing = 0
  <2>1. {w \in Workers : wpc[w] \in Pushes} = {}
    BY DEF Init, Pushes
  <2> QED
    BY <2>1, FS_EmptySet DEF Pushing
<1>2. Account
  BY <1>1, <1>p DEF Init, Account, Real, Kinds, Load, DoneOf, TotalOf,
     ChunkTotal, TablesPushed, SumTotal
<1>3. Fits /\ Flagged
  BY DEF Init, Fits, Flagged
<1>4. GuardsLast
  BY DEF Init, GuardsLast, GuardTaken, Kinds
<1>5. Phases
  BY DEF Init, Phases
<1>6. Outcome
  BY DEF Init, Outcome
<1> QED
  BY <1>2, <1>3, <1>4, <1>5, <1>6 DEF TaskInv

\* A thread that has ended takes no step, and neither does one that is not there.
LEMMA OnlyRunningStep ==
  ASSUME NEW w \in Workers, WorkerStep(w)
  PROVE  wpc[w] \notin {"none", "exit"}
<1>1. CASE Pop(w)
  BY <1>1 DEF Pop, At
<1>2. CASE CheckPopped(w)
  BY <1>2 DEF CheckPopped, At
<1>3. CASE TakeSession(w)
  BY <1>3 DEF TakeSession, At
<1>4. CASE CheckSession(w)
  BY <1>4 DEF CheckSession, At
<1>5. CASE WriteFile(w)
  BY <1>5 DEF WriteFile, At
<1>6. CASE MaybeDdlDumpFinished(w)
  BY <1>6 DEF MaybeDdlDumpFinished, At
<1>7. CASE ProduceChunk(w)
  BY <1>7 DEF ProduceChunk, At
<1>8. CASE ChunkingEnds(w)
  BY <1>8 DEF ChunkingEnds, At
<1>9. CASE CountChunking(w)
  BY <1>9 DEF CountChunking, At
<1>10. CASE WorkerMaybeShutdown(w)
  BY <1>10 DEF WorkerMaybeShutdown, At
<1>11. CASE WriteRows(w)
  BY <1>11 DEF WriteRows, At
<1>12. CASE FinishWriting(w)
  BY <1>12 DEF FinishWriting, At
<1>13. CASE ComputeChecksum(w)
  BY <1>13 DEF ComputeChecksum, At
<1>14. CASE Leave(w)
  BY <1>14 DEF Leave, At
<1>15. CASE Loop(w)
  BY <1>15 DEF Loop, At
<1>16. CASE Throw(w)
  BY <1>16, FaultsAssumption DEF Throw, At, Place, FaultsAssumption, Places
<1>17. CASE HandleException(w)
  BY <1>17 DEF HandleException, At
<1>18. CASE EmergencyShutdown(w)
  BY <1>18 DEF EmergencyShutdown, At
<1>19. CASE EmergencyGuards(w)
  BY <1>19 DEF EmergencyGuards, At
<1>20. CASE PushDataTask(w)
  BY <1>20 DEF PushDataTask, At
<1> QED
  BY <1>1, <1>2, <1>3, <1>4, <1>5, <1>6, <1>7, <1>8, <1>9, <1>10, <1>11,
     <1>12, <1>13, <1>14, <1>15, <1>16, <1>17, <1>18, <1>19, <1>20 DEF
     WorkerStep

\* A worker does what its task asks for, and raises the flag before it shuts the
\* dump down.
LEMMA WorkerControl ==
  ASSUME SessionInv, Fits, Flagged, Phases, NEW w \in Workers, WorkerStep(w)
  PROVE  Fits' /\ Flagged' /\ Phases'
<1> USE DEF SessionInv, TypeOK, Fits, Flagged, Phases, At, Goto, mainVars, sigVars
<1>0. wpc[w] # "exit" /\ main # "start"
  BY OnlyRunningStep, StartedAfter DEF AllSessions
<1>1. CASE Pop(w)
  BY <1>0, <1>1 DEF Pop
<1>2. CASE CheckPopped(w)
  BY <1>0, <1>2 DEF CheckPopped
<1>3. CASE TakeSession(w)
  BY <1>0, <1>3 DEF TakeSession
<1>4. CASE CheckSession(w)
  BY <1>0, <1>4 DEF CheckSession
<1>5. CASE WriteFile(w)
  BY <1>0, <1>5 DEF WriteFile
<1>6. CASE MaybeDdlDumpFinished(w)
  BY <1>0, <1>6 DEF MaybeDdlDumpFinished
<1>7. CASE ProduceChunk(w)
  BY <1>0, <1>7 DEF ProduceChunk
<1>8. CASE ChunkingEnds(w)
  BY <1>0, <1>8 DEF ChunkingEnds
<1>9. CASE CountChunking(w)
  BY <1>0, <1>9 DEF CountChunking
<1>10. CASE WorkerMaybeShutdown(w)
  BY <1>0, <1>10 DEF WorkerMaybeShutdown
<1>11. CASE WriteRows(w)
  BY <1>0, <1>11 DEF WriteRows
<1>12. CASE FinishWriting(w)
  BY <1>0, <1>12 DEF FinishWriting
<1>13. CASE ComputeChecksum(w)
  BY <1>0, <1>13 DEF ComputeChecksum
<1>14. CASE Leave(w)
  BY <1>0, <1>14 DEF Leave
<1>15. CASE Loop(w)
  BY <1>0, <1>15 DEF Loop
<1>16. CASE Throw(w)
  BY <1>0, <1>16, FaultsAssumption DEF Throw, Place, FaultsAssumption, Places
<1>17. CASE HandleException(w)
  BY <1>0, <1>17 DEF HandleException
<1>18. CASE EmergencyShutdown(w)
  BY <1>0, <1>18 DEF EmergencyShutdown
<1>19. CASE EmergencyGuards(w)
  BY <1>0, <1>19 DEF EmergencyGuards
<1>20. CASE PushDataTask(w)
  BY <1>0, <1>20 DEF PushDataTask
<1> QED
  BY <1>1, <1>2, <1>3, <1>4, <1>5, <1>6, <1>7, <1>8, <1>9, <1>10, <1>11,
     <1>12, <1>13, <1>14, <1>15, <1>16, <1>17, <1>18, <1>19, <1>20 DEF
     WorkerStep

\* A step that neither creates nor finishes a task, and drops one only in a dump
\* that is not calm.
LEMMA AccountFrame ==
  ASSUME SessionInv, Account, UNCHANGED <<counterVars, created>>,
         \A k \in Real : queue'[k] = queue[k],
         Calm' => Calm, Pushing' = Pushing,
         \A k \in Real : Busy(k)' <= Busy(k) /\ (Calm' => Busy(k)' = Busy(k))
  PROVE  Account'
<1>1. \A k \in Real : Busy(k) \in Nat /\ Busy(k)' \in Nat
  BY BusyCounted
<1>2. \A k \in Real : DoneOf(k)' = DoneOf(k) /\ TotalOf(k)' = TotalOf(k)
  BY DEF counterVars, DoneOf, TotalOf, ChunkTotal, TablesPushed, SumTotal
<1>3. \A k \in Real : DoneOf(k) \in Nat /\ TotalOf(k) \in Int /\ queue[k] \in Nat
  BY Numbers DEF SessionInv, DoneOf, TotalOf, Real
<1>4. ASSUME NEW k \in Real
      PROVE  /\ DoneOf(k)' + Load(k)' <= TotalOf(k)'
             /\ Calm' => DoneOf(k)' + Load(k)' = TotalOf(k)'
  <2>1. DoneOf(k) + Load(k) <= TotalOf(k) /\ (Calm => DoneOf(k) + Load(k) = TotalOf(k))
    BY DEF Account
  <2>2. /\ DoneOf(k)' = DoneOf(k) /\ TotalOf(k)' = TotalOf(k)
        /\ DoneOf(k) \in Nat /\ TotalOf(k) \in Int
    BY <1>2, <1>3
  <2>3. /\ Load(k) \in Nat /\ Load(k)' \in Nat /\ Load(k)' <= Load(k)
        /\ (Calm' => Load(k)' = Load(k))
    BY <1>1, <1>3, PushingCounted DEF Load
  <2>4. DoneOf(k)' + Load(k)' <= TotalOf(k)'
    BY <2>1, <2>2, <2>3
  <2>5. ASSUME Calm' PROVE DoneOf(k)' + Load(k)' = TotalOf(k)'
    BY <2>1, <2>2, <2>3, <2>5
  <2> QED
    BY <2>4, <2>5
<1> QED
  BY <1>4 DEF Account

\* Once a worker has failed the dump is never calm again.
LEMMA CalmBefore ==
  ASSUME SessionInv, Flagged, NEW w \in Workers, WorkerStep(w), Calm'
  PROVE  Calm
<1> USE DEF SessionInv, TypeOK, Flagged, Calm, At, Goto
<1>1. CASE Pop(w)
  BY <1>1 DEF Pop
<1>2. CASE CheckPopped(w)
  BY <1>2 DEF CheckPopped
<1>3. CASE TakeSession(w)
  BY <1>3 DEF TakeSession
<1>4. CASE CheckSession(w)
  BY <1>4 DEF CheckSession
<1>5. CASE WriteFile(w)
  BY <1>5 DEF WriteFile
<1>6. CASE MaybeDdlDumpFinished(w)
  BY <1>6 DEF MaybeDdlDumpFinished
<1>7. CASE ProduceChunk(w)
  BY <1>7 DEF ProduceChunk
<1>8. CASE ChunkingEnds(w)
  BY <1>8 DEF ChunkingEnds
<1>9. CASE CountChunking(w)
  BY <1>9 DEF CountChunking
<1>10. CASE WorkerMaybeShutdown(w)
  BY <1>10 DEF WorkerMaybeShutdown
<1>11. CASE WriteRows(w)
  BY <1>11 DEF WriteRows
<1>12. CASE FinishWriting(w)
  BY <1>12 DEF FinishWriting
<1>13. CASE ComputeChecksum(w)
  BY <1>13 DEF ComputeChecksum
<1>14. CASE Leave(w)
  BY <1>14 DEF Leave
<1>15. CASE Loop(w)
  BY <1>15 DEF Loop
<1>16. CASE Throw(w)
  BY <1>16, FaultsAssumption DEF Throw, Place, FaultsAssumption, Places
<1>17. CASE HandleException(w)
  BY <1>17 DEF HandleException
<1>18. CASE EmergencyShutdown(w)
  BY <1>18 DEF EmergencyShutdown
<1>19. CASE EmergencyGuards(w)
  BY <1>19 DEF EmergencyGuards
<1>20. CASE PushDataTask(w)
  BY <1>20 DEF PushDataTask
<1> QED
  BY <1>1, <1>2, <1>3, <1>4, <1>5, <1>6, <1>7, <1>8, <1>9, <1>10, <1>11,
     <1>12, <1>13, <1>14, <1>15, <1>16, <1>17, <1>18, <1>19, <1>20 DEF
     WorkerStep

\* Guards are not tasks.
LEMMA GuardsOnly ==
  ASSUME SessionInv, ShutdownQueue \/ MaybePushShutdownTasks
  PROVE  \A k \in Real : queue'[k] = queue[k]
  BY DEF SessionInv, TypeOK, Queues, Real, ShutdownQueue, MaybePushShutdownTasks

\* A table that is being chunked has been counted by nobody yet.
LEMMA ChunkPending ==
  ASSUME SessionInv, Account, NEW w \in Workers, task[w] = "chunk", wpc[w] \in Active
  PROVE  dumpData /\ chunkDone < NumTables
<1>1. Busy("chunk") >= 1
  <2>1. w \in Doing("chunk") /\ Doing("chunk") \in SUBSET Workers
    BY DEF Doing
  <2>2. Cardinality(Doing("chunk") \ {w}) = Cardinality(Doing("chunk")) - 1
    BY <2>1, HoldsCount
  <2>3. Cardinality(Doing("chunk") \ {w}) \in Nat /\ Cardinality(Doing("chunk")) \in Nat
    BY <2>1, HoldsFinite
  <2> QED
    BY <2>2, <2>3 DEF Busy
<1>2. chunkDone + queue["chunk"] + Busy("chunk") <= ChunkTotal
  <2>1. "chunk" \in Real
    BY DEF Real, Kinds
  <2>2. DoneOf("chunk") = chunkDone /\ TotalOf("chunk") = ChunkTotal
    BY DEF DoneOf, TotalOf
  <2>3. queue["chunk"] \in Nat /\ chunkDone \in Nat /\ Busy("chunk") \in Nat
    BY Numbers, BusyCounted DEF SessionInv, Kinds
  <2> QED
    BY <2>1, <2>2, <2>3 DEF Account, Load
<1>3. ChunkTotal <= NumTables /\ queue["chunk"] \in Nat /\ chunkDone \in Nat
      /\ Busy("chunk") \in Nat /\ ChunkTotal \in Nat /\ NumTables \in Nat
  BY Numbers, BusyCounted DEF SessionInv, TypeOK, ChunkTotal, TablesPushed,
     Kinds
<1> QED
  BY <1>1, <1>2, <1>3 DEF ChunkTotal

\* A chunk that is counted is about to be pushed; its checksum is, too.
LEMMA ChunkCounted ==
  ASSUME SessionInv, Fits, Flagged, Account, NEW w \in Workers, WorkerStep(w),
         UNCHANGED <<task, dumpData, highDone, chunkDone, dumped, summed, created>>,
         \A v \in Workers \ {w} : wpc'[v] = wpc[v], task[w] = "chunk",
         wpc[w] \in Active, wpc'[w] \in Active,
         Pushing' = Pushing + 1, PushChecksumTask
  PROVE  Account'
<1>a. \A k \in Real : k \in Kinds /\ Busy(k) \in Nat /\ Busy(k)' = Busy(k)
  BY BusyCounted, BusyStep DEF Real
<1>b. (Calm' => Calm) /\ dumpData
  BY CalmBefore, ChunkPending
<1>c. /\ queue \in Queues /\ highDone \in Nat /\ chunkDone \in Nat /\ dataTotal \in Nat
      /\ dumped \in Nat /\ summed \in Nat /\ TablesPushed \in Nat /\ created \in Nat
      /\ Pushing \in Nat
  BY Numbers, PushingCounted DEF SessionInv, TypeOK
<1>1. \A k \in Real : Load(k) \in Nat /\ DoneOf(k) \in Nat /\ TotalOf(k) \in Int
  BY <1>a, <1>b, <1>c DEF Load, DoneOf, TotalOf, ChunkTotal, SumTotal, Queues
<1>2. TablesPushed' = TablesPushed /\ ChunkTotal' = ChunkTotal
  BY DEF TablesPushed, ChunkTotal
<1>3. \A k \in Real : DoneOf(k)' = DoneOf(k)
  BY DEF DoneOf
<1>4. queue' = [queue EXCEPT !["sum"] = IF Checksum THEN @ + 1 ELSE @]
  BY <1>c DEF PushChecksumTask, Push, Queues
<1>5. \A k \in Real : /\ Load(k)' = Load(k) + (TotalOf(k)' - TotalOf(k))
                       /\ TotalOf(k)' \in Int
  <2>1. CASE Checksum
    BY <1>a, <1>b, <1>c, <1>2, <1>4, <2>1 DEF PushChecksumTask, Load, TotalOf,
       ChunkTotal, SumTotal, Real, Kinds, Queues
  <2>2. CASE ~Checksum
    BY <1>a, <1>b, <1>c, <1>2, <1>4, <2>2 DEF PushChecksumTask, Load, TotalOf,
       ChunkTotal, SumTotal, Real, Kinds, Queues
  <2> QED
    BY <2>1, <2>2
<1> QED
  BY <1>b, <1>1, <1>3, <1>5 DEF Account

\* A step of a worker keeps the account of the tasks.
LEMMA WorkerAccount ==
  ASSUME SessionInv, Fits, Flagged, Account, NEW w \in Workers, WorkerStep(w)
  PROVE  Account'
<1>a. \A k \in Real : k \in Kinds /\ Busy(k) \in Nat /\ Busy(k)' \in Nat
  BY BusyCounted DEF Real
<1>b. Calm' => Calm
  BY CalmBefore
<1>c. /\ queue \in Queues /\ highDone \in Nat /\ chunkDone \in Nat /\ dataTotal \in Nat
      /\ dumped \in Nat /\ summed \in Nat /\ ChunkTotal \in Nat /\ created \in Nat
  BY Numbers DEF SessionInv, TypeOK
<1>d. task \in [Workers -> Kinds] /\ wpc \in [Workers -> WorkerPoints]
  BY DEF SessionInv, TypeOK
<1>e. Pushing \in Nat /\ Pushing' \in Nat
  BY PushingCounted
<1>f. SumTotal \in Nat /\ TablesPushed \in Nat
  BY Numbers DEF SessionInv
<1> USE DEF At, Goto
<1>1. CASE Pop(w)
  <2>1. PICK k \in Kinds : /\ queue[k] > 0 /\ wpc[w] = "pop"
                           /\ wpc' = [wpc EXCEPT ![w] = "popped"]
                           /\ task' = [task EXCEPT ![w] = k]
                           /\ queue' = [queue EXCEPT ![k] = @ - 1]
    BY <1>1 DEF Pop, FirstQueue
  <2>2. \A j \in Kinds : Busy(j)' = IF j = k THEN Busy(j) + 1 ELSE Busy(j)
    BY <2>1, BusyPop
  <2>5. Pushing' = Pushing
    <3>1. \A v \in Workers \ {w} : wpc'[v] = wpc[v]
      BY <1>d, <2>1
    <3>2. wpc[w] \notin Pushes /\ wpc'[w] \notin Pushes
      BY <1>d, <2>1 DEF Pushes
    <3> QED
      BY <3>1, <3>2, PushingStep
  <2>3. \A j \in Real : Load(j)' = Load(j)
    BY <1>a, <1>c, <1>e, <2>1, <2>2, <2>5 DEF Load, Queues
  <2>4. \A j \in Real : DoneOf(j)' = DoneOf(j) /\ TotalOf(j)' = TotalOf(j)
    BY <1>1 DEF Pop, counterVars, mainVars, DoneOf, TotalOf, ChunkTotal,
       TablesPushed, SumTotal
  <2> QED
    BY <1>b, <2>3, <2>4 DEF Account
<1>2. CASE CheckPopped(w)
  <2>1. \A k \in Real : queue'[k] = queue[k]
    BY <1>2 DEF CheckPopped
  <2>2. UNCHANGED <<counterVars, created>>
    BY <1>2 DEF CheckPopped, mainVars
  <2>3. UNCHANGED task /\ \A v \in Workers \ {w} : wpc'[v] = wpc[v]
    BY <1>2, <1>d DEF CheckPopped
  <2>4. \/ wpc[w] \in Active <=> wpc'[w] \in Active
        \/ wpc[w] \in Active /\ wpc'[w] \notin Active /\ (interrupt' \/ task[w] = "guard")
    BY <1>2, <1>d DEF CheckPopped, Active
  <2>5. \A k \in Real : Busy(k)' <= Busy(k) /\ (Calm' => Busy(k)' = Busy(k))
    BY <1>a, <2>3, <2>4, BusyStep DEF Calm, Real
  <2>6. Pushing' = Pushing
    BY <1>2, <1>d, <2>3, PushingStep DEF CheckPopped, Pushes
  <2> QED
    BY <1>b, <2>1, <2>2, <2>5, <2>6, AccountFrame
<1>3. CASE TakeSession(w)
  <2>1. \A k \in Real : queue'[k] = queue[k]
    BY <1>3 DEF TakeSession
  <2>2. UNCHANGED <<counterVars, created>>
    BY <1>3 DEF TakeSession, mainVars
  <2>3. UNCHANGED task /\ \A v \in Workers \ {w} : wpc'[v] = wpc[v]
    BY <1>3, <1>d DEF TakeSession
  <2>4. \/ wpc[w] \in Active <=> wpc'[w] \in Active
        \/ wpc[w] \in Active /\ wpc'[w] \notin Active /\ (interrupt' \/ task[w] = "guard")
    BY <1>3, <1>d DEF TakeSession, Active
  <2>5. \A k \in Real : Busy(k)' <= Busy(k) /\ (Calm' => Busy(k)' = Busy(k))
    BY <1>a, <2>3, <2>4, BusyStep DEF Calm, Real
  <2>6. Pushing' = Pushing
    BY <1>3, <1>d, <2>3, PushingStep DEF TakeSession, Pushes
  <2> QED
    BY <1>b, <2>1, <2>2, <2>5, <2>6, AccountFrame
<1>4. CASE CheckSession(w)
  <2>1. \A k \in Real : queue'[k] = queue[k]
    BY <1>4 DEF CheckSession
  <2>2. UNCHANGED <<counterVars, created>>
    BY <1>4 DEF CheckSession, mainVars
  <2>3. UNCHANGED task /\ \A v \in Workers \ {w} : wpc'[v] = wpc[v]
    BY <1>4, <1>d DEF CheckSession
  <2>4. \/ wpc[w] \in Active <=> wpc'[w] \in Active
        \/ wpc[w] \in Active /\ wpc'[w] \notin Active /\ (interrupt' \/ task[w] = "guard")
    BY <1>4, <1>d DEF CheckSession, Active
  <2>5. \A k \in Real : Busy(k)' <= Busy(k) /\ (Calm' => Busy(k)' = Busy(k))
    BY <1>a, <2>3, <2>4, BusyStep DEF Calm, Real
  <2>6. Pushing' = Pushing
    BY <1>4, <1>d, <2>3, PushingStep DEF CheckSession, Pushes
  <2> QED
    BY <1>b, <2>1, <2>2, <2>5, <2>6, AccountFrame
<1>5. CASE WriteFile(w)
  <2>0. /\ UNCHANGED task /\ \A v \in Workers \ {w} : wpc'[v] = wpc[v]
        /\ wpc[w] \in Active /\ wpc'[w] \notin Active
    BY <1>5, <1>d DEF WriteFile, Active
  <2>p. Pushing' = Pushing
    BY <1>5, <1>d, <2>0, PushingStep DEF WriteFile, Pushes
  <2>1. \A k \in Real : Busy(k)' = IF k = task[w] THEN Busy(k) - 1 ELSE Busy(k)
    BY <1>a, <2>0, BusyStep
  <2>2. \A k \in Real : Load(k) \in Nat /\ DoneOf(k) \in Nat /\ TotalOf(k) \in Int
    BY <1>a, <1>c, <1>e, <1>f DEF Load, DoneOf, TotalOf, Queues
  <2>3. \A k \in Real : TotalOf(k)' - DoneOf(k)' - Load(k)' = TotalOf(k) - DoneOf(k) - Load(k)
    BY <1>5, <1>a, <1>c, <1>e, <1>f, <2>1, <2>p, FaultsAssumption DEF
       WriteFile, Fits, mainVars, Load, DoneOf, TotalOf, ChunkTotal,
       TablesPushed, SumTotal, Real, Kinds, Queues, FaultsAssumption
  <2>4. \A k \in Real : Load(k)' \in Int /\ DoneOf(k)' \in Int /\ TotalOf(k)' \in Int
    BY <1>5, <1>a, <1>c, <1>e, <1>f, <2>p DEF WriteFile, Fits, mainVars, Load,
       DoneOf, TotalOf, ChunkTotal, TablesPushed, SumTotal, Real, Kinds,
       Queues
  <2> QED
    BY <1>b, <2>2, <2>3, <2>4 DEF Account
<1>6. CASE MaybeDdlDumpFinished(w)
  <2>0. /\ UNCHANGED task /\ \A v \in Workers \ {w} : wpc'[v] = wpc[v]
        /\ wpc[w] \in Active <=> wpc'[w] \in Active
    BY <1>6, <1>d DEF MaybeDdlDumpFinished, Active
  <2>p. Pushing' = Pushing
    BY <1>6, <1>d, <2>0, PushingStep DEF MaybeDdlDumpFinished, Pushes
  <2>1. \A k \in Real : Busy(k)' = Busy(k)
    BY <1>a, <2>0, BusyStep
  <2>2. \A k \in Real : DoneOf(k)' = DoneOf(k) /\ TotalOf(k)' = TotalOf(k)
    BY <1>6 DEF MaybeDdlDumpFinished, mainVars, DoneOf, TotalOf, ChunkTotal,
       TablesPushed, SumTotal
  <2>3. \A k \in Real : Load(k)' = Load(k)
    BY <1>6, <2>1, <2>p DEF MaybeDdlDumpFinished, Load
  <2> QED
    BY <1>b, <2>2, <2>3 DEF Account
<1>7. CASE ProduceChunk(w)
  <2>0. /\ UNCHANGED task /\ \A v \in Workers \ {w} : wpc'[v] = wpc[v]
        /\ wpc[w] = "run" /\ wpc'[w] = "push" /\ task[w] = "chunk"
    BY <1>7, <1>d DEF ProduceChunk
  <2>1. Pushing' = Pushing + 1
    BY <2>0, PushingStep DEF Pushes
  <2>2. UNCHANGED <<dumpData, highDone, chunkDone, dumped, summed, created>> /\ PushChecksumTask
    BY <1>7 DEF ProduceChunk, mainVars
  <2> QED
    BY <2>0, <2>1, <2>2, ChunkCounted DEF Active
<1>8. CASE ChunkingEnds(w)
  <2>0. /\ UNCHANGED <<task, dumpData, highDone, chunkDone, dumped, summed, created>>
        /\ \A v \in Workers \ {w} : wpc'[v] = wpc[v]
        /\ wpc[w] = "run" /\ task[w] = "chunk"
    BY <1>8, <1>d DEF ChunkingEnds, mainVars
  <2>1. CASE wpc'[w] = "whole" /\ PushChecksumTask
    <3>1. Pushing' = Pushing + 1
      BY <2>0, <2>1, PushingStep DEF Pushes
    <3> QED
      BY <2>0, <2>1, <3>1, ChunkCounted DEF Active
  <2>2. CASE wpc'[w] = "chunked" /\ UNCHANGED <<dataTotal, queue>>
    <3>1. Pushing' = Pushing
      BY <2>0, <2>2, PushingStep DEF Pushes
    <3>2. \A k \in Real : Busy(k)' = Busy(k)
      BY <1>a, <2>0, <2>2, BusyStep DEF Active
    <3>3. \A k \in Real : /\ Load(k)' = Load(k) /\ DoneOf(k)' = DoneOf(k)
                           /\ TotalOf(k)' = TotalOf(k)
      BY <2>0, <2>2, <3>1, <3>2 DEF Load, DoneOf, TotalOf, ChunkTotal,
         TablesPushed, SumTotal
    <3> QED
      BY <1>b, <3>3 DEF Account
  <2> QED
    BY <1>8, <1>d, <2>1, <2>2 DEF ChunkingEnds
<1>9. CASE CountChunking(w)
  <2>0. /\ UNCHANGED task /\ \A v \in Workers \ {w} : wpc'[v] = wpc[v]
        /\ wpc[w] \in Active /\ wpc'[w] \notin Active
    BY <1>9, <1>d DEF CountChunking, Active
  <2>p. Pushing' = Pushing
    BY <1>9, <1>d, <2>0, PushingStep DEF CountChunking, Pushes
  <2>1. \A k \in Real : Busy(k)' = IF k = task[w] THEN Busy(k) - 1 ELSE Busy(k)
    BY <1>a, <2>0, BusyStep
  <2>2. \A k \in Real : Load(k) \in Nat /\ DoneOf(k) \in Nat /\ TotalOf(k) \in Int
    BY <1>a, <1>c, <1>e, <1>f DEF Load, DoneOf, TotalOf, Queues
  <2>3. \A k \in Real : TotalOf(k)' - DoneOf(k)' - Load(k)' = TotalOf(k) - DoneOf(k) - Load(k)
    BY <1>9, <1>a, <1>c, <1>e, <1>f, <2>1, <2>p, FaultsAssumption DEF
       CountChunking, Fits, mainVars, Load, DoneOf, TotalOf, ChunkTotal,
       TablesPushed, SumTotal, Real, Kinds, Queues, FaultsAssumption
  <2>4. \A k \in Real : Load(k)' \in Int /\ DoneOf(k)' \in Int /\ TotalOf(k)' \in Int
    BY <1>9, <1>a, <1>c, <1>e, <1>f, <2>p DEF CountChunking, Fits, mainVars,
       Load, DoneOf, TotalOf, ChunkTotal, TablesPushed, SumTotal, Real, Kinds,
       Queues
  <2> QED
    BY <1>b, <2>2, <2>3, <2>4 DEF Account
<1>10. CASE WorkerMaybeShutdown(w)
  <2>1. \A k \in Real : queue'[k] = queue[k]
    BY <1>10, GuardsOnly DEF WorkerMaybeShutdown
  <2>2. UNCHANGED <<counterVars, created>>
    BY <1>10 DEF WorkerMaybeShutdown, mainVars
  <2>3. UNCHANGED task /\ \A v \in Workers \ {w} : wpc'[v] = wpc[v]
    BY <1>10, <1>d DEF WorkerMaybeShutdown
  <2>4. \/ wpc[w] \in Active <=> wpc'[w] \in Active
        \/ wpc[w] \in Active /\ wpc'[w] \notin Active /\ (interrupt' \/ task[w] = "guard")
    BY <1>10, <1>d DEF WorkerMaybeShutdown, Active
  <2>5. \A k \in Real : Busy(k)' <= Busy(k) /\ (Calm' => Busy(k)' = Busy(k))
    BY <1>a, <2>3, <2>4, BusyStep DEF Calm, Real
  <2>6. Pushing' = Pushing
    BY <1>10, <1>d, <2>3, PushingStep DEF WorkerMaybeShutdown, Pushes
  <2> QED
    BY <1>b, <2>1, <2>2, <2>5, <2>6, AccountFrame
<1>11. CASE WriteRows(w)
  <2>1. \A k \in Real : queue'[k] = queue[k]
    BY <1>11 DEF WriteRows
  <2>2. UNCHANGED <<counterVars, created>>
    BY <1>11 DEF WriteRows, mainVars
  <2>3. UNCHANGED task /\ \A v \in Workers \ {w} : wpc'[v] = wpc[v]
    BY <1>11, <1>d DEF WriteRows
  <2>4. \/ wpc[w] \in Active <=> wpc'[w] \in Active
        \/ wpc[w] \in Active /\ wpc'[w] \notin Active /\ (interrupt' \/ task[w] = "guard")
    BY <1>11, <1>d DEF WriteRows, Active
  <2>5. \A k \in Real : Busy(k)' <= Busy(k) /\ (Calm' => Busy(k)' = Busy(k))
    BY <1>a, <2>3, <2>4, BusyStep DEF Calm, Real
  <2>6. Pushing' = Pushing
    BY <1>11, <1>d, <2>3, PushingStep DEF WriteRows, Pushes
  <2> QED
    BY <1>b, <2>1, <2>2, <2>5, <2>6, AccountFrame
<1>12. CASE FinishWriting(w)
  <2>0. /\ UNCHANGED task /\ \A v \in Workers \ {w} : wpc'[v] = wpc[v]
        /\ wpc[w] \in Active /\ wpc'[w] \notin Active
    BY <1>12, <1>d DEF FinishWriting, Active
  <2>p. Pushing' = Pushing
    BY <1>12, <1>d, <2>0, PushingStep DEF FinishWriting, Pushes
  <2>1. \A k \in Real : Busy(k)' = IF k = task[w] THEN Busy(k) - 1 ELSE Busy(k)
    BY <1>a, <2>0, BusyStep
  <2>2. \A k \in Real : Load(k) \in Nat /\ DoneOf(k) \in Nat /\ TotalOf(k) \in Int
    BY <1>a, <1>c, <1>e, <1>f DEF Load, DoneOf, TotalOf, Queues
  <2>3. \A k \in Real : TotalOf(k)' - DoneOf(k)' - Load(k)' = TotalOf(k) - DoneOf(k) - Load(k)
    BY <1>12, <1>a, <1>c, <1>e, <1>f, <2>1, <2>p, FaultsAssumption DEF
       FinishWriting, Fits, mainVars, Load, DoneOf, TotalOf, ChunkTotal,
       TablesPushed, SumTotal, Real, Kinds, Queues, FaultsAssumption
  <2>4. \A k \in Real : Load(k)' \in Int /\ DoneOf(k)' \in Int /\ TotalOf(k)' \in Int
    BY <1>12, <1>a, <1>c, <1>e, <1>f, <2>p DEF FinishWriting, Fits, mainVars,
       Load, DoneOf, TotalOf, ChunkTotal, TablesPushed, SumTotal, Real, Kinds,
       Queues
  <2> QED
    BY <1>b, <2>2, <2>3, <2>4 DEF Account
<1>13. CASE ComputeChecksum(w)
  <2>0. /\ UNCHANGED task /\ \A v \in Workers \ {w} : wpc'[v] = wpc[v]
        /\ wpc[w] \in Active /\ wpc'[w] \notin Active
    BY <1>13, <1>d DEF ComputeChecksum, Active
  <2>p. Pushing' = Pushing
    BY <1>13, <1>d, <2>0, PushingStep DEF ComputeChecksum, Pushes
  <2>1. \A k \in Real : Busy(k)' = IF k = task[w] THEN Busy(k) - 1 ELSE Busy(k)
    BY <1>a, <2>0, BusyStep
  <2>2. \A k \in Real : Load(k) \in Nat /\ DoneOf(k) \in Nat /\ TotalOf(k) \in Int
    BY <1>a, <1>c, <1>e, <1>f DEF Load, DoneOf, TotalOf, Queues
  <2>3. \A k \in Real : TotalOf(k)' - DoneOf(k)' - Load(k)' = TotalOf(k) - DoneOf(k) - Load(k)
    BY <1>13, <1>a, <1>c, <1>e, <1>f, <2>1, <2>p, FaultsAssumption DEF
       ComputeChecksum, Fits, mainVars, Load, DoneOf, TotalOf, ChunkTotal,
       TablesPushed, SumTotal, Real, Kinds, Queues, FaultsAssumption
  <2>4. \A k \in Real : Load(k)' \in Int /\ DoneOf(k)' \in Int /\ TotalOf(k)' \in Int
    BY <1>13, <1>a, <1>c, <1>e, <1>f, <2>p DEF ComputeChecksum, Fits,
       mainVars, Load, DoneOf, TotalOf, ChunkTotal, TablesPushed, SumTotal,
       Real, Kinds, Queues
  <2> QED
    BY <1>b, <2>2, <2>3, <2>4 DEF Account
<1>14. CASE Leave(w)
  <2>1. \A k \in Real : queue'[k] = queue[k]
    BY <1>14 DEF Leave
  <2>2. UNCHANGED <<counterVars, created>>
    BY <1>14 DEF Leave, mainVars
  <2>3. UNCHANGED task /\ \A v \in Workers \ {w} : wpc'[v] = wpc[v]
    BY <1>14, <1>d DEF Leave
  <2>4. \/ wpc[w] \in Active <=> wpc'[w] \in Active
        \/ wpc[w] \in Active /\ wpc'[w] \notin Active /\ (interrupt' \/ task[w] = "guard")
    BY <1>14, <1>d DEF Leave, Active
  <2>5. \A k \in Real : Busy(k)' <= Busy(k) /\ (Calm' => Busy(k)' = Busy(k))
    BY <1>a, <2>3, <2>4, BusyStep DEF Calm, Real
  <2>6. Pushing' = Pushing
    BY <1>14, <1>d, <2>3, PushingStep DEF Leave, Pushes
  <2> QED
    BY <1>b, <2>1, <2>2, <2>5, <2>6, AccountFrame
<1>15. CASE Loop(w)
  <2>1. \A k \in Real : queue'[k] = queue[k]
    BY <1>15 DEF Loop
  <2>2. UNCHANGED <<counterVars, created>>
    BY <1>15 DEF Loop, mainVars
  <2>3. UNCHANGED task /\ \A v \in Workers \ {w} : wpc'[v] = wpc[v]
    BY <1>15, <1>d DEF Loop
  <2>4. \/ wpc[w] \in Active <=> wpc'[w] \in Active
        \/ wpc[w] \in Active /\ wpc'[w] \notin Active /\ (interrupt' \/ task[w] = "guard")
    BY <1>15, <1>d DEF Loop, Active
  <2>5. \A k \in Real : Busy(k)' <= Busy(k) /\ (Calm' => Busy(k)' = Busy(k))
    BY <1>a, <2>3, <2>4, BusyStep DEF Calm, Real
  <2>6. Pushing' = Pushing
    BY <1>15, <1>d, <2>3, PushingStep DEF Loop, Pushes
  <2> QED
    BY <1>b, <2>1, <2>2, <2>5, <2>6, AccountFrame
<1>16. CASE Throw(w)
  <2>1. wpc' = [wpc EXCEPT ![w] = "threw"] /\ UNCHANGED <<task, counterVars, created, queue>>
    BY <1>16 DEF Throw, mainVars
  <2>2. (\A v \in Workers \ {w} : wpc'[v] = wpc[v]) /\ wpc'[w] \notin Active
    BY <1>d, <2>1 DEF Active
  <2>3. ~Calm'
    BY <1>d, <2>1 DEF Calm
  <2>4. \A k \in Real : Busy(k)' <= Busy(k)
    BY <1>a, <2>1, <2>2, BusyStep
  <2>5. wpc[w] \notin Pushes /\ wpc'[w] \notin Pushes
    BY <1>16, <1>d, <2>1, FaultsAssumption DEF Throw, Place, FaultsAssumption,
       Places, Pushes
  <2>6. Pushing' = Pushing
    BY <2>2, <2>5, PushingStep
  <2> QED
    BY <2>1, <2>3, <2>4, <2>6, AccountFrame
<1>17. CASE HandleException(w)
  <2>1. \A k \in Real : queue'[k] = queue[k]
    BY <1>17 DEF HandleException
  <2>2. UNCHANGED <<counterVars, created>>
    BY <1>17 DEF HandleException, mainVars
  <2>3. UNCHANGED task /\ \A v \in Workers \ {w} : wpc'[v] = wpc[v]
    BY <1>17, <1>d DEF HandleException
  <2>4. \/ wpc[w] \in Active <=> wpc'[w] \in Active
        \/ wpc[w] \in Active /\ wpc'[w] \notin Active /\ (interrupt' \/ task[w] = "guard")
    BY <1>17, <1>d DEF HandleException, Active
  <2>5. \A k \in Real : Busy(k)' <= Busy(k) /\ (Calm' => Busy(k)' = Busy(k))
    BY <1>a, <2>3, <2>4, BusyStep DEF Calm, Real
  <2>6. Pushing' = Pushing
    BY <1>17, <1>d, <2>3, PushingStep DEF HandleException, Pushes
  <2> QED
    BY <1>b, <2>1, <2>2, <2>5, <2>6, AccountFrame
<1>18. CASE EmergencyShutdown(w)
  <2>1. \A k \in Real : queue'[k] = queue[k]
    BY <1>18 DEF EmergencyShutdown
  <2>2. UNCHANGED <<counterVars, created>>
    BY <1>18 DEF EmergencyShutdown, mainVars
  <2>3. UNCHANGED task /\ \A v \in Workers \ {w} : wpc'[v] = wpc[v]
    BY <1>18, <1>d DEF EmergencyShutdown
  <2>4. \/ wpc[w] \in Active <=> wpc'[w] \in Active
        \/ wpc[w] \in Active /\ wpc'[w] \notin Active /\ (interrupt' \/ task[w] = "guard")
    BY <1>18, <1>d DEF EmergencyShutdown, Active
  <2>5. \A k \in Real : Busy(k)' <= Busy(k) /\ (Calm' => Busy(k)' = Busy(k))
    BY <1>a, <2>3, <2>4, BusyStep DEF Calm, Real
  <2>6. Pushing' = Pushing
    BY <1>18, <1>d, <2>3, PushingStep DEF EmergencyShutdown, Pushes
  <2> QED
    BY <1>b, <2>1, <2>2, <2>5, <2>6, AccountFrame
<1>19. CASE EmergencyGuards(w)
  <2>1. \A k \in Real : queue'[k] = queue[k]
    BY <1>19, GuardsOnly DEF EmergencyGuards
  <2>2. UNCHANGED <<counterVars, created>>
    BY <1>19 DEF EmergencyGuards, mainVars
  <2>3. UNCHANGED task /\ \A v \in Workers \ {w} : wpc'[v] = wpc[v]
    BY <1>19, <1>d DEF EmergencyGuards
  <2>4. \/ wpc[w] \in Active <=> wpc'[w] \in Active
        \/ wpc[w] \in Active /\ wpc'[w] \notin Active /\ (interrupt' \/ task[w] = "guard")
    BY <1>19, <1>d DEF EmergencyGuards, Active
  <2>5. \A k \in Real : Busy(k)' <= Busy(k) /\ (Calm' => Busy(k)' = Busy(k))
    BY <1>a, <2>3, <2>4, BusyStep DEF Calm, Real
  <2>6. Pushing' = Pushing
    BY <1>19, <1>d, <2>3, PushingStep DEF EmergencyGuards, Pushes
  <2> QED
    BY <1>b, <2>1, <2>2, <2>5, <2>6, AccountFrame
<1>20. CASE PushDataTask(w)
  <2>0. /\ UNCHANGED task /\ \A v \in Workers \ {w} : wpc'[v] = wpc[v]
        /\ wpc[w] \in Active <=> wpc'[w] \in Active
        /\ wpc[w] \in Pushes /\ wpc'[w] \notin Pushes
    BY <1>20, <1>d DEF PushDataTask, Active, Pushes
  <2>1. \A k \in Real : Busy(k)' = Busy(k)
    BY <1>a, <2>0, BusyStep
  <2>5. Pushing' = Pushing - 1
    BY <2>0, PushingStep
  <2>2. \A k \in Real : DoneOf(k)' = DoneOf(k) /\ TotalOf(k)' = TotalOf(k)
    BY <1>20 DEF PushDataTask, counterVars, mainVars, DoneOf, TotalOf,
       ChunkTotal, TablesPushed, SumTotal, TablesPushed
  <2>3. \A k \in Real : Load(k)' = Load(k)
    BY <1>20, <1>a, <1>c, <1>e, <2>1, <2>5 DEF PushDataTask, Push, Load, Real,
       Kinds, Queues
  <2> QED
    BY <1>b, <2>2, <2>3 DEF Account
<1> QED
  BY <1>1, <1>2, <1>3, <1>4, <1>5, <1>6, <1>7, <1>8, <1>9, <1>10, <1>11,
     <1>12, <1>13, <1>14, <1>15, <1>16, <1>17, <1>18, <1>19, <1>20 DEF
     WorkerStep

\* A worker takes a guard only when nothing waits, and nothing is produced from
\* then on.
LEMMA WorkerGuards ==
  ASSUME SessionInv, TaskInv, NEW w \in Workers, WorkerStep(w)
  PROVE  GuardsLast'
<1> USE DEF At, Goto
<1>a. GuardsLast /\ Fits /\ Flagged /\ Phases /\ Account
  BY DEF TaskInv
<1>b. task \in [Workers -> Kinds] /\ wpc \in [Workers -> WorkerPoints] /\ queue \in Queues
  BY DEF SessionInv, TypeOK
<1>c. Real \in SUBSET Kinds /\ "guard" \in Kinds /\ "guard" \notin Real
  BY DEF Real, Kinds
<1>d. \A k \in Kinds : queue[k] \in Nat
  BY <1>b DEF Queues
<1>1. CASE Pop(w)
  <2>1. PICK k \in Kinds : /\ FirstQueue(k) /\ wpc[w] = "pop"
                           /\ wpc' = [wpc EXCEPT ![w] = "popped"]
                           /\ task' = [task EXCEPT ![w] = k]
                           /\ queue' = [queue EXCEPT ![k] = @ - 1]
                           /\ UNCHANGED <<interrupt, produced, dumpData, chunkDone>>
    BY <1>1 DEF Pop, mainVars, counterVars
  <2>2. CASE k = "guard"
    <3>1. \A j \in Real : queue[j] = 0
      BY <1>d, <2>1, <2>2 DEF FirstQueue, Real, Kinds
    <3>2. \A j \in Real : queue'[j] = 0
      BY <1>b, <1>c, <2>1, <2>2, <3>1 DEF Queues
    <3>3. ~interrupt => produced /\ (dumpData => chunkDone = NumTables)
      BY <1>a, <2>1, <2>2 DEF GuardsLast, FirstQueue
    <3> QED
      BY <2>1, <3>2, <3>3 DEF GuardsLast
  <2>3. CASE k # "guard"
    <3>1. k \in Real /\ queue[k] > 0
      BY <2>1, <2>3 DEF Real, FirstQueue
    <3>2. ~interrupt => \A v \in Workers : ~GuardTaken(v)
      BY <1>a, <1>d, <3>1 DEF GuardsLast
    <3>3. ~interrupt => \A v \in Workers : ~GuardTaken(v)'
      BY <1>b, <2>1, <2>3, <3>2 DEF GuardTaken
    <3>4. queue'["guard"] = queue["guard"]
      BY <1>b, <1>c, <2>1, <2>3 DEF Queues
    <3> QED
      BY <1>a, <2>1, <3>3, <3>4 DEF GuardsLast
  <2> QED
    BY <2>2, <2>3
<1>2. CASE CheckPopped(w)
  <2>1. UNCHANGED <<queue, interrupt, produced, dumpData, chunkDone>>
    BY <1>2 DEF CheckPopped, mainVars, counterVars
  <2>2. ~interrupt => \A v \in Workers : GuardTaken(v)' => GuardTaken(v)
    BY <1>b, <1>2 DEF CheckPopped, GuardTaken
  <2> QED
    BY <1>a, <2>1, <2>2 DEF GuardsLast
<1>3. CASE TakeSession(w)
  <2>1. UNCHANGED <<queue, interrupt, produced, dumpData, chunkDone>>
    BY <1>3 DEF TakeSession, mainVars, counterVars
  <2>2. ~interrupt => \A v \in Workers : GuardTaken(v)' => GuardTaken(v)
    BY <1>b, <1>3 DEF TakeSession, GuardTaken
  <2> QED
    BY <1>a, <2>1, <2>2 DEF GuardsLast
<1>4. CASE CheckSession(w)
  <2>1. UNCHANGED <<queue, interrupt, produced, dumpData, chunkDone>>
    BY <1>4 DEF CheckSession, mainVars, counterVars
  <2>2. ~interrupt => \A v \in Workers : GuardTaken(v)' => GuardTaken(v)
    BY <1>b, <1>4 DEF CheckSession, GuardTaken
  <2> QED
    BY <1>a, <2>1, <2>2 DEF GuardsLast
<1>5. CASE WriteFile(w)
  <2>1. UNCHANGED <<queue, interrupt, produced, dumpData, chunkDone>>
    BY <1>5 DEF WriteFile, mainVars, counterVars
  <2>2. ~interrupt => \A v \in Workers : GuardTaken(v)' => GuardTaken(v)
    BY <1>b, <1>5 DEF WriteFile, GuardTaken
  <2> QED
    BY <1>a, <2>1, <2>2 DEF GuardsLast
<1>6. CASE MaybeDdlDumpFinished(w)
  <2>1. UNCHANGED <<queue, interrupt, produced, dumpData, chunkDone>>
    BY <1>6 DEF MaybeDdlDumpFinished, mainVars, counterVars
  <2>2. ~interrupt => \A v \in Workers : GuardTaken(v)' => GuardTaken(v)
    BY <1>b, <1>6 DEF MaybeDdlDumpFinished, GuardTaken
  <2> QED
    BY <1>a, <2>1, <2>2 DEF GuardsLast
<1>7. CASE ProduceChunk(w)
  <2>1. task[w] = "chunk" /\ wpc[w] \in Active /\ UNCHANGED <<task, interrupt>>
    BY <1>a, <1>7 DEF ProduceChunk, Fits, Active
  <2>2. dumpData /\ chunkDone < NumTables /\ chunkDone \in Nat /\ NumTables \in Nat
    BY <1>a, <2>1, ChunkPending, Numbers DEF SessionInv
  <2>3. ~interrupt => queue["guard"] = 0 /\ \A v \in Workers : ~GuardTaken(v)
    BY <1>a, <1>c, <1>d, <2>2 DEF GuardsLast
  <2>4. queue'["guard"] = queue["guard"]
    BY <1>b, <1>c, <1>7 DEF ProduceChunk, PushChecksumTask, Push, Queues
  <2>5. \A v \in Workers : GuardTaken(v)' => GuardTaken(v)
    BY <1>b, <1>7, <2>1 DEF ProduceChunk, GuardTaken
  <2> QED
    BY <2>1, <2>3, <2>4, <2>5 DEF GuardsLast
<1>8. CASE ChunkingEnds(w)
  <2>1. task[w] = "chunk" /\ wpc[w] \in Active /\ UNCHANGED <<task, interrupt>>
    BY <1>a, <1>8 DEF ChunkingEnds, Fits, Active
  <2>2. dumpData /\ chunkDone < NumTables /\ chunkDone \in Nat /\ NumTables \in Nat
    BY <1>a, <2>1, ChunkPending, Numbers DEF SessionInv
  <2>3. ~interrupt => queue["guard"] = 0 /\ \A v \in Workers : ~GuardTaken(v)
    BY <1>a, <1>c, <1>d, <2>2 DEF GuardsLast
  <2>4. queue'["guard"] = queue["guard"]
    BY <1>b, <1>c, <1>8 DEF ChunkingEnds, PushChecksumTask, Push, Queues
  <2>5. \A v \in Workers : GuardTaken(v)' => GuardTaken(v)
    BY <1>b, <1>8, <2>1 DEF ChunkingEnds, GuardTaken
  <2> QED
    BY <2>1, <2>3, <2>4, <2>5 DEF GuardsLast
<1>9. CASE CountChunking(w)
  <2>1. task[w] = "chunk" /\ wpc[w] \in Active /\ UNCHANGED <<task, interrupt>>
    BY <1>a, <1>9 DEF CountChunking, Fits, Active
  <2>2. dumpData /\ chunkDone < NumTables /\ chunkDone \in Nat /\ NumTables \in Nat
    BY <1>a, <2>1, ChunkPending, Numbers DEF SessionInv
  <2>3. ~interrupt => queue["guard"] = 0 /\ \A v \in Workers : ~GuardTaken(v)
    BY <1>a, <1>c, <1>d, <2>2 DEF GuardsLast
  <2>4. queue'["guard"] = queue["guard"]
    BY <1>b, <1>c, <1>9 DEF CountChunking, Queues
  <2>5. \A v \in Workers : GuardTaken(v)' => GuardTaken(v)
    BY <1>b, <1>9, <2>1 DEF CountChunking, GuardTaken
  <2> QED
    BY <2>1, <2>3, <2>4, <2>5 DEF GuardsLast
<1>10. CASE WorkerMaybeShutdown(w)
  <2>1. /\ \A k \in Real : queue'[k] = queue[k]
        /\ UNCHANGED <<interrupt, produced, dumpData, chunkDone>>
    BY <1>10, GuardsOnly DEF WorkerMaybeShutdown, mainVars, counterVars
  <2>2. \A v \in Workers : GuardTaken(v)' => GuardTaken(v)
    BY <1>b, <1>10 DEF WorkerMaybeShutdown, GuardTaken
  <2>3. queue' = queue \/ (produced /\ (dumpData => chunkDone = NumTables))
    BY <1>a, <1>10, Numbers DEF WorkerMaybeShutdown, MaybePushShutdownTasks,
       AllTasksProduced, ChunkTotal, TablesPushed, Phases, SessionInv
  <2> QED
    BY <1>a, <2>1, <2>2, <2>3 DEF GuardsLast
<1>11. CASE WriteRows(w)
  <2>1. UNCHANGED <<queue, interrupt, produced, dumpData, chunkDone>>
    BY <1>11 DEF WriteRows, mainVars, counterVars
  <2>2. ~interrupt => \A v \in Workers : GuardTaken(v)' => GuardTaken(v)
    BY <1>b, <1>11 DEF WriteRows, GuardTaken
  <2> QED
    BY <1>a, <2>1, <2>2 DEF GuardsLast
<1>12. CASE FinishWriting(w)
  <2>1. UNCHANGED <<queue, interrupt, produced, dumpData, chunkDone>>
    BY <1>12 DEF FinishWriting, mainVars, counterVars
  <2>2. ~interrupt => \A v \in Workers : GuardTaken(v)' => GuardTaken(v)
    BY <1>b, <1>12 DEF FinishWriting, GuardTaken
  <2> QED
    BY <1>a, <2>1, <2>2 DEF GuardsLast
<1>13. CASE ComputeChecksum(w)
  <2>1. UNCHANGED <<queue, interrupt, produced, dumpData, chunkDone>>
    BY <1>13 DEF ComputeChecksum, mainVars, counterVars
  <2>2. ~interrupt => \A v \in Workers : GuardTaken(v)' => GuardTaken(v)
    BY <1>b, <1>13 DEF ComputeChecksum, GuardTaken
  <2> QED
    BY <1>a, <2>1, <2>2 DEF GuardsLast
<1>14. CASE Leave(w)
  <2>1. UNCHANGED <<queue, interrupt, produced, dumpData, chunkDone>>
    BY <1>14 DEF Leave, mainVars, counterVars
  <2>2. ~interrupt => \A v \in Workers : GuardTaken(v)' => GuardTaken(v)
    BY <1>b, <1>14 DEF Leave, GuardTaken
  <2> QED
    BY <1>a, <2>1, <2>2 DEF GuardsLast
<1>15. CASE Loop(w)
  <2>1. UNCHANGED <<queue, interrupt, produced, dumpData, chunkDone>>
    BY <1>15 DEF Loop, mainVars, counterVars
  <2>2. ~interrupt => \A v \in Workers : GuardTaken(v)' => GuardTaken(v)
    BY <1>b, <1>15 DEF Loop, GuardTaken
  <2> QED
    BY <1>a, <2>1, <2>2 DEF GuardsLast
<1>16. CASE Throw(w)
  <2>1. UNCHANGED <<queue, interrupt, produced, dumpData, chunkDone>>
    BY <1>16 DEF Throw, mainVars, counterVars
  <2>2. ~interrupt => \A v \in Workers : GuardTaken(v)' => GuardTaken(v)
    BY <1>b, <1>16 DEF Throw, GuardTaken
  <2> QED
    BY <1>a, <2>1, <2>2 DEF GuardsLast
<1>17. CASE HandleException(w)
  <2>1. UNCHANGED <<queue, interrupt, produced, dumpData, chunkDone>>
    BY <1>17 DEF HandleException, mainVars, counterVars
  <2>2. ~interrupt => \A v \in Workers : GuardTaken(v)' => GuardTaken(v)
    BY <1>b, <1>17 DEF HandleException, GuardTaken
  <2> QED
    BY <1>a, <2>1, <2>2 DEF GuardsLast
<1>18. CASE EmergencyShutdown(w)
  BY <1>18 DEF EmergencyShutdown, GuardsLast
<1>19. CASE EmergencyGuards(w)
  BY <1>a, <1>19 DEF EmergencyGuards, Flagged, GuardsLast
<1>20. CASE PushDataTask(w)
  <2>1. task[w] = "chunk" /\ wpc[w] \in Active /\ UNCHANGED <<task, interrupt>>
    BY <1>a, <1>20 DEF PushDataTask, Fits, Active
  <2>2. dumpData /\ chunkDone < NumTables /\ chunkDone \in Nat /\ NumTables \in Nat
    BY <1>a, <2>1, ChunkPending, Numbers DEF SessionInv
  <2>3. ~interrupt => queue["guard"] = 0 /\ \A v \in Workers : ~GuardTaken(v)
    BY <1>a, <1>c, <1>d, <2>2 DEF GuardsLast
  <2>4. queue'["guard"] = queue["guard"]
    BY <1>b, <1>c, <1>20 DEF PushDataTask, Push, Queues
  <2>5. \A v \in Workers : GuardTaken(v)' => GuardTaken(v)
    BY <1>b, <1>20, <2>1 DEF PushDataTask, GuardTaken
  <2> QED
    BY <2>1, <2>3, <2>4, <2>5 DEF GuardsLast
<1> QED
  BY <1>1, <1>2, <1>3, <1>4, <1>5, <1>6, <1>7, <1>8, <1>9, <1>10, <1>11,
     <1>12, <1>13, <1>14, <1>15, <1>16, <1>17, <1>18, <1>19, <1>20 DEF
     WorkerStep

\* The worker that writes the last DDL file makes the checks; nobody works once
\* the dump is finished.
LEMMA WorkerOutcome ==
  ASSUME SessionInv, TaskInv, NEW w \in Workers, WorkerStep(w)
  PROVE  Outcome'
<1> USE DEF At, Goto
<1>a. Outcome /\ Phases /\ Flagged
  BY DEF TaskInv
<1>b. wpc[w] # "exit" /\ wpc \in [Workers -> WorkerPoints]
  BY OnlyRunningStep DEF SessionInv, TypeOK
<1>c. ~doneFile /\ main \notin {"rethrow", "cleanup"} /\ result # "ok"
  BY <1>a, <1>b DEF Phases, Outcome
<1>d. UNCHANGED <<doneFile, main, result>> /\ (~interrupt' => ~interrupt)
  <2>1. UNCHANGED mainVars /\ (interrupt => interrupt')
    BY DEF WorkerStep, Pop, CheckPopped, TakeSession, CheckSession, WriteFile,
       MaybeDdlDumpFinished, ProduceChunk, ChunkingEnds, PushDataTask,
       CountChunking, WorkerMaybeShutdown, WriteRows, FinishWriting,
       ComputeChecksum, Leave, Loop, Throw, HandleException,
       EmergencyShutdown, EmergencyGuards
  <2> QED
    BY <2>1 DEF mainVars
<1>e. ~interrupt' => main # "final"
  BY <1>a, <1>c, <1>d DEF Outcome
<1>f. Calm' => Calm
  BY <1>a, CalmBefore
<1> SUFFICES ASSUME Calm', NumHigh > 0, highDone' = NumHigh
             PROVE  validated' \/ \E v \in Workers : wpc'[v] = "written"
  BY <1>c, <1>d, <1>e DEF Outcome
<1>g. highDone = NumHigh => validated \/ \E v \in Workers : wpc[v] = "written"
  BY <1>a, <1>f DEF Outcome
<1>1. CASE Pop(w)
  BY <1>b, <1>g, <1>1 DEF Pop, counterVars
<1>2. CASE CheckPopped(w)
  BY <1>b, <1>g, <1>2 DEF CheckPopped, counterVars
<1>3. CASE TakeSession(w)
  BY <1>b, <1>g, <1>3 DEF TakeSession, counterVars
<1>4. CASE CheckSession(w)
  BY <1>b, <1>g, <1>4 DEF CheckSession, counterVars
<1>5. CASE WriteFile(w)
  BY <1>b, <1>g, <1>5 DEF WriteFile, counterVars
<1>6. CASE MaybeDdlDumpFinished(w)
  BY <1>b, <1>g, <1>6 DEF MaybeDdlDumpFinished, counterVars
<1>7. CASE ProduceChunk(w)
  BY <1>b, <1>g, <1>7 DEF ProduceChunk, counterVars
<1>8. CASE ChunkingEnds(w)
  BY <1>b, <1>g, <1>8 DEF ChunkingEnds, counterVars
<1>9. CASE CountChunking(w)
  BY <1>b, <1>g, <1>9 DEF CountChunking, counterVars
<1>10. CASE WorkerMaybeShutdown(w)
  BY <1>b, <1>g, <1>10 DEF WorkerMaybeShutdown, counterVars
<1>11. CASE WriteRows(w)
  BY <1>b, <1>g, <1>11 DEF WriteRows, counterVars
<1>12. CASE FinishWriting(w)
  BY <1>b, <1>g, <1>12 DEF FinishWriting, counterVars
<1>13. CASE ComputeChecksum(w)
  BY <1>b, <1>g, <1>13 DEF ComputeChecksum, counterVars
<1>14. CASE Leave(w)
  BY <1>b, <1>g, <1>14 DEF Leave, counterVars
<1>15. CASE Loop(w)
  BY <1>b, <1>g, <1>15 DEF Loop, counterVars
<1>16. CASE Throw(w)
  BY <1>b, <1>16 DEF Throw, Calm
<1>17. CASE HandleException(w)
  BY <1>b, <1>g, <1>17 DEF HandleException, counterVars
<1>18. CASE EmergencyShutdown(w)
  BY <1>b, <1>g, <1>18 DEF EmergencyShutdown, counterVars
<1>19. CASE EmergencyGuards(w)
  BY <1>b, <1>g, <1>19 DEF EmergencyGuards, counterVars
<1>20. CASE PushDataTask(w)
  BY <1>b, <1>g, <1>20 DEF PushDataTask, counterVars
<1> QED
  BY <1>1, <1>2, <1>3, <1>4, <1>5, <1>6, <1>7, <1>8, <1>9, <1>10, <1>11,
     <1>12, <1>13, <1>14, <1>15, <1>16, <1>17, <1>18, <1>19, <1>20 DEF
     WorkerStep

\* The main thread joins the workers before it goes on, and clears the flag before
\* it starts them.
LEMMA MainControl ==
  ASSUME SessionInv, Fits, Flagged, Phases, MainStep
  PROVE  Fits' /\ Flagged' /\ Phases'
<1> USE DEF SessionInv, TypeOK, Fits, Flagged, Phases, MainAt, workerVars, sigVars
<1>1. CASE Clear
  BY <1>1 DEF Clear
<1>2. CASE AcquireReadLocks
  BY <1>2 DEF AcquireReadLocks
<1>3. CASE CreateWorkerSessions
  BY <1>3 DEF CreateWorkerSessions
<1>4. CASE CreateWorkerThread
  BY <1>4, SizesAssumption DEF CreateWorkerThread, SizesAssumption, Workers,
     AllSessions, NoSessions, Starting
<1>5. CASE InitializeCache
  BY <1>5 DEF InitializeCache
<1>6. CASE CreateTask
  BY <1>6 DEF CreateTask
<1>7. CASE FinishProducing
  BY <1>7 DEF FinishProducing
<1>8. CASE MainMaybeShutdown
  BY <1>8 DEF MainMaybeShutdown
<1>9. CASE WaitForAllTasks
  BY <1>9 DEF WaitForAllTasks, AllJoined, Workers
<1>10. CASE Finalize
  BY <1>10 DEF Finalize
<1>11. CASE Rethrow
  BY <1>11 DEF Rethrow
<1>12. CASE CloseSession
  BY <1>12 DEF CloseSession
<1>13. CASE SessionsClosed
  BY <1>13 DEF SessionsClosed
<1>14. CASE Finish
  BY <1>14 DEF Finish
<1>15. CASE MainThrows
  BY <1>15, FaultsAssumption DEF MainThrows, FaultsAssumption, Places
<1>16. CASE KillWorkers
  BY <1>16 DEF KillWorkers
<1>17. CASE KillGuards
  BY <1>17 DEF KillGuards
<1> QED
  BY <1>1, <1>2, <1>3, <1>4, <1>5, <1>6, <1>7, <1>8, <1>9, <1>10, <1>11,
     <1>12, <1>13, <1>14, <1>15, <1>16, <1>17 DEF MainStep

\* A step of the main thread takes no task from a worker; one more worker has none.
LEMMA MainBusy ==
  ASSUME SessionInv, MainStep
  PROVE  \A k \in Kinds : Busy(k)' = Busy(k)
<1>1. CASE UNCHANGED <<task, wpc>>
  BY <1>1 DEF Busy, Doing
<1>2. CASE CreateWorkerThread
  <2>1. workers + 1 \in Workers /\ wpc[workers + 1] = "none"
    BY <1>2, SizesAssumption DEF SizesAssumption, SessionInv, TypeOK,
       NoSessions, AllSessions, Starting, CreateWorkerThread, MainAt, Workers
  <2>2. \A v \in Workers \ {workers + 1} : wpc'[v] = wpc[v]
    BY <1>2, <2>1 DEF CreateWorkerThread, SessionInv, TypeOK
  <2>3. UNCHANGED task /\ wpc'[workers + 1] \notin Active /\ wpc[workers + 1] \notin Active
    BY <1>2, <2>1 DEF CreateWorkerThread, SessionInv, TypeOK, Active
  <2> QED
    BY <2>1, <2>2, <2>3, BusyStep
<1>3. UNCHANGED <<task, wpc>> \/ CreateWorkerThread
  BY DEF MainStep, workerVars, Clear, AcquireReadLocks, CreateWorkerSessions,
     CreateWorkerThread, InitializeCache, CreateTask, FinishProducing,
     MainMaybeShutdown, WaitForAllTasks, Finalize, Rethrow, CloseSession,
     SessionsClosed, Finish, MainThrows, KillWorkers, KillGuards
<1> QED
  BY <1>1, <1>2, <1>3

\* A step of the main thread pushes no chunk; one more worker has none.
LEMMA MainPushing ==
  ASSUME SessionInv, MainStep
  PROVE  Pushing' = Pushing
<1>1. CASE UNCHANGED wpc
  BY <1>1 DEF Pushing
<1>2. CASE CreateWorkerThread
  <2>1. workers + 1 \in Workers /\ wpc[workers + 1] = "none"
    BY <1>2, SizesAssumption DEF SizesAssumption, SessionInv, TypeOK,
       NoSessions, AllSessions, Starting, CreateWorkerThread, MainAt, Workers
  <2>2. \A v \in Workers \ {workers + 1} : wpc'[v] = wpc[v]
    BY <1>2, <2>1 DEF CreateWorkerThread, SessionInv, TypeOK
  <2>3. wpc'[workers + 1] \notin Pushes /\ wpc[workers + 1] \notin Pushes
    BY <1>2, <2>1 DEF CreateWorkerThread, SessionInv, TypeOK, Pushes
  <2> QED
    BY <2>1, <2>2, <2>3, PushingStep
<1>3. UNCHANGED wpc \/ CreateWorkerThread
  BY DEF MainStep, workerVars, Clear, AcquireReadLocks, CreateWorkerSessions,
     CreateWorkerThread, InitializeCache, CreateTask, FinishProducing,
     MainMaybeShutdown, WaitForAllTasks, Finalize, Rethrow, CloseSession,
     SessionsClosed, Finish, MainThrows, KillWorkers, KillGuards
<1> QED
  BY <1>1, <1>2, <1>3

\* The main thread gives a dump that was not calm no second chance: it clears the
\* flag before anybody can have raised it.
LEMMA MainCalm ==
  ASSUME SessionInv, Flagged, MainStep
  PROVE  (Calm' => Calm) /\ (~interrupt' => ~interrupt)
<1>1. interrupt => interrupt'
  BY DEF MainStep, Flagged, MainAt, Clear, AcquireReadLocks,
     CreateWorkerSessions, CreateWorkerThread, InitializeCache, CreateTask,
     FinishProducing, MainMaybeShutdown, WaitForAllTasks, Finalize, Rethrow,
     CloseSession, SessionsClosed, Finish, MainThrows, KillWorkers, KillGuards
<1>2. CASE UNCHANGED wpc
  BY <1>1, <1>2 DEF Calm
<1>3. CASE CreateWorkerThread
  <2>1. workers + 1 \in Workers /\ wpc[workers + 1] = "none"
    BY <1>3, SizesAssumption DEF SizesAssumption, SessionInv, TypeOK,
       NoSessions, AllSessions, Starting, CreateWorkerThread, MainAt, Workers
  <2> QED
    BY <1>1, <1>3, <2>1 DEF CreateWorkerThread, SessionInv, TypeOK, Calm
<1>4. UNCHANGED wpc \/ CreateWorkerThread
  BY DEF MainStep, workerVars, Clear, AcquireReadLocks, CreateWorkerSessions,
     CreateWorkerThread, InitializeCache, CreateTask, FinishProducing,
     MainMaybeShutdown, WaitForAllTasks, Finalize, Rethrow, CloseSession,
     SessionsClosed, Finish, MainThrows, KillWorkers, KillGuards
<1> QED
  BY <1>1, <1>2, <1>3, <1>4

\* A step of the main thread keeps the account of the tasks.
LEMMA MainAccount ==
  ASSUME SessionInv, Flagged, Account, MainStep
  PROVE  Account'
<1>a. \A k \in Real : Busy(k)' = Busy(k) /\ Busy(k) \in Nat
  BY MainBusy, BusyCounted DEF Real
<1>b. Calm' => Calm
  BY MainCalm
<1>c. Pushing' = Pushing /\ Pushing \in Nat
  BY MainPushing, PushingCounted
<1>1. CASE CreateTask
  <2>c. /\ queue \in Queues /\ highDone \in Nat /\ chunkDone \in Nat /\ dataTotal \in Nat
        /\ dumped \in Nat /\ summed \in Nat /\ ChunkTotal \in Nat /\ created \in Nat
        /\ NumHigh \in Nat /\ TablesPushed \in Nat /\ SumTotal \in Nat
    BY Numbers DEF SessionInv, TypeOK
  <2>2. \A k \in Real : Load(k) \in Nat /\ DoneOf(k) \in Nat /\ TotalOf(k) \in Int
    BY <1>a, <1>c, <2>c DEF Load, DoneOf, TotalOf, Queues, Real
  <2>3. \A k \in Real : DoneOf(k)' = DoneOf(k) /\ TotalOf(k)' - Load(k)' = TotalOf(k) - Load(k)
    BY <1>1, <1>a, <1>c, <2>c DEF CreateTask, Push, counterVars, Load, DoneOf,
       TotalOf, ChunkTotal, TablesPushed, SumTotal, TableTask, Real, Kinds,
       Queues
  <2>4. \A k \in Real : Load(k)' \in Int /\ DoneOf(k)' \in Int /\ TotalOf(k)' \in Int
    BY <1>1, <1>a, <1>c, <2>c DEF CreateTask, Push, counterVars, Load, DoneOf,
       TotalOf, ChunkTotal, TablesPushed, SumTotal, TableTask, Real, Kinds,
       Queues
  <2> QED
    BY <1>b, <2>2, <2>3, <2>4 DEF Account
<1>2. CASE ~CreateTask
  <2>1. UNCHANGED <<counterVars, created>>
    BY <1>2 DEF MainStep, Clear, AcquireReadLocks, CreateWorkerSessions,
       CreateWorkerThread, InitializeCache, CreateTask, FinishProducing,
       MainMaybeShutdown, WaitForAllTasks, Finalize, Rethrow, CloseSession,
       SessionsClosed, Finish, MainThrows, KillWorkers, KillGuards
  <2>2. queue' = queue \/ ShutdownQueue \/ MaybePushShutdownTasks
    BY <1>2 DEF MainStep, Clear, AcquireReadLocks, CreateWorkerSessions,
       CreateWorkerThread, InitializeCache, CreateTask, FinishProducing,
       MainMaybeShutdown, WaitForAllTasks, Finalize, Rethrow, CloseSession,
       SessionsClosed, Finish, MainThrows, KillWorkers, KillGuards
  <2>3. \A k \in Real : queue'[k] = queue[k]
    BY <2>2, GuardsOnly
  <2> QED
    BY <1>a, <1>b, <1>c, <2>1, <2>3, AccountFrame
<1> QED
  BY <1>1, <1>2

\* The main thread pushes the guards after the last task, or after the flag.
LEMMA MainGuards ==
  ASSUME SessionInv, TaskInv, MainStep
  PROVE  GuardsLast'
<1> USE DEF MainAt, workerVars, counterVars
<1>a. GuardsLast /\ Flagged /\ Phases
  BY DEF TaskInv
<1>b. task \in [Workers -> Kinds] /\ wpc \in [Workers -> WorkerPoints] /\ queue \in Queues
  BY DEF SessionInv, TypeOK
<1>c. Real \in SUBSET Kinds /\ "guard" \in Kinds
  BY DEF Real, Kinds
<1>d. ~interrupt' => ~interrupt
  BY <1>a, MainCalm
<1>1. CASE Clear
  BY <1>a, <1>d, <1>1 DEF Clear, GuardsLast, GuardTaken
<1>2. CASE AcquireReadLocks
  BY <1>a, <1>d, <1>2 DEF AcquireReadLocks, GuardsLast, GuardTaken
<1>3. CASE CreateWorkerSessions
  BY <1>a, <1>d, <1>3 DEF CreateWorkerSessions, GuardsLast, GuardTaken
<1>4. CASE CreateWorkerThread
  <2>1. workers + 1 \in Workers /\ UNCHANGED <<task, queue, produced, dumpData, chunkDone>>
    BY <1>4, SizesAssumption DEF SizesAssumption, SessionInv, TypeOK,
       NoSessions, AllSessions, Starting, CreateWorkerThread, Workers
  <2>2. \A v \in Workers : GuardTaken(v)' => GuardTaken(v)
    BY <1>b, <1>4, <2>1 DEF CreateWorkerThread, GuardTaken
  <2> QED
    BY <1>a, <1>d, <2>1, <2>2 DEF GuardsLast
<1>5. CASE InitializeCache
  BY <1>a, <1>d, <1>5 DEF InitializeCache, GuardsLast, GuardTaken
<1>6. CASE CreateTask
  <2>1. ~produced /\ UNCHANGED <<produced, interrupt, task, wpc>>
    BY <1>a, <1>6 DEF CreateTask, Phases
  <2>2. queue'["guard"] = queue["guard"]
    BY <1>b, <1>c, <1>6 DEF CreateTask, TableTask, Push, Queues
  <2> QED
    BY <1>a, <2>1, <2>2 DEF GuardsLast, GuardTaken
<1>7. CASE FinishProducing
  BY <1>a, <1>d, <1>7 DEF FinishProducing, GuardsLast, GuardTaken
<1>8. CASE MainMaybeShutdown
  <2>1. /\ \A k \in Real : queue'[k] = queue[k]
        /\ UNCHANGED <<interrupt, produced, dumpData, chunkDone, task, wpc>>
    BY <1>8, GuardsOnly DEF MainMaybeShutdown
  <2>3. queue' = queue \/ (produced /\ (dumpData => chunkDone = NumTables))
    BY <1>a, <1>8, Numbers DEF MainMaybeShutdown, MaybePushShutdownTasks,
       AllTasksProduced, ChunkTotal, TablesPushed, Phases, SessionInv
  <2> QED
    BY <1>a, <2>1, <2>3 DEF GuardsLast, GuardTaken
<1>9. CASE WaitForAllTasks
  BY <1>a, <1>d, <1>9 DEF WaitForAllTasks, GuardsLast, GuardTaken
<1>10. CASE Finalize
  BY <1>a, <1>d, <1>10 DEF Finalize, GuardsLast, GuardTaken
<1>11. CASE Rethrow
  BY <1>a, <1>d, <1>11 DEF Rethrow, GuardsLast, GuardTaken
<1>12. CASE CloseSession
  BY <1>a, <1>d, <1>12 DEF CloseSession, GuardsLast, GuardTaken
<1>13. CASE SessionsClosed
  BY <1>a, <1>d, <1>13 DEF SessionsClosed, GuardsLast, GuardTaken
<1>14. CASE Finish
  BY <1>a, <1>d, <1>14 DEF Finish, GuardsLast, GuardTaken
<1>15. CASE MainThrows
  BY <1>a, <1>d, <1>15 DEF MainThrows, GuardsLast, GuardTaken
<1>16. CASE KillWorkers
  BY <1>a, <1>d, <1>16 DEF KillWorkers, GuardsLast, GuardTaken
<1>17. CASE KillGuards
  BY <1>a, <1>17 DEF KillGuards, Flagged, GuardsLast
<1> QED
  BY <1>1, <1>2, <1>3, <1>4, <1>5, <1>6, <1>7, <1>8, <1>9, <1>10, <1>11,
     <1>12, <1>13, <1>14, <1>15, <1>16, <1>17 DEF MainStep

\* finalize_dump() finds every task done: a worker has ended, so that no task
\* waits, and all of them have, so that none is being worked on.
LEMMA FinalizeComplete ==
  ASSUME SessionInv, TaskInv, main = "finalize", ~interrupt
  PROVE  EverythingDumped /\ (NumHigh > 0 => validated)
<1>1. \A w \in Workers : wpc[w] = "exit"
  BY DEF TaskInv, Phases
<1>2. \E w \in Workers : GuardTaken(w)
  BY <1>1, SizesAssumption DEF SizesAssumption, Workers, GuardTaken
<1>3. produced /\ (dumpData => chunkDone = NumTables) /\ \A k \in Real : queue[k] = 0
  BY <1>2 DEF TaskInv, GuardsLast
<1>4. \A k \in Real : Busy(k) = 0
  <2>1. \A k \in Real : Doing(k) = {}
    BY <1>1 DEF Doing, Active
  <2> QED
    BY <2>1, FS_EmptySet DEF Busy
<1>5. Calm
  BY <1>1 DEF Calm
<1>p. Pushing = 0
  <2>1. {w \in Workers : wpc[w] \in Pushes} = {}
    BY <1>1 DEF Pushes
  <2> QED
    BY <2>1, FS_EmptySet DEF Pushing
<1>6. \A k \in Real : DoneOf(k) + 0 = TotalOf(k)
  BY <1>3, <1>4, <1>5, <1>p DEF TaskInv, Account, Load
<1>7. created = NumHigh + NumTables
  BY <1>3 DEF TaskInv, Phases
<1>8. /\ highDone = NumHigh /\ dumped = dataTotal
      /\ (dumpData /\ Checksum => summed = dataTotal)
      /\ (~dumpData => summed = NumTables)
  <2>1. TablesPushed = NumTables /\ created - TablesPushed = NumHigh
    BY <1>7, SizesAssumption DEF SizesAssumption, TablesPushed
  <2>2. /\ highDone + 0 = created - TablesPushed /\ dumped + 0 = dataTotal
        /\ summed + 0 = SumTotal
    BY <1>6 DEF Real, Kinds, DoneOf, TotalOf
  <2>3. highDone \in Nat /\ dumped \in Nat /\ summed \in Nat
    BY Numbers DEF SessionInv
  <2> QED
    BY <2>1, <2>2, <2>3 DEF SumTotal
<1>9. NumHigh > 0 => validated
  BY <1>1, <1>5, <1>8 DEF TaskInv, Outcome
<1> QED
  BY <1>3, <1>8, <1>9 DEF EverythingDumped

\* A step of the main thread reports success only for a complete dump.
LEMMA MainOutcome ==
  ASSUME SessionInv, TaskInv, MainStep
  PROVE  Outcome'
<1> USE DEF MainAt, workerVars, counterVars
<1>a. Outcome /\ Phases /\ Flagged
  BY DEF TaskInv
<1>b. (~interrupt' => ~interrupt) /\ (Calm' => Calm)
  BY <1>a, MainCalm
<1>c. wpc \in [Workers -> WorkerPoints]
  BY DEF SessionInv, TypeOK
<1>d. UNCHANGED counterVars
  BY DEF MainStep, Clear, AcquireReadLocks, CreateWorkerSessions,
     CreateWorkerThread, InitializeCache, CreateTask, FinishProducing,
     MainMaybeShutdown, WaitForAllTasks, Finalize, Rethrow, CloseSession,
     SessionsClosed, Finish, MainThrows, KillWorkers, KillGuards
<1>e. EverythingDumped' = EverythingDumped
  BY <1>d DEF EverythingDumped
<1>f. Calm' /\ NumHigh > 0 /\ highDone' = NumHigh
        => validated' \/ \E v \in Workers : wpc'[v] = "written"
  <2>1. CASE UNCHANGED wpc
    BY <1>a, <1>b, <1>d, <2>1 DEF Outcome
  <2>2. CASE CreateWorkerThread
    <3>1. workers + 1 \in Workers /\ wpc[workers + 1] = "none"
      BY <2>2, SizesAssumption DEF SizesAssumption, SessionInv, TypeOK,
         NoSessions, AllSessions, Starting, CreateWorkerThread, Workers
    <3> QED
      BY <1>a, <1>b, <1>c, <1>d, <2>2, <3>1 DEF CreateWorkerThread, Outcome
  <2>3. UNCHANGED wpc \/ CreateWorkerThread
    BY DEF MainStep, Clear, AcquireReadLocks, CreateWorkerSessions,
       CreateWorkerThread, InitializeCache, CreateTask, FinishProducing,
       MainMaybeShutdown, WaitForAllTasks, Finalize, Rethrow, CloseSession,
       SessionsClosed, Finish, MainThrows, KillWorkers, KillGuards
  <2> QED
    BY <2>1, <2>2, <2>3
<1> HIDE DEF counterVars
<1>1. CASE Clear
  BY <1>a, <1>b, <1>d, <1>e, <1>f, <1>1 DEF Clear, Outcome, counterVars,
     Phases
<1>2. CASE AcquireReadLocks
  BY <1>a, <1>b, <1>d, <1>e, <1>f, <1>2 DEF AcquireReadLocks, Outcome,
     counterVars, Phases
<1>3. CASE CreateWorkerSessions
  BY <1>a, <1>b, <1>d, <1>e, <1>f, <1>3 DEF CreateWorkerSessions, Outcome,
     counterVars, Phases
<1>4. CASE CreateWorkerThread
  BY <1>a, <1>b, <1>d, <1>e, <1>f, <1>4 DEF CreateWorkerThread, Outcome,
     counterVars, Phases
<1>5. CASE InitializeCache
  BY <1>a, <1>b, <1>d, <1>e, <1>f, <1>5 DEF InitializeCache, Outcome,
     counterVars, Phases
<1>6. CASE CreateTask
  BY <1>a, <1>b, <1>d, <1>e, <1>f, <1>6 DEF CreateTask, Outcome, counterVars,
     Phases
<1>7. CASE FinishProducing
  BY <1>a, <1>b, <1>d, <1>e, <1>f, <1>7 DEF FinishProducing, Outcome,
     counterVars, Phases
<1>8. CASE MainMaybeShutdown
  BY <1>a, <1>b, <1>d, <1>e, <1>f, <1>8 DEF MainMaybeShutdown, Outcome,
     counterVars, Phases
<1>9. CASE WaitForAllTasks
  BY <1>a, <1>b, <1>d, <1>e, <1>f, <1>9 DEF WaitForAllTasks, Outcome,
     counterVars, Phases
<1>10. CASE Finalize
  <2>1. doneFile' => EverythingDumped /\ (NumHigh > 0 => validated)
    BY <1>10, FinalizeComplete DEF Finalize
  <2>2. doneFile' => EverythingDumped' /\ (NumHigh > 0 => validated')
    BY <1>d, <1>e, <2>1 DEF counterVars
  <2>3. result' # "ok" /\ main' = "rethrow"
    BY <1>a, <1>10 DEF Finalize, Outcome
  <2>4. ~interrupt' => doneFile'
    BY <1>10 DEF Finalize
  <2> QED
    BY <1>f, <2>2, <2>3, <2>4 DEF Outcome
<1>11. CASE Rethrow
  BY <1>a, <1>b, <1>d, <1>e, <1>f, <1>11 DEF Rethrow, Outcome, counterVars,
     Phases
<1>12. CASE CloseSession
  BY <1>a, <1>b, <1>d, <1>e, <1>f, <1>12 DEF CloseSession, Outcome,
     counterVars, Phases
<1>13. CASE SessionsClosed
  BY <1>a, <1>b, <1>d, <1>e, <1>f, <1>13 DEF SessionsClosed, Outcome,
     counterVars, Phases
<1>14. CASE Finish
  BY <1>a, <1>b, <1>d, <1>e, <1>f, <1>14 DEF Finish, Outcome, counterVars,
     Phases
<1>15. CASE MainThrows
  BY <1>a, <1>b, <1>d, <1>e, <1>f, <1>15, FaultsAssumption DEF MainThrows,
     Outcome, counterVars, Phases, FaultsAssumption, Places
<1>16. CASE KillWorkers
  BY <1>a, <1>b, <1>d, <1>e, <1>f, <1>16 DEF KillWorkers, Outcome,
     counterVars, Phases
<1>17. CASE KillGuards
  BY <1>a, <1>b, <1>d, <1>e, <1>f, <1>17 DEF KillGuards, Outcome, counterVars,
     Phases
<1> QED
  BY <1>1, <1>2, <1>3, <1>4, <1>5, <1>6, <1>7, <1>8, <1>9, <1>10, <1>11,
     <1>12, <1>13, <1>14, <1>15, <1>16, <1>17 DEF MainStep

\* The signal handler raises the flag and pushes guards, nothing else.
LEMMA SignalTasks ==
  ASSUME Heard, SessionInv, TaskInv, Interrupt \/ Abort \/ AbortGuards
  PROVE  TaskInv'
<1>a. Fits /\ Flagged /\ Account /\ GuardsLast /\ Phases /\ Outcome
  BY DEF TaskInv
<1>b. UNCHANGED <<mainVars, workerVars, counterVars>>
  BY DEF Interrupt, Abort, AbortGuards
<1>c. interrupt'
  BY <1>a DEF Interrupt, Abort, AbortGuards, Flagged
<1>d. queue' = queue \/ ShutdownQueue
  BY DEF Interrupt, Abort, AbortGuards
<1>1. Fits'
  BY <1>a, <1>b DEF Fits, workerVars
<1>2. Flagged'
  <2>1. main # "start"
    BY <1>a DEF Heard, Interrupt, Abort, AbortGuards, Flagged
  <2> QED
    BY <1>b, <1>c, <2>1 DEF Flagged, mainVars
<1>3. Account'
  <2>1. \A k \in Real : queue'[k] = queue[k]
    BY <1>d, GuardsOnly
  <2>2. \A k \in Real : Busy(k)' = Busy(k) /\ Busy(k) \in Nat
    BY <1>b, BusyCounted DEF Busy, Doing, workerVars
  <2>4. Pushing' = Pushing
    BY <1>b DEF Pushing, workerVars
  <2>3. ~Calm' /\ UNCHANGED <<counterVars, created>>
    BY <1>b, <1>c DEF Calm, mainVars
  <2> QED
    BY <1>a, <2>1, <2>2, <2>3, <2>4, AccountFrame
<1>4. GuardsLast'
  BY <1>c DEF GuardsLast
<1>5. Phases'
  BY <1>a, <1>b DEF Phases, mainVars, workerVars
<1>6. Outcome'
  <2>1. EverythingDumped' = EverythingDumped
    BY <1>b DEF EverythingDumped, counterVars
  <2> QED
    BY <1>a, <1>b, <1>c, <2>1 DEF Outcome, Calm, mainVars, workerVars,
       counterVars
<1> QED
  BY <1>1, <1>2, <1>3, <1>4, <1>5, <1>6 DEF TaskInv

\* Nothing happens to the tasks in a step that changes nothing.
LEMMA StutterTasks ==
  ASSUME TaskInv, UNCHANGED vars
  PROVE  TaskInv'
<1> USE DEF vars, mainVars, workerVars, counterVars, sigVars
<1>1. \A k \in Real : Load(k)' = Load(k) /\ DoneOf(k)' = DoneOf(k) /\ TotalOf(k)' = TotalOf(k)
  BY DEF Load, Busy, Doing, Pushing, DoneOf, TotalOf, ChunkTotal, TablesPushed,
     SumTotal
<1>2. Calm' = Calm
  BY DEF Calm
<1>3. Account'
  BY <1>1, <1>2 DEF TaskInv, Account
<1>4. Fits' /\ Flagged' /\ Phases'
  BY DEF TaskInv, Fits, Flagged, Phases
<1>5. GuardsLast'
  BY DEF TaskInv, GuardsLast, GuardTaken
<1>6. Outcome'
  BY <1>2 DEF TaskInv, Outcome, EverythingDumped
<1> QED
  BY <1>3, <1>4, <1>5, <1>6 DEF TaskInv

\* Every task of a dump is accounted for, from the push to the end of run().
THEOREM TasksAccounted == Heard => (Spec => []TaskInv)
<1> SUFFICES ASSUME Heard PROVE Spec => []TaskInv
  OBVIOUS
<1>1. Init => TaskInv
  BY TaskInit
<1>2. SessionInv /\ TaskInv /\ [Next]_vars => TaskInv'
  <2> SUFFICES ASSUME SessionInv, TaskInv, [Next]_vars PROVE TaskInv'
    OBVIOUS
  <2>0. Fits /\ Flagged /\ Account /\ Phases
    BY DEF TaskInv
  <2>1. CASE MainStep
    BY <2>0, <2>1, MainControl, MainAccount, MainGuards, MainOutcome DEF TaskInv
  <2>2. ASSUME NEW w \in Workers, WorkerStep(w) PROVE TaskInv'
    BY <2>0, <2>2, WorkerControl, WorkerAccount, WorkerGuards, WorkerOutcome DEF
       TaskInv
  <2>3. CASE Interrupt \/ Abort \/ AbortGuards
    BY <2>3, SignalTasks
  <2>4. CASE UNCHANGED vars
    BY <2>4, StutterTasks
  <2> QED
    BY <2>1, <2>2, <2>3, <2>4 DEF Next
<1> QED
  BY <1>1, <1>2, SessionsAccounted, PTL DEF Spec

\* @.done.json is written only for a complete dump, for any number of workers,
\* tables and chunks, whoever throws and whenever ^C is pressed after do_run() has
\* cleared the flag: the guards that end the workers are behind every task.
THEOREM DumpComplete == Heard => (Spec => []DoneFileMeansComplete)
<1>1. TaskInv => DoneFileMeansComplete
  BY DEF TaskInv, Outcome, DoneFileMeansComplete
<1> QED
  BY <1>1, TasksAccounted, PTL

\* A worker of a dump that is not interrupted ends only when there is nothing left
\* to do, although guards are pushed by whichever thread happens to finish last.
THEOREM WorkersEndLast == Heard => (Spec => []WorkersLeaveLast)
<1>1. TaskInv => WorkersLeaveLast
  <2> SUFFICES ASSUME TaskInv, ~interrupt, NEW w \in Workers, wpc[w] = "exit"
               PROVE  /\ main # "tasks" /\ (dumpData => chunkDone = NumTables)
                      /\ \A k \in Kinds \ {"guard"} : queue[k] = 0
    BY DEF WorkersLeaveLast
  <2>1. produced /\ (dumpData => chunkDone = NumTables) /\ \A k \in Real : queue[k] = 0
    BY DEF TaskInv, GuardsLast, GuardTaken
  <2> QED
    BY <2>1 DEF TaskInv, Phases, Real
<1> QED
  BY <1>1, TasksAccounted, PTL

\* Once run() has returned normally no ^C was pressed, if none comes later.
LEMMA OkUnsignalled ==
  ASSUME SessionInv, TaskInv, result = "ok" => signals = 0, "done" \notin SignalAt,
         [Next]_vars
  PROVE  (result = "ok" => signals = 0)'
<1>a. Flagged /\ Outcome
  BY DEF TaskInv
<1>1. CASE MainStep
  <2>1. CASE Finish
    BY <1>a, <2>1, SizesAssumption DEF SizesAssumption, Finish, Flagged,
       sigVars, SessionInv, TypeOK
  <2>2. CASE ~Finish
    <3>1. signals' = signals /\ (result' = result \/ result' = "error")
      BY <1>1, <2>2 DEF MainStep, sigVars, Clear, AcquireReadLocks,
         CreateWorkerSessions, CreateWorkerThread, InitializeCache,
         CreateTask, FinishProducing, MainMaybeShutdown, WaitForAllTasks,
         Finalize, Rethrow, CloseSession, SessionsClosed, Finish, MainThrows,
         KillWorkers, KillGuards
    <3> QED
      BY <3>1
  <2> QED
    BY <2>1, <2>2
<1>2. ASSUME NEW w \in Workers, WorkerStep(w) PROVE (result = "ok" => signals = 0)'
  <2>1. UNCHANGED <<mainVars, sigVars>>
    BY <1>2 DEF WorkerStep, Pop, CheckPopped, TakeSession, CheckSession,
       WriteFile, MaybeDdlDumpFinished, ProduceChunk, ChunkingEnds,
       PushDataTask, CountChunking, WorkerMaybeShutdown, WriteRows,
       FinishWriting, ComputeChecksum, Leave, Loop, Throw, HandleException,
       EmergencyShutdown, EmergencyGuards
  <2> QED
    BY <2>1 DEF mainVars, sigVars
<1>3. CASE Interrupt \/ Abort \/ AbortGuards
  BY <1>a, <1>3 DEF Interrupt, Abort, AbortGuards, Outcome, mainVars
<1>4. CASE UNCHANGED vars
  BY <1>4 DEF vars, mainVars, sigVars
<1> QED
  BY <1>1, <1>2, <1>3, <1>4 DEF Next

\* run() returns normally only after a complete dump that nobody interrupted: a ^C
\* that arrives while it runs is never lost.
THEOREM OkMeansDumped ==
  SignalAt \cap {"start", "done"} = {} => (Spec => []OkMeansDone)
<1> SUFFICES ASSUME SignalAt \cap {"start", "done"} = {} PROVE Spec => []OkMeansDone
  OBVIOUS
<1>1. Heard /\ "done" \notin SignalAt
  BY DEF Heard
<1>2. Init => (result = "ok" => signals = 0)
  BY DEF Init
<1>3. SessionInv /\ TaskInv /\ (result = "ok" => signals = 0) /\ [Next]_vars
        => (result = "ok" => signals = 0)'
  BY <1>1, OkUnsignalled
<1>4. TaskInv /\ (result = "ok" => signals = 0) => OkMeansDone
  BY DEF TaskInv, Outcome, OkMeansDone
<1>5. Spec => []TaskInv
  BY <1>1, TasksAccounted
<1> QED
  BY <1>2, <1>3, <1>4, <1>5, SessionsAccounted, PTL DEF Spec

=============================================================================
