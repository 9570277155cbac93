------------------------------ MODULE LoadData ------------------------------
(***************************************************************************)
(* One LOAD DATA worker with one input file: Load_data_worker::execute(),  *)
(* the local infile callbacks and Transaction_buffer (load_data.cc, .h).   *)
(*                                                                         *)
(* The file is a row layout: bytes 1..FileLen, and the offsets at which a  *)
(* row (with its terminator of Needle bytes) ends.  m_data always is the   *)
(* part of the file between what was sent and what was read, so it is      *)
(* represented by the two offsets.  The client library asks for at most    *)
(* bufLen bytes at a time; the server (external) ends a statement by       *)
(* committing it, by rolling it back because of a deadlock, or with        *)
(* another error.  Reports (oversized rows, states of the thread) are left *)
(* out; the escape-aware boundary search differs from the plain one only   *)
(* in the boundaries it sees.                                              *)
(***************************************************************************)
EXTENDS Integers, Sequences, FiniteSets

CONSTANTS
    FileLen,     \* bytes in the file
    Needle,      \* size of lines_terminated_by
    BufLens,     \* what the client library may ask for
    TrxSizes,    \* values of max_trx_size; 0: no sub-chunks
    Ranges,      \* byte ranges of range reads, <<first, second>>
    ShortReads,  \* read() of the file may return less than asked
    Seekables,   \* whether seek() of the file works
    FirstSleep,  \* 200 ms
    MaxSleep,    \* k_max_deadlock_retry_time_ms
    ErrorSets    \* which of ErrorKinds the server may answer with

ErrorKinds == {"deadlock", "early", "error"}

ASSUME LoadAssumption ==
    /\ FileLen \in Nat /\ Needle \in Nat \ {0}
    /\ BufLens \subseteq Nat \ {0} /\ TrxSizes \subseteq Nat
    /\ Ranges \subseteq (0..FileLen) \X (0..FileLen)
    /\ \A r \in Ranges : r[1] <= r[2]
    /\ ShortReads \in BOOLEAN /\ Seekables \subseteq BOOLEAN
    /\ FirstSleep \in Nat \ {0} /\ MaxSleep \in Nat
    /\ ErrorSets \subseteq SUBSET ErrorKinds

Smaller(a, b) == IF a < b THEN a ELSE b

\* Terminators do not overlap.
Layouts ==
    {S \in SUBSET (Needle..FileLen) : \A d, e \in S : d < e => e - d >= Needle}

VARIABLES
    \* the input, fixed
    rowEnds, bufLen, maxTrx, range, seekable, errors,
    \* Transaction_buffer
    pos,         \* offset of the file
    sent,        \* offset of the first byte of m_data
    trxSize,     \* m_trx_size
    trxEnd,      \* m_trx_end_offset
    partial,     \* m_partial_row_sent
    eof,         \* m_eof
    retryOffset, retryValid,
    \* File_info and the counters
    bytesLeft, retryBytesLeft,
    dataBytes,   \* data_bytes
    prog,        \* *prog_data_bytes
    stats,       \* m_load_stats->data_bytes
    \* the retry loop
    sleepTime, totalSleep,
    \* control: where execute() and the callbacks are
    pc,
    \* the server
    received,    \* offsets of the bytes of the current statement
    table,       \* offsets of the committed bytes
    overrun      \* a callback returned more bytes than the buffer has

input   == <<rowEnds, bufLen, maxTrx, range, seekable, errors>>
trx     == <<trxSize, trxEnd, partial>>
point   == <<retryOffset, retryValid, retryBytesLeft>>
sleeps  == <<sleepTime, totalSleep>>
vars    == <<input, pos, sent, trx, eof, point, bytesLeft, dataBytes, prog, stats,
             sleeps, pc, received, table, overrun>>

None      == <<>>
RangeRead == range # None
First     == IF RangeRead THEN range[1] ELSE 0
Last      == IF RangeRead THEN range[2] ELSE FileLen

TypeOK ==
    /\ pos \in First..FileLen /\ sent \in First..pos
    /\ trxSize \in Nat /\ trxEnd \in Nat /\ partial \in BOOLEAN /\ eof \in BOOLEAN
    /\ retryOffset \in First..sent /\ retryValid \in BOOLEAN
    /\ bytesLeft \in 0..FileLen /\ retryBytesLeft \in 0..FileLen
    /\ dataBytes \in Nat /\ prog \in Int /\ stats \in Nat
    /\ sleepTime \in Nat /\ totalSleep \in Nat
    /\ pc \in {"start", "query", "ask", "more", "decide", "result", "done", "failed"}
    /\ received \in Seq(1..FileLen) /\ table \in Seq(1..FileLen)
    /\ overrun \in BOOLEAN

\* The constructor has opened the file and skipped to the start of the range.
\* A chunk of a file is read with max_trx_size = 0.
Init ==
    /\ rowEnds \in Layouts /\ bufLen \in BufLens
    /\ seekable \in Seekables /\ errors \in ErrorSets
    /\ \/ range = None /\ maxTrx \in TrxSizes
       \/ range \in Ranges /\ maxTrx = 0
    /\ pos = First /\ sent = First
    /\ trxSize = 0 /\ trxEnd = 0 /\ partial = FALSE /\ eof = FALSE
    /\ retryOffset = First /\ retryValid = FALSE
    /\ bytesLeft = (IF RangeRead THEN Last - First ELSE 0) /\ retryBytesLeft = 0
    /\ dataBytes = 0 /\ prog = 0 /\ stats = 0
    /\ sleepTime = 0 /\ totalSleep = 0
    /\ pc = "start"
    /\ received = <<>> /\ table = <<>> /\ overrun = FALSE

----------------------------------------------------------------------------
(* Transaction_buffer: the search for row boundaries in m_data.            *)

DataLen == pos - sent
Left    == maxTrx - trxSize

\* Indexes in m_data at which a terminator starts.
Starts == {e - Needle - sent : e \in {x \in rowEnds : x <= pos /\ x - Needle >= sent}}

\* find_last_row_boundary_before(): rfind() gives a match that starts at or
\* before p. A limit of 0 or less wraps around and means: no limit.
LastBoundary(limit) ==
    LET p     == IF limit > 0 /\ limit < DataLen THEN limit - 1 ELSE DataLen
        found == {s \in Starts : s <= p} IN
    IF p < Needle \/ found = {} THEN 0
    ELSE (CHOOSE s \in found : \A t \in found : t <= s) + Needle

\* find_first_row_boundary_after()
FirstBoundary ==
    IF Starts = {} THEN 0 ELSE (CHOOSE s \in Starts : \A t \in Starts : s <= t) + Needle

\* What read() of a back end returns when it is asked for count bytes: all of them
\* unless the file ends, as for a local file, or fewer, as IFile allows.
FileRead(count) ==
    LET n == Smaller(count, FileLen - pos) IN
    IF n = 0 THEN {0} ELSE IF ShortReads THEN 1..n ELSE {n}

----------------------------------------------------------------------------
(* local_infile_read()                                                     *)

\* The callback gives n bytes to the client; 0 is the end of the data. The
\* counters are updated either way.
Return(n) ==
    /\ received' = received \o [i \in 1..n |-> sent + i]
    /\ dataBytes' = dataBytes + n
    /\ prog' = prog + n
    /\ bytesLeft' = IF RangeRead THEN bytesLeft - n ELSE bytesLeft
    /\ overrun' = (overrun \/ n > bufLen)
    /\ pc' = IF n = 0 THEN "result" ELSE "ask"

\* consume(), called when the end offset is end.
Consume(length, end) ==
    LET fits == IF end > 0 THEN Smaller(length, end - trxSize) ELSE length
        n    == Smaller(fits, DataLen) IN
    /\ sent' = sent + n
    /\ trxSize' = trxSize + n
    /\ Return(n)

\* flush_pending()
FlushPending == maxTrx > 0 /\ trxEnd > 0 /\ trxEnd <= trxSize

ReadFlushes ==
    /\ pc = "ask" /\ FlushPending
    /\ Return(0)
    /\ UNCHANGED <<input, pos, sent, trx, eof, point, stats, sleeps, table>>

\* read() without a transaction limit; a range stops at its last byte.
ReadPlain ==
    /\ pc = "ask" /\ maxTrx = 0
    /\ \E n \in FileRead(IF RangeRead THEN Smaller(bufLen, bytesLeft) ELSE bufLen) :
         /\ pos' = pos + n
         /\ sent' = sent + n
         /\ Return(n)
    /\ UNCHANGED <<input, trx, eof, point, stats, sleeps, table>>

\* read_more(): only while the end of the transaction is not known.
ReadMore ==
    /\ \/ pc = "ask" /\ maxTrx > 0 /\ ~FlushPending
       \/ pc = "more"
    /\ IF trxEnd = 0 /\ ~eof
         THEN \E n \in FileRead(bufLen) : pos' = pos + n /\ eof' = (n = 0)
         ELSE UNCHANGED <<pos, eof>>
    /\ pc' = "decide"
    /\ UNCHANGED <<input, sent, trx, point, bytesLeft, dataBytes, prog, stats, sleeps,
                   received, table, overrun>>

\* The end offset once read() has looked for the last row that fits, which it
\* does when the data reaches the limit (twice, in its steps 2 and 3).
KnownEnd ==
    IF trxEnd = 0 /\ DataLen >= Left /\ (Left > 0 \/ ~partial) /\ LastBoundary(Left) > 0
    THEN trxSize + LastBoundary(Left)
    ELSE trxEnd

Decided == UNCHANGED <<input, pos, eof, point, stats, sleeps, table>>

\* Step 3: the end of the transaction is known, send up to it.
SendToEnd ==
    /\ pc = "decide" /\ KnownEnd > 0
    /\ trxEnd' = KnownEnd
    /\ Consume(bufLen, KnownEnd)
    /\ UNCHANGED partial
    /\ Decided

\* More data than the transaction can take, and no row that ends in time:
\* flush the complete rows that were sent.
FlushSentRows ==
    /\ pc = "decide" /\ KnownEnd = 0 /\ DataLen >= Left
    /\ ~partial /\ trxSize > 0
    /\ trxEnd' = trxSize
    /\ Return(0)
    /\ UNCHANGED <<sent, trxSize, partial>>
    /\ Decided

\* The first row of the transaction is longer than the limit: send it up to
\* its end, which ends the transaction, or the part of it that is there.
SendOversized ==
    /\ pc = "decide" /\ KnownEnd = 0 /\ DataLen >= Left
    /\ partial \/ trxSize = 0
    /\ IF FirstBoundary > 0
         THEN /\ trxEnd' = trxSize + FirstBoundary
              /\ UNCHANGED partial
              /\ Consume(bufLen, trxSize + FirstBoundary)
         ELSE /\ partial' = TRUE
              /\ UNCHANGED trxEnd
              /\ Consume(bufLen, 0)
    /\ Decided

\* There is room left: send complete rows.
SendRows ==
    /\ pc = "decide" /\ KnownEnd = 0 /\ DataLen < Left
    /\ LastBoundary(bufLen) > 0
    /\ partial' = FALSE
    /\ Consume(LastBoundary(bufLen), 0)
    /\ UNCHANGED trxEnd
    /\ Decided

\* The next row is complete and fits, but not into the client's buffer.
SendPartOfRow ==
    /\ pc = "decide" /\ KnownEnd = 0 /\ DataLen < Left
    /\ LastBoundary(bufLen) = 0 /\ LastBoundary(Left) > 0
    /\ Consume(Smaller(bufLen, LastBoundary(Left)), 0)
    /\ UNCHANGED <<trxEnd, partial>>
    /\ Decided

NoRow == LastBoundary(bufLen) = 0 /\ LastBoundary(Left) = 0

\* MUTANT: a part of a row is sent after complete rows
SendPartialAlways ==
    /\ pc = "decide" /\ KnownEnd = 0 /\ DataLen < Left /\ NoRow
    /\ DataLen > 0
    /\ Consume(bufLen, 0)
    /\ UNCHANGED <<trxEnd, partial>>
    /\ Decided

\* Only a part of a row is there. It may be sent when no complete row has
\* been: nothing would have to be flushed before it.
SendPartial ==
    /\ pc = "decide" /\ KnownEnd = 0 /\ DataLen < Left /\ NoRow
    /\ trxSize = 0 \/ partial
    /\ partial' = TRUE
    /\ Consume(bufLen, 0)
    /\ UNCHANGED trxEnd
    /\ Decided

\* The rest of the file, a row without a terminator, fits.
SendLastRow ==
    /\ pc = "decide" /\ KnownEnd = 0 /\ DataLen < Left /\ NoRow
    /\ trxSize > 0 /\ ~partial /\ eof
    /\ trxEnd' = trxSize + DataLen
    /\ Consume(bufLen, trxSize + DataLen)
    /\ UNCHANGED partial
    /\ Decided

\* goto retry: whether the row fits is not known yet.
ReadOn ==
    /\ pc = "decide" /\ KnownEnd = 0 /\ DataLen < Left /\ NoRow
    /\ trxSize > 0 /\ ~partial /\ ~eof
    /\ pc' = "more"
    /\ UNCHANGED <<input, pos, sent, trx, eof, point, bytesLeft, dataBytes, prog, stats,
                   sleeps, received, table, overrun>>

Read ==
    \/ ReadFlushes \/ ReadPlain \/ ReadMore \/ SendToEnd \/ FlushSentRows \/ SendOversized
    \/ SendRows \/ SendPartOfRow \/ SendPartial \/ SendLastRow \/ ReadOn

----------------------------------------------------------------------------
(* Load_data_worker::execute()                                             *)

\* The next sub-chunk: mark_retry_point(), and the retry loop is set up.
Start ==
    /\ pc = "start"
    /\ retryOffset' = sent /\ retryValid' = TRUE /\ retryBytesLeft' = bytesLeft
    /\ sleepTime' = FirstSleep /\ totalSleep' = 0
    /\ pc' = "query"
    /\ UNCHANGED <<input, pos, sent, trx, eof, bytesLeft, dataBytes, prog, stats, received,
                   table, overrun>>

\* The server asks for the file: local_infile_init().
LocalInfileInit ==
    /\ pc = "query"
    /\ dataBytes' = 0
    /\ received' = <<>>
    /\ pc' = "ask"
    /\ UNCHANGED <<input, pos, sent, trx, eof, point, bytesLeft, prog, stats, sleeps, table,
                   overrun>>

\* MUTANT: the end of the file does not end the loop over the sub-chunks
CommitAgain ==
    /\ pc = "result"
    /\ table' = table \o received /\ received' = <<>>
    /\ trxSize' = 0 /\ trxEnd' = 0 /\ partial' = FALSE
    /\ stats' = stats + dataBytes
    /\ pc' = IF maxTrx > 0 THEN "start" ELSE "done"
    /\ UNCHANGED <<input, pos, sent, eof, point, bytesLeft, dataBytes, prog, sleeps, overrun>>

\* The statement succeeds: flush_done(), and the loop goes on with the next
\* sub-chunk when there is more data.
Commit ==
    /\ pc = "result"
    /\ table' = table \o received /\ received' = <<>>
    /\ trxSize' = 0 /\ trxEnd' = 0 /\ partial' = FALSE
    /\ stats' = stats + dataBytes
    /\ pc' = IF maxTrx > 0 /\ (~eof \/ DataLen > 0) THEN "start" ELSE "done"
    /\ UNCHANGED <<input, pos, sent, eof, point, bytesLeft, dataBytes, prog, sleeps, overrun>>

\* MUTANT: a failed seek() is ignored
CanRewindAlways == retryValid

\* try_rewind_for_retry()
CanRewind == retryValid /\ seekable

\* MUTANT: the progress of the attempt is kept
RewindKeepProgress ==
    /\ pos' = (IF seekable THEN retryOffset ELSE pos) /\ sent' = pos'
    /\ trxSize' = 0 /\ trxEnd' = 0 /\ partial' = FALSE /\ eof' = FALSE
    /\ bytesLeft' = retryBytesLeft
    /\ UNCHANGED prog

\* m_data is dropped, the file goes back to the retry point.
Rewind ==
    /\ pos' = (IF seekable THEN retryOffset ELSE pos) /\ sent' = pos'
    /\ trxSize' = 0 /\ trxEnd' = 0 /\ partial' = FALSE /\ eof' = FALSE
    /\ bytesLeft' = retryBytesLeft
    /\ prog' = prog - dataBytes

\* The sleep before the next attempt: doubled each time, cut at the limit.
Backoff ==
    LET ms == Smaller(sleepTime, MaxSleep - totalSleep) IN
    /\ totalSleep' = totalSleep + ms
    /\ sleepTime' = 2 * ms

\* The server rolled the statement back, at its end or ("early") before it
\* asked for the file.
Deadlocked ==
    \/ pc = "result" /\ "deadlock" \in errors
    \/ pc = "query" /\ "early" \in errors

Retry ==
    /\ Deadlocked
    /\ totalSleep < MaxSleep /\ CanRewind
    /\ Rewind /\ Backoff
    /\ received' = <<>>
    /\ pc' = "query"
    /\ UNCHANGED <<input, point, dataBytes, stats, table, overrun>>

\* No retry is possible, the callback failed, or the error is another one.
Fail ==
    /\ \/ Deadlocked /\ ~(totalSleep < MaxSleep /\ CanRewind)
       \/ "error" \in errors /\ pc \in {"ask", "result"}
    /\ received' = <<>>
    /\ pc' = "failed"
    /\ UNCHANGED <<input, pos, sent, trx, eof, point, bytesLeft, dataBytes, prog, stats,
                   sleeps, table, overrun>>

Next == Start \/ LocalInfileInit \/ Read \/ Commit \/ Retry \/ Fail

\* The worker thread runs on; nothing says how the server answers.
Spec     == Init /\ [][Next]_vars
FairSpec == Spec /\ WF_vars(Next)

----------------------------------------------------------------------------
(* Properties.                                                             *)

\* Every byte of the input is committed once and in order, through any number
\* of sub-chunks, rollbacks and retries; what a retry sends again was rolled
\* back.
ExactlyOnce == \A i \in 1..Len(table) : table[i] = First + i

\* A worker that reports success has loaded all of its file or range, even
\* when the end of the file is only found by an empty read, or its last row
\* has no terminator.
DoneMeansLoaded == pc = "done" => table = [i \in 1..(Last - First) |-> First + i]

\* The two together: execute() loads its input, all of it and nothing twice.
LoadedOnce == ExactlyOnce /\ DoneMeansLoaded

\* A sub-chunk is committed at the end of a row: no row is split between two
\* transactions.  It is larger than max_trx_size only when it is a single row
\* that is itself longer than that.
SubChunks ==
    [][maxTrx > 0 /\ table' # table =>
        /\ First + Len(table') \in rowEnds \cup {FileLen}
        /\ Len(received) > maxTrx =>
              ~\E e \in rowEnds : First + Len(table) < e /\ e < First + Len(table')]_vars

\* Between two statements the progress shows what is committed: a rolled back
\* attempt leaves no trace in it (the comment of the retry loop), and at the
\* end progress and statistics agree.  Not so for a statement that is rolled
\* back before the server asks for the file: the bytes of the previous
\* statement are then subtracted.
ProgressExact ==
    "early" \notin errors =>
        /\ pc \in {"start", "query", "done"} => prog = Len(table)
        /\ pc \in {"start", "done"} => stats = prog

\* assert(bytes <= len) in local_infile_read(): no callback returns more than
\* the client's buffer has room for.
WithinBuffer == ~overrun

\* The retries of one statement sleep at most k_max_deadlock_retry_time_ms.
SleepBounded == totalSleep <= MaxSleep

\* The counters of the worker stay in their ranges and say what they should:
\* the bytes of a range never underflow (TypeOK), and the three facts above.
Counters == TypeOK /\ ProgressExact /\ WithinBuffer /\ SleepBounded

\* The worker ends, even if every statement is a deadlock victim each time.
Termination == <>(pc \in {"done", "failed"})
============================================================================
