------------------------------ MODULE CopyPipe ------------------------------
(***************************************************************************)
(* The pipe of the copy utilities: a dump worker writes the rows of a      *)
(* chunk, a load worker sends them to the target with LOAD DATA, and the   *)
(* two meet in a Synchronized_file of the in-memory file system            *)
(* (src/mysqlshdk/libs/storage/backend/in_memory/synchronized_file.cc).    *)
(* The reader lends its buffer to the writer, who copies whole rows into   *)
(* it; two queues pass the request back and forth.  The reader is          *)
(* Transaction_buffer::fast_sub_chunking() of load_data.cc, which ends a   *)
(* statement when the transaction is full.                                 *)
(*                                                                         *)
(* A byte is its offset in the file; 0 is a byte that nobody has written.  *)
(* The flags of an interrupt are set one after the other by the main       *)
(* thread of copy_operation.cc, in the order of its code.  The other       *)
(* workers of the two sides are an environment: they may fail, and the     *)
(* run() of a side that failed throws when all of them have left.          *)
(***************************************************************************)
EXTENDS Integers, Sequences

CONSTANTS
  Files,     \* contents: sequences of the lengths of rows
  BufLens,   \* lengths of the buffers of the client library
  MaxTrx,    \* max_trx_size
  Faults     \* what may happen: "interrupt", "writer", "reader", "other"

ASSUME SizesAssumption ==
  /\ \A f \in Files : f \in Seq(Nat \ {0})
  /\ BufLens \subseteq Nat \ {0}
  /\ MaxTrx \in Nat \ {0}

ASSUME FaultsAssumption == Faults \subseteq {"interrupt", "writer", "reader", "other"}

VARIABLES
  file,        \* the rows of the chunk
  requests,    \* m_read_requests: the number of tokens
  responses,   \* m_read_responses
  request,     \* m_request: the room left, the bytes written, and the bytes
  pending,     \* m_pending_write
  wpc, row,    \* the writer: where it is, the row it writes
  rpc,         \* the reader: where it is
  target,      \* the buffer that the reader lent: "buffer" or "data"
  buflen,      \* the length of the buffer of the client library
  data,        \* m_data
  trx, eof,    \* m_trx_size, m_eof
  sent,        \* what the statement has sent so far
  loaded,      \* what is committed
  signals,     \* the flags that the main thread is going to set
  fs, dumper, loader,  \* the flags: Virtual_fs, m_worker_interrupt, hard
  cancelled,   \* ^C was pressed
  broken       \* the side whose run() is going to throw, or has thrown

pipe == <<requests, responses, request, pending>>
writer == <<wpc, row>>
reader == <<rpc, target, buflen, data, trx, eof, sent, loaded>>
flags == <<signals, fs, dumper, loader, cancelled, broken>>
pipeVars == <<file, pipe, writer, reader, flags>>

\* Offset of the end of the n-th row.
RowEnd == LET end[n \in 0..Len(file)] == IF n = 0 THEN 0
                                         ELSE end[n - 1] + file[n]
          IN  end

FileSize == RowEnd[Len(file)]

\* The bytes of the n-th row.
RowBytes(n) == [k \in 1..file[n] |-> RowEnd[n - 1] + k]

Zeros(n) == [k \in 1..n |-> 0]

NoRequest == [length |-> 0, bytes |-> <<>>]

PipeInit ==
  /\ file \in Files
  /\ requests = 0 /\ responses = <<>> /\ request = NoRequest /\ pending = 0
  /\ wpc = "row" /\ row = 1
  /\ rpc = "call" /\ target = "buffer" /\ buflen = 0
  /\ data = <<>> /\ trx = 0 /\ eof = FALSE
  /\ sent = <<>> /\ loaded = <<>>
  /\ signals = <<>> /\ fs = FALSE /\ dumper = FALSE /\ loader = FALSE
  /\ cancelled = FALSE /\ broken = "none"

\* BOUND: one thing goes wrong.
Sound == broken = "none" /\ ~cancelled

-----------------------------------------------------------------------------
(* The writer: dump_table_data_impl(), write(), close() *)

WriterAt(p) == wpc = p
WriterGoto(p) == wpc' = p /\ UNCHANGED row

\* The next row of the result, unless the dump was interrupted: then the task
\* returns and the file stays open.
WriteRow ==
  /\ WriterAt("row")
  /\ \/ /\ row <= Len(file) /\ ~dumper
        /\ pending' = file[row]
        /\ WriterGoto("check")
     \/ /\ row <= Len(file) /\ dumper
        /\ WriterGoto("gone")
        /\ UNCHANGED pending
     \/ /\ row > Len(file)
        /\ WriterGoto("close")
        /\ UNCHANGED pending
  /\ UNCHANGED <<file, requests, responses, request, reader, flags>>

NextRow == wpc' = "row" /\ row' = row + 1

\* The top of the loop of write(): an interrupted write has written nothing,
\* which its caller takes for a success.
WriteCheck ==
  /\ WriterAt("check")
  /\ IF fs THEN NextRow ELSE WriterGoto("pop")
  /\ UNCHANGED <<file, pipe, reader, flags>>

\* m_read_requests.try_pop(), which times out when there is no request.
WritePop ==
  /\ WriterAt("pop")
  /\ IF requests > 0
     THEN requests' = requests - 1 /\ WriterGoto("serve")
     ELSE UNCHANGED requests /\ WriterGoto("check")
  /\ UNCHANGED <<file, responses, request, pending, reader, flags>>

Respond(n) == responses' = Append(responses, n)

\* The row is longer than the room that is left: the reader gets what was
\* written so far, or -1.
ServeTooLong ==
  /\ WriterAt("serve")
  /\ file[row] > request.length
  /\ Respond(IF request.bytes = <<>> THEN -1 ELSE Len(request.bytes))
  /\ WriterGoto("check")
  /\ UNCHANGED <<file, requests, request, pending, reader, flags>>

\* MUTANT: every row is handed over, and the request goes back all the same.
ServeCopyAnswers ==
  /\ WriterAt("serve")
  /\ file[row] <= request.length
  /\ request' = [length |-> request.length - file[row],
                 bytes |-> request.bytes \o RowBytes(row)]
  /\ pending' = 0
  /\ Respond(Len(request'.bytes))
  /\ requests' = IF request'.length = 0 THEN requests ELSE requests + 1
  /\ NextRow
  /\ UNCHANGED <<file, reader, flags>>

\* The row is copied.  A full buffer is handed over, another one goes back to
\* the queue.  (What is copied for a reader that has left goes nowhere.)
ServeCopy ==
  /\ WriterAt("serve")
  /\ file[row] <= request.length
  /\ request' = [length |-> request.length - file[row],
                 bytes |-> request.bytes \o RowBytes(row)]
  /\ pending' = 0
  /\ IF request'.length = 0
     THEN Respond(Len(request'.bytes)) /\ UNCHANGED requests
     ELSE requests' = requests + 1 /\ UNCHANGED responses
  /\ NextRow
  /\ UNCHANGED <<file, reader, flags>>

\* close(): a pending request is answered, then the end is signalled.
Close ==
  /\ WriterAt("close")
  /\ IF requests > 0
     THEN /\ requests' = requests - 1
          /\ responses' = responses \o
               (IF request.bytes = <<>> THEN <<0>>
                                        ELSE <<Len(request.bytes), 0>>)
     ELSE UNCHANGED requests /\ Respond(0)
  /\ WriterGoto("closed")
  /\ UNCHANGED <<file, request, pending, reader, flags>>

\* emergency_shutdown() of the dumper.
DumperBreaks ==
  /\ Sound
  /\ broken' = "dumper" /\ dumper' = TRUE
  /\ UNCHANGED <<file, pipe, reader, signals, fs, loader, cancelled>>

\* The query of the dump fails; the file stays open.
WriterFails ==
  /\ "writer" \in Faults
  /\ WriterAt("row")
  /\ WriterGoto("gone")
  /\ DumperBreaks

\* A worker that dumps something else fails.
OtherFails ==
  /\ "other" \in Faults
  /\ DumperBreaks
  /\ UNCHANGED writer

WriterStep ==
  \/ WriteRow
  \/ WriteCheck
  \/ WritePop
  \/ ServeTooLong
  \/ ServeCopy
  \/ Close

-----------------------------------------------------------------------------
(* The reader: local_infile_read(), fast_sub_chunking(), read() *)

ReaderAt(p) == rpc = p

\* What local_infile_read() returns to the client library: the bytes of a
\* read, none at the end of the statement, and an error when interrupted.
Return(bytes) ==
  /\ sent' = sent \o bytes
  /\ rpc' = IF loader THEN "failed"
            ELSE IF bytes = <<>> THEN "commit" ELSE "call"
  /\ buflen' = 0

Shorter(a, b) == IF a < b THEN a ELSE b

\* consume(): the bytes that were stored locally go first.
Consume(d, n) ==
  LET len == Shorter(n, Len(d))
  IN  /\ Return(SubSeq(d, 1, len))
      /\ data' = SubSeq(d, len + 1, Len(d))
      /\ trx' = trx + len

\* The beginning of Synchronized_file::read().
Request(n, to) ==
  /\ request' = [length |-> n, bytes |-> <<>>]
  /\ requests' = requests + 1
  /\ rpc' = "check"
  /\ target' = to

ReadLocal ==
  /\ ReaderAt("call") /\ data # <<>>
  /\ \E n \in BufLens : Consume(data, n)
  /\ UNCHANGED <<file, pipe, writer, target, eof, loaded, flags>>

\* The transaction is full.
ReadFull ==
  /\ ReaderAt("call") /\ data = <<>> /\ trx >= MaxTrx
  /\ Return(<<>>)
  /\ UNCHANGED <<file, pipe, writer, target, data, trx, eof, loaded, flags>>

ReadFile ==
  /\ ReaderAt("call") /\ data = <<>> /\ trx < MaxTrx
  /\ \E n \in BufLens :
       /\ buflen' = n
       /\ Request(Shorter(n, MaxTrx - trx), "buffer")
  /\ UNCHANGED <<file, responses, pending, writer, data, trx, eof, sent,
                 loaded, flags>>

\* MUTANT: a reader that waits does not look at the flag.
CheckNothing ==
  /\ ReaderAt("check")
  /\ rpc' = "pop"
  /\ UNCHANGED <<file, pipe, writer, target, buflen, data, trx, eof, sent,
                 loaded, flags>>

\* The loop of Synchronized_file::read(): interrupted, it returns 0, as at the
\* end of the file.
ReadCheck ==
  /\ ReaderAt("check")
  /\ IF ~fs
     THEN rpc' = "pop" /\ UNCHANGED <<buflen, sent, eof>>
     ELSE Return(<<>>) /\ eof' = (eof \/ target = "buffer")
  /\ UNCHANGED <<file, pipe, writer, target, data, trx, loaded, flags>>

ReadTimeout ==
  /\ ReaderAt("pop") /\ responses = <<>>
  /\ rpc' = "check"
  /\ UNCHANGED <<file, pipe, writer, target, buflen, data, trx, eof, sent,
                 loaded, flags>>

\* MUTANT: the row is fetched although the statement has sent others.
FetchAlways ==
  /\ data' = Zeros(pending)
  /\ Request(pending, "data")
  /\ UNCHANGED <<buflen, trx, eof, sent>>

\* No row fits: the statement ends if it has sent something, otherwise the row
\* is fetched into a local buffer of the right size.
FetchRow ==
  IF trx > 0
  THEN Return(<<>>) /\ UNCHANGED <<requests, request, target, data, trx, eof>>
  ELSE /\ data' = Zeros(pending)
       /\ Request(pending, "data")
       /\ UNCHANGED <<buflen, trx, eof, sent>>

\* A response to a read into the buffer of the client library.
ReadResponse ==
  /\ ReaderAt("pop") /\ target = "buffer" /\ responses # <<>>
  /\ responses' = Tail(responses)
  /\ \/ /\ Head(responses) = 0
        /\ eof' = TRUE
        /\ Return(<<>>)
        /\ UNCHANGED <<requests, request, target, data, trx>>
     \/ /\ Head(responses) < 0
        /\ FetchRow
     \/ /\ Head(responses) > 0
        /\ Return(request.bytes)
        /\ trx' = trx + Head(responses)
        /\ UNCHANGED <<requests, request, target, data, eof>>
  /\ UNCHANGED <<file, pending, writer, loaded, flags>>

\* A worker of the loader reports FATAL_ERROR.
LoaderBreaks ==
  /\ rpc' = "failed"
  /\ broken' = IF broken = "none" THEN "loader" ELSE broken
  /\ UNCHANGED <<signals, fs, dumper, loader, cancelled>>

\* The response to the read of a row that did not fit; -1 is an error to the
\* client library, and the statement fails.
ReadRowResponse ==
  /\ ReaderAt("pop") /\ target = "data" /\ responses # <<>>
  /\ responses' = Tail(responses)
  /\ \/ /\ Head(responses) < 0
        /\ LoaderBreaks
        /\ UNCHANGED <<buflen, data, trx, sent>>
     \/ /\ Head(responses) = 0
        /\ Return(<<>>)
        /\ UNCHANGED <<data, trx, flags>>
     \/ /\ Head(responses) > 0
        /\ Consume(request.bytes, buflen)
        /\ UNCHANGED flags
  /\ UNCHANGED <<file, requests, request, pending, writer, target, eof, loaded>>

\* The statement is executed and flush_done() tells whether there is more.
Commit ==
  /\ ReaderAt("commit")
  /\ loaded' = loaded \o sent
  /\ sent' = <<>> /\ trx' = 0
  /\ rpc' = IF eof /\ data = <<>> THEN "done" ELSE "call"
  /\ UNCHANGED <<file, pipe, writer, target, buflen, data, eof, flags>>

\* The statement fails, at its end or between two reads: a deadlock is not
\* retried, as there is nothing to seek back to.  Before the first read this is
\* a file that no worker comes to load, because the loader failed elsewhere.
ReaderFails ==
  /\ "reader" \in Faults
  /\ Sound
  /\ rpc \in {"call", "commit"}
  /\ LoaderBreaks
  /\ UNCHANGED <<file, pipe, writer, target, buflen, data, trx, eof, sent, loaded>>

ReaderStep ==
  \/ ReadLocal
  \/ ReadFull
  \/ ReadFile
  \/ ReadCheck
  \/ ReadTimeout
  \/ ReadResponse
  \/ ReadRowResponse
  \/ Commit

-----------------------------------------------------------------------------
(* The main thread of copy() *)

\* ^C: the order of the calls in the handler.
Interrupt ==
  /\ "interrupt" \in Faults
  /\ Sound
  /\ signals' = <<"fs", "dumper", "loader">>
  /\ cancelled' = TRUE
  /\ UNCHANGED <<file, pipe, writer, reader, fs, dumper, loader, broken>>

WriterDone == wpc \in {"closed", "gone"}
ReaderDone == rpc \in {"done", "failed"}

\* The run() of the side that failed throws, after it has joined its workers:
\* this one, and the others, which may take any time.
Throws ==
  /\ signals = <<>> /\ ~fs
  /\ \/ /\ broken = "dumper" /\ WriterDone
        /\ signals' = <<"loader", "fs">>
     \/ /\ broken = "loader" /\ ReaderDone
        /\ signals' = <<"dumper", "fs">>
  /\ UNCHANGED <<file, pipe, writer, reader, fs, dumper, loader, cancelled, broken>>

\* The next flag is set.
Signal ==
  /\ signals # <<>>
  /\ signals' = Tail(signals)
  /\ fs' = (fs \/ Head(signals) = "fs")
  /\ dumper' = (dumper \/ Head(signals) = "dumper")
  /\ loader' = (loader \/ Head(signals) = "loader")
  /\ UNCHANGED <<file, pipe, writer, reader, cancelled, broken>>

PipeNext ==
  \/ WriterStep
  \/ WriterFails
  \/ OtherFails
  \/ ReaderStep
  \/ ReaderFails
  \/ Interrupt
  \/ Throws
  \/ Signal

PipeSpec == PipeInit /\ [][PipeNext]_pipeVars

\* The three threads run; faults need not happen, and nothing is said of when
\* the other workers of a side that failed leave.
FairPipeSpec ==
  /\ PipeSpec
  /\ WF_pipeVars(WriterStep)
  /\ WF_pipeVars(ReaderStep)
  /\ WF_pipeVars(Signal)

-----------------------------------------------------------------------------
(* Properties *)

Bytes == 0..FileSize

\* The variables have their types; a request is never longer than the buffer or
\* the file.
PipeTypeOK ==
  /\ file \in Files
  /\ requests \in Nat
  /\ responses \in Seq(-1..FileSize)
  /\ request.length \in Nat
  /\ request.length <= FileSize \/ \E n \in BufLens : request.length <= n
  /\ request.bytes \in Seq(Bytes)
  /\ pending \in Nat
  /\ wpc \in {"row", "check", "pop", "serve", "close", "closed", "gone"}
  /\ row \in 1..Len(file) + 1
  /\ rpc \in {"call", "check", "pop", "commit", "done", "failed"}
  /\ target \in {"buffer", "data"}
  /\ buflen \in {0} \union BufLens
  /\ data \in Seq(Bytes) /\ sent \in Seq(Bytes) /\ loaded \in Seq(Bytes)
  /\ trx \in Nat /\ eof \in BOOLEAN
  /\ fs \in BOOLEAN /\ dumper \in BOOLEAN /\ loader \in BOOLEAN
  /\ cancelled \in BOOLEAN /\ broken \in {"none", "dumper", "loader"}

\* What the target receives is what the source has written: every byte once,
\* in order, and nothing else, until ^C is pressed.
StreamIntact ==
  LET received == loaded \o sent
  IN  ~cancelled => received = [k \in 1..Len(received) |-> k]

\* What is committed ends with a row: a statement never tears one, however
\* the rows fit into the buffers and the transaction.
WholeRows ==
  ~cancelled /\ rpc # "failed" => Len(loaded) \in {RowEnd[n] : n \in 0..Len(file)}

\* A transaction exceeds its limit only if it is a single row.
TrxWithinLimit ==
  ~cancelled /\ Len(sent) > MaxTrx =>
    \E n \in 1..Len(file) : Len(loaded) = RowEnd[n - 1]
                            /\ Len(loaded) + Len(sent) <= RowEnd[n]

\* A chunk that the loader has finished without being interrupted has all of
\* its rows in the target.
DoneMeansCopied == rpc = "done" /\ ~fs => Len(loaded) = FileSize

\* The copy is exact: the four properties above.
CopyExact == StreamIntact /\ WholeRows /\ TrxWithinLimit /\ DoneMeansCopied

\* "access to this variable is protected by the two queues": there is one
\* request at most, and the reader is waiting while the writer holds it.
\* After ^C the reader leaves without it.
RequestProtected ==
  /\ PipeTypeOK
  /\ ~cancelled => /\ requests <= 1 /\ Len(responses) <= 2
                   /\ wpc = "serve" => rpc \in {"check", "pop"} /\ requests = 0

\* The condition of BothEnd: once the worker of this pipe has left the side that
\* failed, the others leave too, so that run() throws and the file system is
\* interrupted.  One that waits in another pipe, for somebody who waits for
\* the side that failed, does not leave.
OthersLeave ==
  /\ (broken = "dumper" /\ WriterDone) ~> fs
  /\ (broken = "loader" /\ ReaderDone) ~> fs

\* Both sides of a pipe finish, whichever of them fails and whenever ^C arrives,
\* provided that the other workers of the side that failed leave.  Without a
\* failure there is no condition.
BothEnd == OthersLeave => <>(WriterDone /\ ReaderDone)
=============================================================================
