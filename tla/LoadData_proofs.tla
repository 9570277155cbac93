--------------------------- MODULE LoadData_proofs ---------------------------
(***************************************************************************)
(* Proofs about LoadData, for every file, layout of its rows, buffer and   *)
(* transaction size, and every sequence of answers of the server:          *)
(*                                                                         *)
(*   - LoadedCorrect: every byte of the input is committed once, in order; *)
(*   - CountersCorrect: progress, statistics and buffers are exact;        *)
(*   - SubChunksCorrect: no row is split between two transactions.         *)
(*                                                                         *)
(* Base is where the current statement starts: everything before it is     *)
(* committed.  Stream and Counting say what was sent since; Limits and     *)
(* Rows say where the end of the transaction may be.                       *)
(***************************************************************************)
EXTENDS LoadData, SequenceTheorems, WellFoundedInduction, TLAPS

Sending == {"ask", "more", "decide", "result"}

Base == First + Len(table)

\* The input of execute(), which no step changes.
InputOK ==
  /\ rowEnds \in SUBSET (Needle..FileLen)
  /\ bufLen \in BufLens /\ maxTrx \in Nat
  /\ RangeRead => range \in Ranges /\ maxTrx = 0

\* What is committed is the beginning of the input, and what the current
\* statement has received continues it; a retry goes back to Base.
Stream ==
  /\ ExactlyOnce
  /\ pc \in {"start", "query", "done"} => sent = Base
  /\ pc \in {"start", "query"} => received = <<>>
  /\ pc \in Sending \cup {"query"} => retryOffset = Base
  /\ pc \in Sending => /\ Len(received) = sent - Base
                       /\ \A i \in 1..Len(received) : received[i] = Base + i

\* Without a transaction limit nothing is buffered, and a range knows how many
\* bytes are left.  With one, the end of the transaction is in the buffer.
Limits ==
  /\ eof => pos = FileLen
  /\ maxTrx = 0 => pos = sent /\ trxEnd = 0 /\ pc \notin {"more", "decide"}
  /\ RangeRead => bytesLeft = Last - sent
  /\ ~RangeRead => bytesLeft = 0
  /\ pc \in Sending \cup {"query"} => retryBytesLeft =
       (IF RangeRead THEN Last - retryOffset ELSE 0)
  /\ pc \in {"start", "query"} => trxSize = 0 /\ trxEnd = 0 /\ ~partial
  /\ pc \in Sending /\ maxTrx > 0 => trxSize = sent - Base
  /\ pc \in Sending /\ trxEnd > 0 => trxSize <= trxEnd /\ Base + trxEnd <= pos
  /\ pc = "more" => trxEnd = 0 /\ ~eof
  /\ pc = "decide" => IF trxEnd = 0 THEN eof \/ sent < pos ELSE trxSize < trxEnd
  /\ pc = "result" /\ maxTrx = 0 => sent = Last
  /\ pc = "done" => sent = Last

\* The counters are those of the stream.
Counting ==
  /\ stats = Len(table)
  /\ pc \in Sending => dataBytes = Len(received)
  /\ "early" \notin errors =>
       /\ pc \in {"start", "query", "done"} => prog = Len(table)
       /\ pc \in Sending => prog = Len(table) + dataBytes
  /\ totalSleep <= MaxSleep

\* Where the transaction ends, once that is known; before, either complete rows
\* were sent, or the rows sent are followed by one that fits, or a part of a
\* single row was sent.
Rows ==
  pc \in Sending /\ maxTrx > 0 =>
    /\ trxEnd > 0 =>
         /\ Base + trxEnd \in rowEnds \cup {FileLen}
         /\ trxEnd > maxTrx => \A e \in rowEnds : e <= Base \/ e >= Base + trxEnd
    /\ trxEnd = 0 /\ ~partial =>
         /\ trxSize < maxTrx
         /\ \/ sent = Base \/ sent \in rowEnds
            \/ \E e \in rowEnds : sent < e /\ e <= pos /\ e < Base + maxTrx
    /\ trxEnd = 0 /\ partial => \A e \in rowEnds : e <= Base \/ e > sent
    /\ pc = "result" => sent = Base \/ sent \in rowEnds \cup {FileLen}

\* With terminators of one byte, a row that ends within the buffer of the
\* client has its terminator there.
Room == Needle = 1 => overrun = FALSE

LoadInv == InputOK /\ TypeOK /\ Stream /\ Limits /\ Counting /\ Room

-----------------------------------------------------------------------------
(* Sequences and numbers *)

\* Every set of natural numbers has a least element.
LEMMA LeastExists ==
  ASSUME NEW S \in SUBSET Nat, S # {}
  PROVE  \E x \in S : \A y \in S : x <= y
  <1>1. IsWellFoundedOn(OpToRel(<, Nat), Nat)
    BY NatLessThanWellFounded
  <1>2. \E x \in S : \A y \in S : ~(<<y, x>> \in OpToRel(<, Nat))
    BY <1>1, WFMin
  <1>3. PICK x \in S : \A y \in S : ~(<<y, x>> \in OpToRel(<, Nat))
    BY <1>2
  <1>4. \A y \in S : ~(y < x)
    BY <1>3 DEF OpToRel
  <1>. QED  BY <1>4

\* A bounded set of natural numbers has a largest element.
LEMMA LargestExists ==
  ASSUME NEW n \in Nat, NEW S \in SUBSET (0..n), S # {}
  PROVE  \E x \in S : \A y \in S : y <= x
  <1> DEFINE T == {k \in Nat : n - k \in S}
  <1>1. PICK z \in S : TRUE
    OBVIOUS
  <1>2. n - z \in Nat /\ n - (n - z) = z
    BY <1>1
  <1>3. n - z \in T
    BY <1>1, <1>2
  <1>4. T \in SUBSET Nat /\ T # {}
    BY <1>3
  <1>5. PICK k \in T : \A l \in T : k <= l
    BY <1>4, LeastExists
  <1>6. ASSUME NEW y \in S
        PROVE  y <= n - k
    <2>1. n - y \in Nat /\ n - (n - y) = y
      OBVIOUS
    <2>2. n - y \in T
      BY <2>1
    <2>3. k <= n - y /\ k \in Nat
      BY <1>5, <2>2
    <2>. QED  BY <2>1, <2>3
  <1>. QED  BY <1>5, <1>6

\* The bytes from b + 1 to b + n, as a sequence.
LEMMA RunIsSeq ==
  ASSUME NEW S, NEW b \in Int, NEW n \in Nat, \A i \in 1..n : b + i \in S
  PROVE  LET t == [i \in 1..n |-> b + i]
         IN  t \in Seq(S) /\ Len(t) = n /\ \A i \in 1..n : t[i] = b + i
  OBVIOUS

\* Two runs of bytes, one behind the other, are a run.
LEMMA ConcatRun ==
  ASSUME NEW S, NEW s \in Seq(S), NEW t \in Seq(S), NEW b \in Int,
         \A i \in 1..Len(s) : s[i] = b + i,
         \A i \in 1..Len(t) : t[i] = b + Len(s) + i
  PROVE  /\ s \o t \in Seq(S) /\ Len(s \o t) = Len(s) + Len(t)
         /\ \A i \in 1..Len(s \o t) : (s \o t)[i] = b + i
  <1>1. s \o t \in Seq(S) /\ Len(s \o t) = Len(s) + Len(t)
    BY ConcatProperties
  <1>2. ASSUME NEW i \in 1..Len(s \o t)
        PROVE  (s \o t)[i] = b + i
    <2>1. CASE i <= Len(s)
      BY <1>1, <2>1
    <2>2. CASE i > Len(s)
      <3>1. i - Len(s) \in 1..Len(t)
        BY <1>1, <2>2
      <3>2. (s \o t)[i] = t[i - Len(s)]
        BY <1>1, <2>2
      <3>3. t[i - Len(s)] = b + Len(s) + (i - Len(s))
        BY <3>1
      <3>. QED  BY <3>2, <3>3, <1>1
    <2>. QED  BY <2>1, <2>2, <1>1
  <1>. QED  BY <1>1, <1>2

-----------------------------------------------------------------------------
(* The input, and the boundaries in the buffer *)

\* The input is a file, or a range of one.
LEMMA InputBounds ==
  ASSUME InputOK
  PROVE  /\ FileLen \in Nat /\ Needle \in Nat /\ Needle > 0
         /\ bufLen \in Nat /\ bufLen > 0 /\ maxTrx \in Nat
         /\ First \in Nat /\ Last \in Nat /\ First <= Last /\ Last <= FileLen
         /\ ~RangeRead => First = 0 /\ Last = FileLen
         /\ maxTrx > 0 => ~RangeRead
  <1>1. /\ FileLen \in Nat /\ Needle \in Nat /\ Needle > 0
        /\ bufLen \in Nat /\ bufLen > 0 /\ maxTrx \in Nat
    BY LoadAssumption DEF InputOK
  <1>2. CASE RangeRead
    <2>1. range \in Ranges
      BY <1>2 DEF InputOK
    <2>2. /\ range[1] \in 0..FileLen /\ range[2] \in 0..FileLen
          /\ range[1] <= range[2]
      BY <2>1, LoadAssumption
    <2>. QED  BY <1>1, <1>2, <2>2 DEF First, Last, InputOK
  <1>3. CASE ~RangeRead
    BY <1>1, <1>3 DEF First, Last
  <1>. QED  BY <1>1, <1>2, <1>3

\* No step changes the input.
LEMMA InputStays ==
  ASSUME InputOK, UNCHANGED input
  PROVE  /\ InputOK' /\ RangeRead' = RangeRead /\ First' = First /\ Last' = Last
         /\ rowEnds' = rowEnds /\ bufLen' = bufLen /\ maxTrx' = maxTrx
         /\ errors' = errors /\ seekable' = seekable
  BY DEF InputOK, input, RangeRead, First, Last

\* The variables as numbers.
LEMMA Positions ==
  ASSUME InputOK, TypeOK
  PROVE  /\ pos \in Int /\ sent \in Int /\ retryOffset \in Int
         /\ First <= retryOffset /\ retryOffset <= sent /\ sent <= pos
         /\ pos <= FileLen /\ First <= sent
         /\ trxSize \in Nat /\ trxEnd \in Nat
         /\ Len(table) \in Nat /\ Base \in Int /\ Len(received) \in Nat
         /\ table \in Seq(1..FileLen) /\ received \in Seq(1..FileLen)
         /\ dataBytes \in Nat /\ prog \in Int /\ stats \in Nat
         /\ DataLen \in Nat /\ DataLen = pos - sent
         /\ Left \in Int /\ Left = maxTrx - trxSize
  <1>1. FileLen \in Nat /\ First \in Nat /\ maxTrx \in Nat
    BY InputBounds
  <1>2. /\ pos \in Int /\ sent \in Int /\ retryOffset \in Int
        /\ First <= retryOffset /\ retryOffset <= sent /\ sent <= pos
        /\ pos <= FileLen /\ First <= sent
        /\ trxSize \in Nat /\ trxEnd \in Nat
        /\ dataBytes \in Nat /\ prog \in Int /\ stats \in Nat
    BY <1>1 DEF TypeOK
  <1>3. table \in Seq(1..FileLen) /\ received \in Seq(1..FileLen)
    BY DEF TypeOK
  <1>4. Len(table) \in Nat /\ Len(received) \in Nat
    BY <1>3
  <1>. QED  BY <1>1, <1>2, <1>3, <1>4 DEF Base, DataLen, Left

\* A terminator that starts in the buffer ends a row in the buffer, and each
\* row that ends there, with its whole terminator, is seen.
LEMMA StartsAreRows ==
  ASSUME InputOK, TypeOK
  PROVE  /\ \A s \in Starts : /\ s \in 0..DataLen /\ s + Needle <= DataLen
                              /\ sent + s + Needle \in rowEnds
         /\ \A e \in rowEnds : e <= pos /\ e - Needle >= sent =>
              e - Needle - sent \in Starts
  <1>1. /\ pos \in Int /\ sent \in Int /\ DataLen = pos - sent
        /\ Needle \in Nat /\ FileLen \in Nat /\ rowEnds \subseteq Int
    BY Positions, InputBounds DEF InputOK
  <1>2. ASSUME NEW s \in Starts
        PROVE  /\ s \in 0..DataLen /\ s + Needle <= DataLen
               /\ sent + s + Needle \in rowEnds
    <2>1. PICK e \in rowEnds : e <= pos /\ e - Needle >= sent /\ s = e - Needle - sent
      BY DEF Starts
    <2>2. e \in Int /\ sent + s + Needle = e
      BY <1>1, <2>1
    <2>. QED  BY <1>1, <2>1, <2>2
  <1>3. \A e \in rowEnds : e <= pos /\ e - Needle >= sent => e - Needle - sent \in Starts
    BY DEF Starts
  <1>. QED  BY <1>2, <1>3

\* The last index at which find_last_row_boundary_before() looks for a row.
Reach(limit) == IF limit > 0 /\ limit < DataLen THEN limit - 1 ELSE DataLen

\* What find_last_row_boundary_before() returns.
LEMMA LastBoundaryIs ==
  ASSUME InputOK, TypeOK, NEW limit \in Int
  PROVE  /\ LastBoundary(limit) \in 0..DataLen
         /\ LastBoundary(limit) > 0 =>
              /\ LastBoundary(limit) - Needle \in Starts
              /\ LastBoundary(limit) - Needle <= Reach(limit)
              /\ sent + LastBoundary(limit) \in rowEnds
         /\ LastBoundary(limit) = 0 =>
              Reach(limit) < Needle \/ \A s \in Starts : s > Reach(limit)
  <1> DEFINE found == {s \in Starts : s <= Reach(limit)}
  <1>1. /\ DataLen \in Nat /\ Needle \in Nat /\ Needle > 0 /\ sent \in Int
        /\ Reach(limit) \in Int
    BY Positions, InputBounds DEF Reach
  <1>2. LastBoundary(limit) =
          IF Reach(limit) < Needle \/ found = {} THEN 0
          ELSE (CHOOSE s \in found : \A t \in found : t <= s) + Needle
    BY DEF LastBoundary, Reach
  <1>3. Starts \subseteq 0..DataLen
    BY StartsAreRows
  <1>4. CASE Reach(limit) < Needle \/ found = {}
    <2>1. LastBoundary(limit) = 0
      BY <1>2, <1>4
    <2>2. Reach(limit) < Needle \/ \A s \in Starts : s > Reach(limit)
      BY <1>1, <1>3, <1>4
    <2>. QED  BY <1>1, <2>1, <2>2
  <1>5. CASE ~(Reach(limit) < Needle \/ found = {})
    <2>1. found \in SUBSET (0..DataLen) /\ found # {}
      BY <1>3, <1>5
    <2>2. \E s \in found : \A t \in found : t <= s
      BY <1>1, <2>1, LargestExists
    <2>3. PICK s \in found : LastBoundary(limit) = s + Needle
      BY <1>2, <1>5, <2>2
    <2>4. s \in Starts /\ s <= Reach(limit)
      OBVIOUS
    <2>5. /\ s \in 0..DataLen /\ s + Needle <= DataLen
          /\ sent + s + Needle \in rowEnds
      BY <2>4, StartsAreRows
    <2>6. sent + LastBoundary(limit) = sent + s + Needle
          /\ LastBoundary(limit) - Needle = s
      BY <1>1, <2>3, <2>5
    <2>. QED  BY <1>1, <2>3, <2>4, <2>5, <2>6
  <1>. QED  BY <1>4, <1>5

\* What find_first_row_boundary_after() returns.
LEMMA FirstBoundaryIs ==
  ASSUME InputOK, TypeOK
  PROVE  /\ FirstBoundary \in 0..DataLen
         /\ FirstBoundary > 0 =>
              /\ sent + FirstBoundary \in rowEnds
              /\ \A s \in Starts : FirstBoundary <= s + Needle
         /\ FirstBoundary = 0 => Starts = {}
  <1>1. DataLen \in Nat /\ Needle \in Nat /\ Needle > 0 /\ sent \in Int
    BY Positions, InputBounds
  <1>2. Starts \subseteq 0..DataLen
    BY StartsAreRows
  <1>3. CASE Starts = {}
    BY <1>1, <1>3 DEF FirstBoundary
  <1>4. CASE Starts # {}
    <2>1. \E s \in Starts : \A t \in Starts : s <= t
      BY <1>1, <1>2, <1>4, LeastExists
    <2>2. PICK s \in Starts : /\ FirstBoundary = s + Needle
                              /\ \A t \in Starts : s <= t
      BY <1>4, <2>1 DEF FirstBoundary
    <2>3. /\ s \in 0..DataLen /\ s + Needle <= DataLen
          /\ sent + s + Needle \in rowEnds
      BY <2>2, StartsAreRows
    <2>4. sent + FirstBoundary = sent + s + Needle
      BY <1>1, <2>2, <2>3
    <2>. QED  BY <1>1, <1>2, <2>2, <2>3, <2>4
  <1>. QED  BY <1>3, <1>4

\* The end of the transaction as read() knows it is in the buffer.
LEMMA KnownEndIs ==
  ASSUME InputOK, TypeOK
  PROVE  /\ KnownEnd \in Nat
         /\ KnownEnd # trxEnd =>
              /\ trxEnd = 0 /\ LastBoundary(Left) > 0 /\ DataLen >= Left
              /\ Left > 0 \/ ~partial
              /\ KnownEnd = trxSize + LastBoundary(Left)
         /\ KnownEnd = 0 => trxEnd = 0
         /\ KnownEnd = 0 /\ DataLen >= Left /\ (Left > 0 \/ ~partial) =>
              LastBoundary(Left) = 0
  <1>1. /\ trxEnd \in Nat /\ trxSize \in Nat
        /\ Left \in Int /\ DataLen \in Nat
    BY Positions
  <1>2. LastBoundary(Left) \in 0..DataLen
    BY <1>1, LastBoundaryIs
  <1>. QED  BY <1>1, <1>2 DEF KnownEnd

-----------------------------------------------------------------------------
(* The stream and the counters *)

\* The worker starts at the beginning of its input.
LEMMA InitLoad == Init => LoadInv
  <1> SUFFICES ASSUME Init PROVE LoadInv
    OBVIOUS
  <1>1. InputOK
    <2>1. rowEnds \in SUBSET (Needle..FileLen)
      BY DEF Init, Layouts
    <2>2. maxTrx \in Nat /\ bufLen \in BufLens
      <3>1. maxTrx \in TrxSizes \/ maxTrx = 0
        BY DEF Init
      <3>2. bufLen \in BufLens
        BY DEF Init
      <3>3. TrxSizes \subseteq Nat
        BY LoadAssumption
      <3>4. 0 \in Nat
        OBVIOUS
      <3>. QED  BY <3>1, <3>2, <3>3, <3>4, Zenon
    <2>3. RangeRead => range \in Ranges /\ maxTrx = 0
      BY DEF Init, RangeRead
    <2>. QED  BY <2>1, <2>2, <2>3 DEF InputOK
  <1>2. /\ FileLen \in Nat /\ First \in Nat /\ Last \in Nat /\ First <= Last
        /\ Last <= FileLen /\ (~RangeRead => Last = FileLen)
    BY <1>1, InputBounds
  <1>3. table = <<>> /\ received = <<>> /\ Len(table) = 0 /\ sent = First
        /\ pos = First /\ retryOffset = First /\ pc = "start"
    BY DEF Init
  <1>4. TypeOK
    <2>1. bytesLeft \in 0..FileLen /\ retryBytesLeft \in 0..FileLen
      BY <1>2 DEF Init
    <2>2. <<>> \in Seq(1..FileLen) /\ First \in First..FileLen /\ First \in First..First
      BY <1>2
    <2>3. FirstSleep \in Nat /\ 0 \in Nat /\ 0 \in Int
      BY LoadAssumption
    <2>. QED  BY <1>3, <2>1, <2>2, <2>3, Zenon DEF Init, TypeOK
  <1>5. Stream
    BY <1>2, <1>3 DEF Stream, ExactlyOnce, Base, Sending
  <1>6. Limits
    BY <1>2, <1>3 DEF Init, Limits, Sending
  <1>7. Counting
    BY <1>3, LoadAssumption DEF Init, Counting, Sending
  <1>8. Room
    BY DEF Init, Room
  <1>. QED  BY <1>1, <1>4, <1>5, <1>6, <1>7, <1>8 DEF LoadInv

\* Bytes that a callback returns continue the stream and are counted.
LEMMA ReturnKeeps ==
  ASSUME LoadInv, pc \in {"ask", "decide"},
         UNCHANGED <<input, point, stats, sleeps, table>>,
         NEW n \in Nat, sent + n <= FileLen, sent' = sent + n, Return(n),
         Needle = 1 => n <= bufLen
  PROVE  /\ Stream' /\ Counting' /\ Room' /\ Base' = Base
         /\ received' \in Seq(1..FileLen) /\ dataBytes' \in Nat /\ prog' \in Int
         /\ overrun' \in BOOLEAN
         /\ pc' = (IF n = 0 THEN "result" ELSE "ask")
         /\ RangeRead => bytesLeft' = Last - sent'
         /\ ~RangeRead => bytesLeft' = 0
  <1> USE DEF LoadInv
  <1>1. /\ RangeRead' = RangeRead /\ First' = First /\ Last' = Last
        /\ errors' = errors /\ bufLen' = bufLen
    BY InputStays
  <1>2. /\ First \in Nat /\ Last \in Nat /\ FileLen \in Nat /\ bufLen \in Nat
        /\ sent \in Int /\ First <= sent /\ Len(table) \in Nat /\ Base \in Int
        /\ received \in Seq(1..FileLen) /\ Len(received) \in Nat
        /\ dataBytes \in Nat /\ prog \in Int
    BY Positions, InputBounds
  <1>3. Base' = Base /\ Len(table') = Len(table)
    BY <1>1 DEF Base
  <1> DEFINE more == [i \in 1..n |-> sent + i]
  <1>4. \A i \in 1..n : sent + i \in 1..FileLen
    BY <1>2
  <1>5. more \in Seq(1..FileLen) /\ Len(more) = n /\ \A i \in 1..n : more[i] = sent + i
    BY <1>2, <1>4, RunIsSeq
  <1>6. received' = received \o more
    BY DEF Return
  <1> HIDE DEF more
  <1>7. /\ Len(received) = sent - Base
        /\ \A i \in 1..Len(received) : received[i] = Base + i
    BY DEF Stream, Sending
  <1>8. \A i \in 1..Len(more) : more[i] = Base + Len(received) + i
    BY <1>2, <1>5, <1>7
  <1>9. /\ received' \in Seq(1..FileLen) /\ Len(received') = Len(received) + n
        /\ \A i \in 1..Len(received') : received'[i] = Base + i
    <2>1. /\ received \o more \in Seq(1..FileLen)
          /\ Len(received \o more) = Len(received) + Len(more)
          /\ \A i \in 1..Len(received \o more) : (received \o more)[i] = Base + i
      <3>1. received \in Seq(1..FileLen) /\ more \in Seq(1..FileLen) /\ Base \in Int
        BY <1>2, <1>5
      <3>2. \A i \in 1..Len(received) : received[i] = Base + i
        BY <1>7
      <3>. QED  BY <1>8, <3>1, <3>2, ConcatRun, SMT
    <2>. QED  BY <1>5, <1>6, <2>1
  <1>10. pc' = IF n = 0 THEN "result" ELSE "ask"
    BY DEF Return
  <1>11. pc' \in Sending /\ pc' \notin {"start", "query", "done"}
    BY <1>10 DEF Sending
  <1>12. Stream'
    <2>1. ExactlyOnce'
      BY <1>1 DEF Stream, ExactlyOnce
    <2>2. retryOffset' = Base' /\ retryOffset = Base
      BY <1>3 DEF Stream, Sending, point
    <2>3. Len(received') = sent' - Base'
      BY <1>2, <1>3, <1>7, <1>9
    <2>. QED  BY <1>3, <1>9, <1>11, <2>1, <2>2, <2>3 DEF Stream
  <1>13. dataBytes' = dataBytes + n /\ prog' = prog + n
    BY DEF Return
  <1>14. Counting'
    <2>1. dataBytes = Len(received) /\ stats = Len(table) /\ totalSleep <= MaxSleep
      BY DEF Counting, Sending
    <2>2. dataBytes' = Len(received')
      BY <1>9, <1>13, <2>1
    <2>3. "early" \notin errors => prog' = Len(table') + dataBytes'
      BY <1>2, <1>3, <1>13 DEF Counting, Sending
    <2>. QED  BY <1>1, <1>3, <1>11, <2>1, <2>2, <2>3 DEF Counting, sleeps
  <1>15. Room' /\ overrun' \in BOOLEAN
    BY <1>2 DEF Return, Room, TypeOK
  <1>16. /\ RangeRead => bytesLeft' = Last - sent'
         /\ ~RangeRead => bytesLeft' = 0
    <2>1. CASE RangeRead
      BY <1>2, <2>1 DEF Return, Limits
    <2>2. CASE ~RangeRead
      BY <2>2 DEF Return, Limits
    <2>. QED  BY <2>1, <2>2
  <1>. QED  BY <1>2, <1>3, <1>9, <1>10, <1>12, <1>13, <1>14, <1>15, <1>16

\* One of the answers of read() with a transaction limit.
LEMMA SendKeeps ==
  ASSUME LoadInv, pc = "decide",
         UNCHANGED <<input, pos, eof, point, stats, sleeps, table>>,
         NEW n \in Nat, n <= DataLen, sent' = sent + n, trxSize' = trxSize + n,
         Return(n), Needle = 1 => n <= bufLen,
         trxEnd' \in Nat, partial' \in BOOLEAN,
         trxEnd' > 0 => trxSize + n <= trxEnd' /\ Base + trxEnd' <= pos
  PROVE  LoadInv'
  <1> USE DEF LoadInv
  <1>1. /\ InputOK' /\ RangeRead' = RangeRead /\ First' = First /\ Last' = Last
        /\ maxTrx' = maxTrx
    BY InputStays
  <1>2. /\ First \in Nat /\ Last \in Nat /\ FileLen \in Nat
        /\ sent \in Int /\ First <= sent /\ pos \in Int /\ pos <= FileLen
        /\ DataLen = pos - sent /\ retryOffset \in Int /\ First <= retryOffset
        /\ retryOffset <= sent /\ trxSize \in Nat /\ Base \in Int
    BY Positions, InputBounds
  <1>3. maxTrx # 0 /\ maxTrx \in Nat /\ ~RangeRead
    BY InputBounds DEF Limits
  <1>4. sent + n <= pos /\ sent + n <= FileLen
    BY <1>2
  <1>5. /\ Stream' /\ Counting' /\ Room' /\ Base' = Base
        /\ received' \in Seq(1..FileLen) /\ dataBytes' \in Nat /\ prog' \in Int
        /\ overrun' \in BOOLEAN
        /\ pc' = (IF n = 0 THEN "result" ELSE "ask")
        /\ bytesLeft' = 0
    BY <1>3, <1>4, ReturnKeeps
  <1>6. TypeOK'
    <2>1. /\ pos' \in First'..FileLen /\ sent' \in First'..pos'
          /\ retryOffset' \in First'..sent'
      BY <1>1, <1>2, <1>4 DEF point
    <2>2. trxSize' \in Nat /\ bytesLeft' \in 0..FileLen
      BY <1>2, <1>5
    <2>3. pc' \in {"ask", "result"}
      BY <1>5
    <2>. QED  BY <1>5, <2>1, <2>2, <2>3 DEF TypeOK, point, sleeps
  <1>7. Limits'
    <2>1. pc' \in Sending /\ pc' \notin {"start", "query", "more", "decide", "done"}
      BY <1>5 DEF Sending
    <2>2. trxSize' = sent' - Base'
      BY <1>2, <1>3, <1>5 DEF Limits, Sending
    <2>3. retryBytesLeft' = 0
      BY <1>3 DEF Limits, Sending, point
    <2>4. eof' => pos' = FileLen
      BY DEF Limits
    <2>5. trxEnd' > 0 => trxSize' <= trxEnd' /\ Base' + trxEnd' <= pos'
      BY <1>5
    <2>. QED  BY <1>1, <1>3, <1>5, <2>1, <2>2, <2>3, <2>4, <2>5 DEF Limits
  <1>. QED  BY <1>1, <1>5, <1>6, <1>7

\* consume(): how many bytes it takes.
LEMMA ConsumeIs ==
  ASSUME LoadInv, NEW length \in Nat, NEW end \in Nat,
         end > 0 => trxSize <= end, Consume(length, end)
  PROVE  \E n \in Nat :
           /\ n <= DataLen /\ n <= length /\ (end > 0 => trxSize + n <= end)
           /\ sent' = sent + n /\ trxSize' = trxSize + n /\ Return(n)
           /\ n = 0 => length = 0 \/ DataLen = 0 \/ (end > 0 /\ end = trxSize)
           /\ end = 0 => n = Smaller(length, DataLen)
  <1>1. DataLen \in Nat /\ trxSize \in Nat
    BY Positions DEF LoadInv
  <1> DEFINE fits == IF end > 0 THEN Smaller(length, end - trxSize) ELSE length
             n == Smaller(fits, DataLen)
  <1>2. fits \in Nat /\ fits <= length /\ (end > 0 => trxSize + fits <= end)
        /\ (fits = 0 => length = 0 \/ (end > 0 /\ end = trxSize))
    BY <1>1 DEF Smaller
  <1>3. sent' = sent + n /\ trxSize' = trxSize + n /\ Return(n)
    BY DEF Consume
  <1>4. end = 0 => n = Smaller(length, DataLen)
    OBVIOUS
  <1> HIDE DEF fits
  <1>5. n \in Nat /\ n <= fits /\ n <= DataLen /\ (n = 0 => fits = 0 \/ DataLen = 0)
    BY <1>1, <1>2 DEF Smaller
  <1> HIDE DEF n
  <1>6. end > 0 => trxSize + n <= end
    BY <1>1, <1>2, <1>5
  <1>7. n <= length
    BY <1>2, <1>5
  <1>8. n = 0 => length = 0 \/ DataLen = 0 \/ (end > 0 /\ end = trxSize)
    BY <1>2, <1>5
  <1>. QED  BY <1>3, <1>5, <1>6, <1>7, <1>8, <1>4

-----------------------------------------------------------------------------
(* The steps of read() with a transaction limit *)

\* What holds when read() decides what to send.
LEMMA Deciding ==
  ASSUME LoadInv, pc = "decide"
  PROVE  /\ InputOK /\ TypeOK /\ maxTrx \in Nat /\ maxTrx > 0 /\ ~RangeRead
         /\ First = 0 /\ Last = FileLen /\ FileLen \in Nat
         /\ bufLen \in Nat /\ bufLen > 0 /\ Needle \in Nat /\ Needle > 0
         /\ pos \in Int /\ sent \in Int /\ sent <= pos /\ pos <= FileLen
         /\ Base \in Int /\ Base >= 0 /\ Base <= sent
         /\ trxSize \in Nat /\ trxEnd \in Nat /\ partial \in BOOLEAN
         /\ DataLen \in Nat /\ DataLen = pos - sent
         /\ Left \in Int /\ Left = maxTrx - trxSize
         /\ trxSize = sent - Base
         /\ trxEnd > 0 => trxSize < trxEnd /\ Base + trxEnd <= pos
         /\ trxEnd = 0 => eof \/ sent < pos
         /\ eof => pos = FileLen
  <1>1. InputOK /\ TypeOK
    BY DEF LoadInv
  <1>2. maxTrx \in Nat /\ maxTrx > 0 /\ ~RangeRead /\ First = 0 /\ Last = FileLen
        /\ FileLen \in Nat /\ bufLen \in Nat /\ bufLen > 0 /\ Needle \in Nat
        /\ Needle > 0
    BY <1>1, InputBounds DEF LoadInv, Limits
  <1>3. /\ pos \in Int /\ sent \in Int /\ sent <= pos /\ pos <= FileLen
        /\ Base \in Int /\ trxSize \in Nat /\ trxEnd \in Nat
        /\ DataLen \in Nat /\ DataLen = pos - sent
        /\ Left \in Int /\ Left = maxTrx - trxSize
        /\ Len(table) \in Nat
    BY <1>1, Positions
  <1>4. /\ trxSize = sent - Base
        /\ trxEnd > 0 => trxSize < trxEnd /\ Base + trxEnd <= pos
        /\ trxEnd = 0 => eof \/ sent < pos
        /\ eof => pos = FileLen
    BY <1>2, <1>3 DEF LoadInv, Limits, Sending
  <1>5. Base >= 0 /\ Base <= sent
    BY <1>2, <1>3, <1>4 DEF Base
  <1>6. partial \in BOOLEAN
    BY <1>1 DEF TypeOK
  <1>. QED  BY <1>1, <1>2, <1>3, <1>4, <1>5, <1>6

\* Complete rows that end within the client's buffer, seen from the buffer.
LEMMA RowsInBuffer ==
  ASSUME LoadInv, pc = "decide", Needle = 1
  PROVE  LastBoundary(bufLen) <= bufLen
  <1>1. /\ bufLen \in Nat /\ bufLen > 0 /\ DataLen \in Nat /\ InputOK /\ TypeOK
    BY Deciding
  <1>2. /\ LastBoundary(bufLen) \in 0..DataLen
        /\ LastBoundary(bufLen) > 0 => LastBoundary(bufLen) - Needle <= Reach(bufLen)
    BY <1>1, LastBoundaryIs
  <1>. QED  BY <1>1, <1>2 DEF Reach

\* Where the transaction ends when read() knows it.
LEMMA KnownEndFits ==
  ASSUME LoadInv, pc = "decide", KnownEnd > 0
  PROVE  KnownEnd \in Nat /\ trxSize < KnownEnd /\ Base + KnownEnd <= pos
  <1>1. /\ pos \in Int /\ sent \in Int /\ Base \in Int
        /\ trxSize \in Nat /\ trxEnd \in Nat /\ DataLen \in Nat
        /\ DataLen = pos - sent /\ trxSize = sent - Base /\ InputOK /\ TypeOK
        /\ trxEnd > 0 => trxSize < trxEnd /\ Base + trxEnd <= pos
        /\ Left \in Int
    BY Deciding
  <1>2. /\ KnownEnd \in Nat
        /\ KnownEnd # trxEnd => /\ LastBoundary(Left) > 0
                                /\ KnownEnd = trxSize + LastBoundary(Left)
    BY <1>1, KnownEndIs
  <1>3. LastBoundary(Left) \in 0..DataLen
    BY <1>1, LastBoundaryIs
  <1>. QED  BY <1>1, <1>2, <1>3

\* Step 3 of read() sends up to the end of the transaction.
LEMMA SendToEndIs ==
  ASSUME LoadInv, SendToEnd
  PROVE  \E n \in Nat :
           /\ n > 0 /\ n <= DataLen /\ n <= bufLen /\ trxSize + n <= KnownEnd
           /\ sent' = sent + n /\ trxSize' = trxSize + n /\ Return(n)
  <1>1. pc = "decide" /\ KnownEnd > 0 /\ Consume(bufLen, KnownEnd)
    BY DEF SendToEnd
  <1>2. /\ KnownEnd \in Nat /\ trxSize < KnownEnd /\ Base + KnownEnd <= pos
    BY <1>1, KnownEndFits
  <1>3. /\ bufLen \in Nat /\ bufLen > 0 /\ trxSize \in Nat /\ pos \in Int /\ sent \in Int
        /\ Base \in Int /\ DataLen = pos - sent /\ trxSize = sent - Base
    BY <1>1, Deciding
  <1>4. PICK n \in Nat :
           /\ n <= DataLen /\ n <= bufLen /\ (KnownEnd > 0 => trxSize + n <= KnownEnd)
           /\ sent' = sent + n /\ trxSize' = trxSize + n /\ Return(n)
           /\ n = 0 => bufLen = 0 \/ DataLen = 0 \/ (KnownEnd > 0 /\ KnownEnd = trxSize)
    BY <1>1, <1>2, <1>3, ConsumeIs
  <1>5. n > 0
    BY <1>2, <1>3, <1>4
  <1>. QED  BY <1>1, <1>4, <1>5

\* What is sent before the end of the transaction is known.
LEMMA SendSome ==
  ASSUME LoadInv, pc = "decide", NEW length \in Nat, Consume(length, 0)
  PROVE  \E n \in Nat :
           /\ n <= DataLen /\ n <= length
           /\ n = 0 => length = 0 \/ DataLen = 0
           /\ n = Smaller(length, DataLen)
           /\ sent' = sent + n /\ trxSize' = trxSize + n /\ Return(n)
  <1>1. \E n \in Nat :
           /\ n <= DataLen /\ n <= length /\ (0 > 0 => trxSize + n <= 0)
           /\ sent' = sent + n /\ trxSize' = trxSize + n /\ Return(n)
           /\ n = 0 => length = 0 \/ DataLen = 0 \/ (0 > 0 /\ 0 = trxSize)
           /\ 0 = 0 => n = Smaller(length, DataLen)
    BY ConsumeIs
  <1>. QED  BY <1>1

\* Each of the answers of read() keeps the invariant.
LEMMA DecideKeeps ==
  ASSUME LoadInv,
         SendToEnd \/ FlushSentRows \/ SendOversized \/ SendRows \/ SendPartOfRow
         \/ SendPartial \/ SendLastRow
  PROVE  LoadInv'
  <1>1. pc = "decide" /\ UNCHANGED <<input, pos, eof, point, stats, sleeps, table>>
    BY DEF SendToEnd, FlushSentRows, SendOversized, SendRows, SendPartOfRow,
           SendPartial, SendLastRow, Decided
  <1>2. /\ InputOK /\ TypeOK /\ bufLen \in Nat /\ bufLen > 0
        /\ pos \in Int /\ sent \in Int /\ Base \in Int
        /\ trxSize \in Nat /\ trxEnd \in Nat /\ partial \in BOOLEAN
        /\ DataLen \in Nat /\ DataLen = pos - sent /\ Left \in Int
        /\ trxSize = sent - Base
        /\ trxEnd > 0 => trxSize < trxEnd /\ Base + trxEnd <= pos
    BY <1>1, Deciding
  <1>3. /\ LastBoundary(Left) \in 0..DataLen /\ LastBoundary(bufLen) \in 0..DataLen
        /\ FirstBoundary \in 0..DataLen
    BY <1>2, LastBoundaryIs, FirstBoundaryIs
  <1>4. /\ KnownEnd = 0 => trxEnd = 0
    BY <1>2, KnownEndIs
  <1>5. CASE SendToEnd
    <2>1. trxEnd' = KnownEnd /\ KnownEnd > 0 /\ partial' = partial
      BY <1>5 DEF SendToEnd
    <2>2. KnownEnd \in Nat /\ Base + KnownEnd <= pos
      BY <1>1, <2>1, KnownEndFits
    <2>3. PICK n \in Nat :
            /\ n <= DataLen /\ n <= bufLen /\ trxSize + n <= KnownEnd
            /\ sent' = sent + n /\ trxSize' = trxSize + n /\ Return(n)
      BY <1>5, SendToEndIs
    <2>. QED  BY <1>1, <1>2, <2>1, <2>2, <2>3, SendKeeps
  <1>6. CASE FlushSentRows
    <2>1. /\ trxEnd' = trxSize /\ partial' = partial /\ sent' = sent + 0
          /\ trxSize' = trxSize + 0 /\ Return(0) /\ trxSize + 0 = trxSize
      BY <1>2, <1>6 DEF FlushSentRows
    <2>2. Base + trxSize <= pos
      BY <1>2
    <2>3. 0 \in Nat /\ 0 <= DataLen /\ 0 <= bufLen /\ trxSize + 0 <= trxEnd'
      BY <1>2, <2>1
    <2>. QED  BY <1>1, <1>2, <2>1, <2>2, <2>3, SendKeeps
  <1>7. CASE SendOversized
    <2>1. KnownEnd = 0
      BY <1>7 DEF SendOversized
    <2>2. CASE FirstBoundary > 0
      <3>1. /\ trxEnd' = trxSize + FirstBoundary /\ partial' = partial
            /\ Consume(bufLen, trxSize + FirstBoundary)
        BY <1>7, <2>2 DEF SendOversized
      <3>2. /\ trxSize + FirstBoundary \in Nat /\ trxSize <= trxSize + FirstBoundary
            /\ Base + (trxSize + FirstBoundary) <= pos
            /\ trxSize + FirstBoundary > 0
        BY <1>2, <1>3, <2>2
      <3>3. PICK n \in Nat :
           /\ n <= DataLen /\ n <= bufLen
           /\ (trxSize + FirstBoundary > 0 => trxSize + n <= trxSize + FirstBoundary)
           /\ sent' = sent + n /\ trxSize' = trxSize + n /\ Return(n)
        BY <1>2, <3>1, <3>2, ConsumeIs
      <3>. QED  BY <1>1, <1>2, <3>1, <3>2, <3>3, SendKeeps
    <2>3. CASE ~(FirstBoundary > 0)
      <3>1. trxEnd' = 0 /\ partial' = TRUE /\ Consume(bufLen, 0)
        BY <1>4, <1>7, <2>1, <2>3 DEF SendOversized
      <3>2. PICK n \in Nat :
              /\ n <= DataLen /\ n <= bufLen
              /\ sent' = sent + n /\ trxSize' = trxSize + n /\ Return(n)
        BY <1>1, <1>2, <3>1, SendSome
      <3>. QED  BY <1>1, <1>2, <3>1, <3>2, SendKeeps
    <2>. QED  BY <2>2, <2>3
  <1>8. CASE SendRows
    <2>1. trxEnd' = 0 /\ partial' = FALSE /\ Consume(LastBoundary(bufLen), 0)
      BY <1>4, <1>8 DEF SendRows
    <2>2. PICK n \in Nat :
            /\ n <= DataLen /\ n <= LastBoundary(bufLen)
            /\ sent' = sent + n /\ trxSize' = trxSize + n /\ Return(n)
      BY <1>1, <1>3, <2>1, SendSome
    <2>3. Needle = 1 => n <= bufLen
      BY <1>1, <1>2, <1>3, <2>2, RowsInBuffer
    <2>4. /\ n <= DataLen /\ sent' = sent + n /\ trxSize' = trxSize + n /\ Return(n)
          /\ trxEnd' \in Nat /\ ~(trxEnd' > 0)
      BY <2>1, <2>2
    <2>5. partial' \in BOOLEAN
      BY <2>1, Zenon
    <2>. QED  BY <1>1, <2>3, <2>4, <2>5, SendKeeps
  <1>9. CASE SendPartOfRow
    <2> DEFINE length == Smaller(bufLen, LastBoundary(Left))
    <2>1. trxEnd' = 0 /\ partial' = partial /\ Consume(length, 0)
      BY <1>4, <1>9 DEF SendPartOfRow
    <2>2. length \in Nat /\ length <= bufLen
      BY <1>2, <1>3 DEF Smaller
    <2> HIDE DEF length
    <2>3. PICK n \in Nat :
            /\ n <= DataLen /\ n <= length
            /\ sent' = sent + n /\ trxSize' = trxSize + n /\ Return(n)
      BY <1>1, <2>1, <2>2, SendSome
    <2>4. n <= bufLen
      BY <1>2, <2>2, <2>3
    <2>. QED  BY <1>1, <1>2, <2>1, <2>3, <2>4, SendKeeps
  <1>10. CASE SendPartial
    <2>1. trxEnd' = 0 /\ partial' = TRUE /\ Consume(bufLen, 0)
      BY <1>4, <1>10 DEF SendPartial
    <2>2. PICK n \in Nat :
            /\ n <= DataLen /\ n <= bufLen
            /\ sent' = sent + n /\ trxSize' = trxSize + n /\ Return(n)
      BY <1>1, <1>2, <2>1, SendSome
    <2>. QED  BY <1>1, <1>2, <2>1, <2>2, SendKeeps
  <1>11. CASE SendLastRow
    <2>1. /\ trxEnd' = trxSize + DataLen /\ partial' = partial
          /\ Consume(bufLen, trxSize + DataLen)
      BY <1>11 DEF SendLastRow
    <2>2. /\ trxSize + DataLen \in Nat /\ trxSize <= trxSize + DataLen
          /\ Base + (trxSize + DataLen) <= pos
      BY <1>2
    <2>3. PICK n \in Nat :
         /\ n <= DataLen /\ n <= bufLen
         /\ sent' = sent + n /\ trxSize' = trxSize + n /\ Return(n)
      BY <1>2, <2>1, <2>2, ConsumeIs
    <2>4. trxSize + n <= trxSize + DataLen
      BY <1>2, <2>3
    <2>. QED  BY <1>1, <1>2, <2>1, <2>2, <2>3, <2>4, SendKeeps
  <1>. QED  BY <1>5, <1>6, <1>7, <1>8, <1>9, <1>10, <1>11

-----------------------------------------------------------------------------
(* The other steps *)

\* What a read of the file returns.
LEMMA FileReadIs ==
  ASSUME InputOK, TypeOK, NEW count \in Nat, NEW n \in FileRead(count)
  PROVE  /\ n \in Nat /\ n <= count /\ pos + n <= FileLen
         /\ n = 0 => count = 0 \/ pos = FileLen
  <1>1. pos \in Int /\ pos <= FileLen /\ FileLen \in Nat
    BY Positions, InputBounds
  <1> DEFINE most == Smaller(count, FileLen - pos)
  <1>2. /\ most \in Nat /\ most <= count /\ pos + most <= FileLen
        /\ most = 0 => count = 0 \/ pos = FileLen
    BY <1>1 DEF Smaller
  <1>3. n \in (IF most = 0 THEN {0} ELSE IF ShortReads THEN 1..most ELSE {most})
    BY DEF FileRead
  <1> HIDE DEF most
  <1>. QED  BY <1>1, <1>2, <1>3

\* The client is told that the transaction ends here.
LEMMA ReadFlushesKeeps == ASSUME LoadInv, ReadFlushes PROVE LoadInv'
  <1>1. /\ pc = "ask" /\ FlushPending /\ Return(0)
        /\ UNCHANGED <<input, pos, sent, trx, eof, point, stats, sleeps, table>>
    BY DEF ReadFlushes
  <1>2. /\ InputOK /\ TypeOK /\ Stream /\ Limits
    BY DEF LoadInv
  <1>3. /\ InputOK' /\ First' = First /\ Last' = Last /\ RangeRead' = RangeRead
        /\ maxTrx' = maxTrx
    BY <1>1, <1>2, InputStays
  <1>4. /\ sent \in Int /\ sent <= FileLen /\ trxSize \in Nat /\ trxEnd \in Nat
        /\ FileLen \in Nat /\ maxTrx \in Nat /\ bufLen \in Nat /\ Base \in Int
        /\ pos \in Int /\ pos <= FileLen
    <2>1. sent \in Int /\ sent <= pos /\ trxSize \in Nat /\ trxEnd \in Nat
          /\ Base \in Int /\ pos \in Int /\ pos <= FileLen
      BY <1>2, Positions
    <2>2. FileLen \in Nat /\ maxTrx \in Nat /\ bufLen \in Nat
      BY <1>2, InputBounds
    <2>. QED  BY <2>1, <2>2
  <1>5. maxTrx > 0 /\ ~RangeRead /\ maxTrx # 0
    BY <1>1, <1>2, <1>4, InputBounds DEF FlushPending
  <1>6. /\ sent' = sent + 0 /\ 0 \in Nat /\ sent + 0 <= FileLen /\ 0 <= bufLen
    BY <1>1, <1>4
  <1>7. /\ Stream' /\ Counting' /\ Room' /\ Base' = Base
        /\ received' \in Seq(1..FileLen) /\ dataBytes' \in Nat /\ prog' \in Int
        /\ overrun' \in BOOLEAN /\ pc' = "result" /\ bytesLeft' = 0
    BY <1>1, <1>5, <1>6, ReturnKeeps
  <1>8. TypeOK'
    BY <1>1, <1>2, <1>3, <1>4, <1>7 DEF TypeOK, trx, point, sleeps
  <1>9. Limits'
    <2>1. /\ trxSize = sent - Base
          /\ trxEnd > 0 => trxSize <= trxEnd /\ Base + trxEnd <= pos
          /\ retryBytesLeft = 0 /\ (eof => pos = FileLen)
      BY <1>1, <1>2, <1>5 DEF Limits, Sending
    <2>. QED  BY <1>1, <1>3, <1>5, <1>7, <2>1 DEF Limits, trx, point, Sending
  <1>. QED  BY <1>3, <1>7, <1>8, <1>9 DEF LoadInv

\* read() without a transaction limit.
LEMMA ReadPlainKeeps == ASSUME LoadInv, ReadPlain PROVE LoadInv'
  <1> DEFINE count == IF RangeRead THEN Smaller(bufLen, bytesLeft) ELSE bufLen
  <1>1. /\ pc = "ask" /\ maxTrx = 0
        /\ UNCHANGED <<input, trx, eof, point, stats, sleeps, table>>
    BY DEF ReadPlain
  <1>2. PICK n \in FileRead(count) : pos' = pos + n /\ sent' = sent + n /\ Return(n)
    BY DEF ReadPlain
  <1>3. InputOK /\ TypeOK /\ Stream /\ Limits
    BY DEF LoadInv
  <1>4. /\ InputOK' /\ First' = First /\ Last' = Last /\ RangeRead' = RangeRead
        /\ maxTrx' = maxTrx
    BY <1>1, <1>3, InputStays
  <1>5. /\ sent \in Int /\ sent <= pos /\ trxSize \in Nat /\ trxEnd \in Nat
        /\ FileLen \in Nat /\ bufLen \in Nat /\ bufLen > 0 /\ Base \in Int
        /\ pos \in Int /\ pos <= FileLen /\ First \in Nat /\ First <= sent
        /\ Last \in Nat /\ Last <= FileLen /\ retryOffset \in Int
        /\ First <= retryOffset /\ retryOffset <= sent
        /\ ~RangeRead => Last = FileLen
    <2>1. /\ FileLen \in Nat /\ bufLen \in Nat /\ bufLen > 0
          /\ First \in Nat /\ Last \in Nat /\ Last <= FileLen
          /\ ~RangeRead => Last = FileLen
      BY <1>3, InputBounds, Zenon
    <2>2. /\ sent \in Int /\ sent <= pos /\ trxSize \in Nat /\ trxEnd \in Nat
          /\ Base \in Int /\ pos \in Int /\ pos <= FileLen /\ First <= sent
          /\ retryOffset \in Int /\ First <= retryOffset /\ retryOffset <= sent
      BY <1>3, Positions, Zenon
    <2>. QED  BY <2>1, <2>2
  <1>6. bytesLeft \in Nat /\ (RangeRead => bytesLeft = Last - sent)
    BY <1>3, <1>5 DEF TypeOK, Limits
  <1>7. /\ count \in Nat /\ count <= bufLen /\ (RangeRead => count <= bytesLeft)
        /\ count = 0 => RangeRead /\ bytesLeft = 0
    BY <1>5, <1>6 DEF Smaller
  <1> HIDE DEF count
  <1>8. /\ n \in Nat /\ n <= count /\ pos + n <= FileLen
        /\ n = 0 => count = 0 \/ pos = FileLen
    BY <1>3, <1>7, FileReadIs
  <1>9. pos = sent /\ trxEnd = 0
    BY <1>1, <1>3 DEF Limits
  <1>10. sent + n <= FileLen /\ n <= bufLen
    BY <1>5, <1>7, <1>8, <1>9
  <1>11. /\ Stream' /\ Counting' /\ Room' /\ Base' = Base
        /\ received' \in Seq(1..FileLen) /\ dataBytes' \in Nat /\ prog' \in Int
        /\ overrun' \in BOOLEAN /\ pc' = (IF n = 0 THEN "result" ELSE "ask")
        /\ (RangeRead => bytesLeft' = Last - sent')
        /\ (~RangeRead => bytesLeft' = 0)
    BY <1>1, <1>2, <1>8, <1>10, ReturnKeeps
  <1>12. RangeRead => sent + n <= Last
    BY <1>5, <1>6, <1>7, <1>8
  <1>13. TypeOK'
    <2>1. /\ pos' \in First'..FileLen /\ sent' \in First'..pos'
          /\ retryOffset' \in First'..sent'
      BY <1>1, <1>2, <1>4, <1>5, <1>8, <1>9 DEF point
    <2>2. bytesLeft' \in 0..FileLen
      BY <1>2, <1>5, <1>8, <1>11, <1>12
    <2>3. pc' \in {"ask", "result"}
      BY <1>11
    <2>. QED  BY <1>1, <1>3, <1>11, <2>1, <2>2, <2>3 DEF TypeOK, trx, point, sleeps
  <1>14. Limits'
    <2>1. n = 0 => sent' = Last
      <3>1. CASE RangeRead
        BY <1>2, <1>5, <1>6, <1>7, <1>8, <1>9, <3>1
      <3>2. CASE ~RangeRead
        BY <1>2, <1>5, <1>7, <1>8, <1>9, <3>2
      <3>. QED  BY <3>1, <3>2
    <2>2. /\ retryBytesLeft = (IF RangeRead THEN Last - retryOffset ELSE 0)
      BY <1>1, <1>3 DEF Limits, Sending
    <2>3. eof' => pos' = FileLen
      BY <1>1, <1>2, <1>3, <1>5, <1>8 DEF Limits
    <2>4. pos' = sent' /\ trxEnd' = 0 /\ maxTrx' = 0
      BY <1>1, <1>2, <1>4, <1>9 DEF trx
    <2>5. /\ pc' \notin {"start", "query", "more", "decide", "done"}
          /\ (pc' = "result" => n = 0)
      BY <1>11
    <2>6. retryBytesLeft' = (IF RangeRead' THEN Last' - retryOffset' ELSE 0)
      BY <1>1, <1>4, <2>2 DEF point
    <2>. QED  BY <1>4, <1>11, <2>1, <2>3, <2>4, <2>5, <2>6 DEF Limits
  <1>. QED  BY <1>4, <1>11, <1>13, <1>14 DEF LoadInv

\* read_more()
LEMMA ReadMoreKeeps == ASSUME LoadInv, ReadMore PROVE LoadInv'
  <1>1. /\ pc \in {"ask", "more"} /\ pc' = "decide"
        /\ UNCHANGED <<input, sent, trx, point, bytesLeft, dataBytes, prog, stats,
                       sleeps, received, table, overrun>>
    BY DEF ReadMore
  <1>2. InputOK /\ TypeOK /\ Stream /\ Limits /\ Counting /\ Room
    BY DEF LoadInv
  <1>3. /\ InputOK' /\ First' = First /\ Last' = Last /\ RangeRead' = RangeRead
        /\ maxTrx' = maxTrx /\ errors' = errors
    BY <1>1, <1>2, InputStays
  <1>4. /\ sent \in Int /\ sent <= pos /\ trxSize \in Nat /\ trxEnd \in Nat
        /\ FileLen \in Nat /\ bufLen \in Nat /\ bufLen > 0 /\ Base \in Int
        /\ pos \in Int /\ pos <= FileLen /\ First \in Nat /\ First <= sent
        /\ maxTrx \in Nat
    BY <1>2, Positions, InputBounds
  <1>5. Base' = Base
    BY <1>1, <1>3 DEF Base
  <1>6. maxTrx > 0
    BY <1>2, <1>4 DEF ReadMore, Limits
  <1>7. /\ pos' \in Int /\ pos <= pos' /\ pos' <= FileLen /\ eof' \in BOOLEAN
        /\ eof' => pos' = FileLen
        /\ trxEnd = 0 => eof' \/ sent < pos'
    <2>1. CASE trxEnd = 0 /\ ~eof
      <3>1. PICK n \in FileRead(bufLen) : pos' = pos + n /\ eof' = (n = 0)
        BY <2>1 DEF ReadMore
      <3>2. /\ n \in Nat /\ pos + n <= FileLen
            /\ n = 0 => bufLen = 0 \/ pos = FileLen
        BY <1>2, <1>4, FileReadIs
      <3>3. eof' \in BOOLEAN
        BY <3>1, Zenon
      <3>4. eof' => n = 0
        BY <3>1, Zenon
      <3>5. n = 0 => eof'
        BY <3>1, Zenon
      <3>6. eof' => pos' = FileLen
        BY <1>4, <3>1, <3>2, <3>4
      <3>7. n # 0 => sent < pos'
        BY <1>4, <3>1, <3>2
      <3>8. pos' \in Int /\ pos <= pos' /\ pos' <= FileLen
        BY <1>4, <3>1, <3>2
      <3>. QED  BY <3>3, <3>5, <3>6, <3>7, <3>8, Zenon
    <2>2. CASE ~(trxEnd = 0 /\ ~eof)
      <3>1. pos' = pos /\ eof' = eof
        BY <2>2 DEF ReadMore
      <3>2. eof \in BOOLEAN /\ (eof => pos = FileLen)
        BY <1>2 DEF TypeOK, Limits
      <3>. QED  BY <1>4, <2>2, <3>1, <3>2
    <2>. QED  BY <2>1, <2>2
  <1>8. TypeOK'
    <2>1. pos' \in First'..FileLen /\ sent' \in First'..pos'
      BY <1>1, <1>3, <1>4, <1>7
    <2>. QED  BY <1>1, <1>2, <1>3, <1>7, <2>1 DEF TypeOK, trx, point, sleeps
  <1>9. Stream'
    BY <1>1, <1>2, <1>3, <1>5 DEF Stream, ExactlyOnce, Sending, point
  <1>10. Limits'
    <2>1. trxEnd > 0 => trxSize < trxEnd /\ Base + trxEnd <= pos
      BY <1>2, <1>4, <1>6 DEF ReadMore, FlushPending, Limits, Sending
    <2>2. trxEnd > 0 => Base + trxEnd <= pos'
      BY <1>4, <1>7, <2>1
    <2>3. /\ trxSize = sent - Base
          /\ retryBytesLeft = (IF RangeRead THEN Last - retryOffset ELSE 0)
          /\ (RangeRead => bytesLeft = Last - sent) /\ (~RangeRead => bytesLeft = 0)
      BY <1>1, <1>2, <1>6 DEF Limits, Sending
    <2>4. trxSize' = sent' - Base' /\ trxSize' = trxSize /\ trxEnd' = trxEnd
          /\ (trxEnd' > 0 => trxSize' < trxEnd' /\ Base' + trxEnd' <= pos')
      BY <1>1, <1>5, <2>1, <2>2, <2>3 DEF trx
    <2>5. maxTrx' # 0
      BY <1>3, <1>4, <1>6
    <2>6. /\ retryBytesLeft' = (IF RangeRead' THEN Last' - retryOffset' ELSE 0)
          /\ (RangeRead' => bytesLeft' = Last' - sent') /\ (~RangeRead' => bytesLeft' = 0)
      BY <1>1, <1>3, <2>3 DEF point
    <2>7. IF trxEnd' = 0 THEN eof' \/ sent' < pos' ELSE trxSize' < trxEnd'
      BY <1>1, <1>4, <1>7, <2>4
    <2>8. trxEnd' > 0 => trxSize' <= trxEnd'
      BY <1>4, <2>4
    <2>. QED  BY <1>1, <1>7, <2>4, <2>5, <2>6, <2>7, <2>8 DEF Limits
  <1>11. Counting'
    BY <1>1, <1>2, <1>3 DEF Counting, Sending, sleeps
  <1>12. Room'
    BY <1>1, <1>2 DEF Room
  <1>. QED  BY <1>3, <1>8, <1>9, <1>10, <1>11, <1>12 DEF LoadInv

\* The next sub-chunk, the server's request, a row that is not complete yet, and
\* the end of the worker leave the buffer alone.
LEMMA ControlKeeps ==
  ASSUME LoadInv, Start \/ LocalInfileInit \/ ReadOn \/ Fail \/ UNCHANGED vars
  PROVE  LoadInv'
  <1>1. InputOK /\ TypeOK /\ Stream /\ Limits /\ Counting /\ Room
    BY DEF LoadInv
  <1>2. /\ UNCHANGED <<input, pos, sent, trx, eof, bytesLeft, prog, stats, table, overrun>>
    BY DEF Start, LocalInfileInit, ReadOn, Fail, vars
  <1>3. /\ InputOK' /\ First' = First /\ Last' = Last /\ RangeRead' = RangeRead
        /\ maxTrx' = maxTrx /\ errors' = errors
    BY <1>1, <1>2, InputStays
  <1>4. /\ Base' = Base
    BY <1>2, <1>3 DEF Base
  <1>5. ExactlyOnce'
    BY <1>1, <1>2, <1>3 DEF Stream, ExactlyOnce
  <1>6. Room'
    BY <1>1, <1>2 DEF Room
  <1>7. /\ FileLen \in Nat /\ First \in Nat /\ Last \in Nat /\ sent \in Int
        /\ First <= sent /\ pos \in Int /\ sent <= pos /\ pos <= FileLen
        /\ table \in Seq(1..FileLen) /\ dataBytes \in Nat /\ prog \in Int
    BY <1>1, Positions, InputBounds
  <1>8. <<>> \in Seq(1..FileLen) /\ Len(<<>>) = 0 /\ 0 \in Nat
    OBVIOUS
  <1>9. CASE Start
    <2>1. /\ pc = "start" /\ pc' = "query" /\ retryOffset' = sent /\ retryValid' = TRUE
          /\ retryBytesLeft' = bytesLeft /\ sleepTime' = FirstSleep /\ totalSleep' = 0
          /\ dataBytes' = dataBytes /\ received' = received
      BY <1>9 DEF Start
    <2>2. /\ sent = Base /\ received = <<>> /\ trxSize = 0 /\ trxEnd = 0 /\ ~partial
          /\ prog = prog
      BY <1>1, <2>1 DEF Stream, Limits
    <2>3. FirstSleep \in Nat /\ MaxSleep \in Nat
      BY LoadAssumption
    <2>4. TypeOK'
      <3>1. retryOffset' \in First'..sent' /\ retryBytesLeft' \in 0..FileLen
        BY <1>1, <1>2, <1>3, <1>7, <2>1 DEF TypeOK
      <3>. QED  BY <1>1, <1>2, <1>3, <2>1, <2>3, <3>1 DEF TypeOK, trx
    <2>5. Stream'
      BY <1>2, <1>4, <1>5, <2>1, <2>2 DEF Stream, Sending
    <2>6. Limits'
      BY <1>1, <1>2, <1>3, <2>1, <2>2 DEF Limits, trx, Sending
    <2>7. Counting'
      BY <1>1, <1>2, <1>3, <2>1, <2>3 DEF Counting, Sending
    <2>. QED  BY <1>3, <1>6, <2>4, <2>5, <2>6, <2>7 DEF LoadInv
  <1>10. CASE LocalInfileInit
    <2>1. /\ pc = "query" /\ pc' = "ask" /\ dataBytes' = 0 /\ received' = <<>>
          /\ UNCHANGED <<point, sleeps>>
      BY <1>10 DEF LocalInfileInit
    <2>2. sent = Base /\ retryOffset = Base /\ trxSize = 0 /\ trxEnd = 0
      BY <1>1, <2>1 DEF Stream, Limits
    <2>3. TypeOK'
      BY <1>1, <1>2, <1>3, <1>8, <2>1 DEF TypeOK, trx, point, sleeps
    <2>4. Stream'
      BY <1>2, <1>4, <1>5, <1>7, <1>8, <2>1, <2>2 DEF Stream, Sending, point
    <2>5. Limits'
      <3>1. trxSize' = sent' - Base' /\ trxEnd' = 0
        BY <1>2, <1>4, <1>7, <2>2 DEF trx
      <3>. QED  BY <1>1, <1>2, <1>3, <2>1, <3>1 DEF Limits, trx, point, Sending
    <2>6. Counting'
      <3>1. Len(table) \in Nat /\ Len(received') = 0
        BY <1>7, <1>8, <2>1
      <3>. QED  BY <1>1, <1>2, <1>3, <2>1, <3>1 DEF Counting, Sending, sleeps
    <2>. QED  BY <1>3, <1>6, <2>3, <2>4, <2>5, <2>6 DEF LoadInv
  <1>11. CASE ReadOn
    <2>1. /\ pc = "decide" /\ pc' = "more" /\ KnownEnd = 0 /\ ~eof
          /\ UNCHANGED <<point, dataBytes, sleeps, received>>
      BY <1>11 DEF ReadOn
    <2>2. trxEnd = 0
      BY <1>1, <2>1, KnownEndIs
    <2>3. TypeOK'
      BY <1>1, <1>2, <1>3, <2>1 DEF TypeOK, trx, point, sleeps
    <2>4. Stream'
      BY <1>1, <1>2, <1>4, <1>5, <2>1 DEF Stream, Sending, point
    <2>5. Limits'
      BY <1>1, <1>2, <1>3, <1>4, <2>1, <2>2 DEF Limits, trx, point, Sending
    <2>6. Counting'
      BY <1>1, <1>2, <1>3, <2>1 DEF Counting, Sending, sleeps
    <2>. QED  BY <1>3, <1>6, <2>3, <2>4, <2>5, <2>6 DEF LoadInv
  <1>12. CASE Fail
    <2>1. /\ pc' = "failed" /\ received' = <<>> /\ UNCHANGED <<point, dataBytes, sleeps>>
      BY <1>12 DEF Fail
    <2>2. TypeOK'
      BY <1>1, <1>2, <1>3, <1>8, <2>1 DEF TypeOK, trx, point, sleeps
    <2>3. Stream'
      BY <1>5, <2>1 DEF Stream, Sending
    <2>4. Limits'
      BY <1>1, <1>2, <1>3, <2>1 DEF Limits, trx, Sending
    <2>5. Counting'
      BY <1>1, <1>2, <1>3, <2>1 DEF Counting, Sending, sleeps
    <2>. QED  BY <1>3, <1>6, <2>2, <2>3, <2>4, <2>5 DEF LoadInv
  <1>13. CASE UNCHANGED vars
    <2>1. UNCHANGED <<point, dataBytes, sleeps, received, pc>>
      BY <1>13 DEF vars
    <2>2. TypeOK'
      BY <1>1, <1>2, <1>3, <2>1 DEF TypeOK, trx, point, sleeps
    <2>3. Stream'
      BY <1>1, <1>2, <1>4, <1>5, <2>1 DEF Stream, Sending, point
    <2>4. Limits'
      BY <1>1, <1>2, <1>3, <1>4, <2>1 DEF Limits, trx, point, Sending
    <2>5. Counting'
      BY <1>1, <1>2, <1>3, <2>1 DEF Counting, Sending, sleeps
    <2>. QED  BY <1>3, <1>6, <2>2, <2>3, <2>4, <2>5 DEF LoadInv
  <1>. QED  BY <1>9, <1>10, <1>11, <1>12, <1>13

\* The statement is committed: what it received becomes part of the table.
LEMMA CommitKeeps == ASSUME LoadInv, Commit PROVE LoadInv'
  <1>1. InputOK /\ TypeOK /\ Stream /\ Limits /\ Counting /\ Room
    BY DEF LoadInv
  <1>2. /\ pc = "result" /\ table' = table \o received /\ received' = <<>>
        /\ trxSize' = 0 /\ trxEnd' = 0 /\ partial' = FALSE
        /\ stats' = stats + dataBytes
        /\ pc' = (IF maxTrx > 0 /\ (~eof \/ DataLen > 0) THEN "start" ELSE "done")
        /\ UNCHANGED <<input, pos, sent, eof, point, bytesLeft, dataBytes, prog, sleeps,
                       overrun>>
    BY DEF Commit
  <1>3. /\ InputOK' /\ First' = First /\ Last' = Last /\ RangeRead' = RangeRead
        /\ maxTrx' = maxTrx /\ errors' = errors
    BY <1>1, <1>2, InputStays
  <1>4. /\ FileLen \in Nat /\ First \in Nat /\ Last \in Nat /\ maxTrx \in Nat
        /\ maxTrx > 0 => Last = FileLen
    BY <1>1, InputBounds
  <1>5. /\ sent \in Int /\ First <= sent /\ pos \in Int /\ sent <= pos
        /\ table \in Seq(1..FileLen) /\ received \in Seq(1..FileLen)
        /\ Len(table) \in Nat /\ Len(received) \in Nat
        /\ dataBytes \in Nat /\ prog \in Int /\ stats \in Nat /\ DataLen = pos - sent
        /\ Base \in Int
    BY <1>1, Positions
  <1>6. /\ \A i \in 1..Len(table) : table[i] = First + i
        /\ Len(received) = sent - Base
        /\ \A i \in 1..Len(received) : received[i] = Base + i
    BY <1>1, <1>2 DEF Stream, ExactlyOnce, Sending
  <1>7. \A i \in 1..Len(received) : received[i] = First + Len(table) + i
    BY <1>6 DEF Base
  <1>8. /\ table \o received \in Seq(1..FileLen)
        /\ Len(table \o received) = Len(table) + Len(received)
        /\ \A i \in 1..Len(table \o received) : (table \o received)[i] = First + i
    <2>1. /\ table \in Seq(1..FileLen) /\ received \in Seq(1..FileLen) /\ First \in Int
      BY <1>4, <1>5
    <2>2. \A i \in 1..Len(table) : table[i] = First + i
      BY <1>6
    <2>. QED  BY <1>7, <2>1, <2>2, ConcatRun, SMT
  <1>9. /\ table' \in Seq(1..FileLen) /\ Len(table') = Len(table) + Len(received)
        /\ ExactlyOnce'
    BY <1>2, <1>3, <1>8 DEF ExactlyOnce
  <1>10. Base' = sent'
    BY <1>2, <1>3, <1>4, <1>5, <1>6, <1>9 DEF Base
  <1>11. pc' \in {"start", "done"}
    BY <1>2
  <1>12. TypeOK'
    <2>1. <<>> \in Seq(1..FileLen) /\ 0 \in Nat /\ stats' \in Nat
      BY <1>2, <1>5
    <2>2. partial' \in BOOLEAN
      BY <1>2, Zenon
    <2>. QED  BY <1>1, <1>2, <1>3, <1>9, <1>11, <2>1, <2>2 DEF TypeOK, point, sleeps
  <1>13. Stream'
    BY <1>2, <1>9, <1>10, <1>11 DEF Stream, Sending
  <1>14. Limits'
    <2>1. pc' = "done" => sent' = Last'
      <3>1. CASE maxTrx = 0
        BY <1>1, <1>2, <1>3, <3>1 DEF Limits
      <3>2. CASE maxTrx # 0
        <4>1. pc' = "done" => eof /\ ~(DataLen > 0)
          BY <1>2, <1>4, <3>2
        <4>2. eof => pos = FileLen
          BY <1>1 DEF Limits
        <4>. QED  BY <1>2, <1>3, <1>4, <1>5, <3>2, <4>1, <4>2
      <3>. QED  BY <3>1, <3>2
    <2>2. ~partial'
      BY <1>2, Zenon
    <2>3. maxTrx = 0 => pos = sent
      BY <1>1 DEF Limits
    <2>. QED  BY <1>1, <1>2, <1>3, <1>11, <2>1, <2>2, <2>3 DEF Limits, Sending
  <1>15. Counting'
    <2>1. /\ stats = Len(table) /\ dataBytes = Len(received) /\ totalSleep <= MaxSleep
          /\ "early" \notin errors => prog = Len(table) + dataBytes
      BY <1>1, <1>2 DEF Counting, Sending
    <2>2. /\ stats' = Len(table') /\ totalSleep' <= MaxSleep
          /\ "early" \notin errors' => prog' = Len(table')
      BY <1>2, <1>3, <1>5, <1>9, <2>1 DEF sleeps
    <2>. QED  BY <1>11, <2>2 DEF Counting, Sending
  <1>16. Room'
    BY <1>1, <1>2 DEF Room
  <1>. QED  BY <1>3, <1>12, <1>13, <1>14, <1>15, <1>16 DEF LoadInv

\* A rolled back statement starts again where it started.
LEMMA RetryKeeps == ASSUME LoadInv, Retry PROVE LoadInv'
  <1>1. InputOK /\ TypeOK /\ Stream /\ Limits /\ Counting /\ Room
    BY DEF LoadInv
  <1>2. /\ pc \in {"result", "query"} /\ pc' = "query" /\ received' = <<>>
        /\ pos' = retryOffset /\ sent' = retryOffset
        /\ trxSize' = 0 /\ trxEnd' = 0 /\ partial' = FALSE /\ eof' = FALSE
        /\ bytesLeft' = retryBytesLeft /\ prog' = prog - dataBytes
        /\ UNCHANGED <<input, point, dataBytes, stats, table, overrun>>
    BY DEF Retry, Rewind, CanRewind, Deadlocked
  <1>3. "early" \notin errors => pc = "result"
    BY DEF Retry, Deadlocked
  <1>4. /\ totalSleep < MaxSleep
        /\ totalSleep' = totalSleep + Smaller(sleepTime, MaxSleep - totalSleep)
        /\ sleepTime' = 2 * Smaller(sleepTime, MaxSleep - totalSleep)
    BY DEF Retry, Backoff
  <1>5. /\ InputOK' /\ First' = First /\ Last' = Last /\ RangeRead' = RangeRead
        /\ maxTrx' = maxTrx /\ errors' = errors
    BY <1>1, <1>2, InputStays
  <1>6. /\ FileLen \in Nat /\ First \in Nat /\ Last \in Nat
    BY <1>1, InputBounds
  <1>7. /\ retryOffset \in Int /\ First <= retryOffset /\ retryOffset <= sent
        /\ sent <= pos /\ pos <= FileLen /\ sent \in Int /\ pos \in Int
        /\ dataBytes \in Nat /\ prog \in Int /\ Len(table) \in Nat
    BY <1>1, Positions
  <1>8. retryOffset = Base /\ Base' = Base
    BY <1>1, <1>2, <1>5 DEF Stream, Sending, Base
  <1>9. totalSleep' \in Nat /\ sleepTime' \in Nat /\ totalSleep' <= MaxSleep
    BY <1>1, <1>4, LoadAssumption DEF TypeOK, Smaller
  <1>10. partial' \in BOOLEAN /\ eof' \in BOOLEAN /\ ~partial' /\ ~eof'
    BY <1>2, Zenon
  <1>11. TypeOK'
    <2>1. /\ pos' \in First'..FileLen /\ sent' \in First'..pos'
          /\ retryOffset' \in First'..sent'
      BY <1>2, <1>5, <1>6, <1>7 DEF point
    <2>2. <<>> \in Seq(1..FileLen) /\ 0 \in Nat /\ prog' \in Int
      BY <1>2, <1>7
    <2>. QED  BY <1>1, <1>2, <1>9, <1>10, <2>1, <2>2 DEF TypeOK, point
  <1>12. Stream'
    <2>1. ExactlyOnce'
      BY <1>1, <1>2, <1>5 DEF Stream, ExactlyOnce
    <2>. QED  BY <1>2, <1>8, <2>1 DEF Stream, Sending, point
  <1>13. Limits'
    <2>1. retryBytesLeft = (IF RangeRead THEN Last - retryOffset ELSE 0)
      BY <1>1, <1>2 DEF Limits, Sending
    <2>. QED  BY <1>2, <1>5, <1>10, <2>1 DEF Limits, Sending, point
  <1>14. Counting'
    <2>1. /\ stats = Len(table)
          /\ "early" \notin errors => prog = Len(table) + dataBytes
      BY <1>1, <1>3 DEF Counting, Sending
    <2>2. "early" \notin errors' => prog' = Len(table')
      BY <1>2, <1>5, <1>7, <2>1
    <2>. QED  BY <1>2, <1>9, <2>1, <2>2 DEF Counting, Sending
  <1>15. Room'
    BY <1>1, <1>2 DEF Room
  <1>. QED  BY <1>5, <1>11, <1>12, <1>13, <1>14, <1>15 DEF LoadInv

\* The invariant holds in every state.
LEMMA LoadInvariant == Spec => []LoadInv
  <1>1. Init => LoadInv
    BY InitLoad
  <1>2. LoadInv /\ [Next]_vars => LoadInv'
    BY ControlKeeps, DecideKeeps, ReadFlushesKeeps, ReadPlainKeeps, ReadMoreKeeps,
       CommitKeeps, RetryKeeps DEF Next, Read
  <1>. QED  BY <1>1, <1>2, PTL DEF Spec

\* execute() commits every byte of its file or range once and in order, and all
\* of them when it reports success, whatever the server does and however many
\* times it makes the worker start a statement again.
THEOREM LoadedCorrect == Spec => []LoadedOnce
  <1>1. LoadInv => LoadedOnce
    <2> SUFFICES ASSUME LoadInv PROVE LoadedOnce
      OBVIOUS
    <2>1. ExactlyOnce /\ TypeOK /\ InputOK
      BY DEF LoadInv, Stream
    <2>2. ASSUME pc = "done"
          PROVE  table = [i \in 1..(Last - First) |-> First + i]
      <3>1. sent = Base /\ sent = Last
        BY <2>2 DEF LoadInv, Stream, Limits
      <3>2. /\ table \in Seq(1..FileLen) /\ Len(table) \in Nat /\ First \in Nat
            /\ Last \in Nat
        BY <2>1, Positions, InputBounds
      <3>3. Len(table) = Last - First
        BY <3>1, <3>2 DEF Base
      <3>. QED  BY <2>1, <3>2, <3>3 DEF ExactlyOnce
    <2>. QED  BY <2>1, <2>2 DEF LoadedOnce, DoneMeansLoaded
  <1>. QED  BY <1>1, LoadInvariant, PTL

\* Progress, statistics and sleeps are exact, and no callback returns more than
\* the client's buffer can take, when rows are terminated by one byte (as in
\* the files the dumper writes).
THEOREM CountersCorrect == Needle = 1 => (Spec => []Counters)
  <1> SUFFICES ASSUME Needle = 1 PROVE Spec => []Counters
    OBVIOUS
  <1>1. LoadInv => Counters
    <2> SUFFICES ASSUME LoadInv PROVE Counters
      OBVIOUS
    <2>1. TypeOK /\ Counting /\ Room
      BY DEF LoadInv
    <2>2. ProgressExact
      BY <2>1 DEF Counting, ProgressExact
    <2>. QED  BY <2>1, <2>2 DEF Counters, WithinBuffer, SleepBounded, Counting, Room
  <1>. QED  BY <1>1, LoadInvariant, PTL

-----------------------------------------------------------------------------
(* Rows are not split *)

\* A client that asks for more than one byte at a time, and rows terminated by
\* one byte.
Client == Needle = 1 /\ 1 \notin BufLens

\* Row ends in the buffer, by their offsets.
LEMMA RowEndsSeen ==
  ASSUME LoadInv, pc = "decide", Client
  PROVE  /\ rowEnds \subseteq Int
         /\ \A e \in rowEnds : sent < e /\ e <= pos => e - 1 - sent \in Starts
         /\ \A s \in Starts : s \in 0..DataLen /\ s + 1 <= DataLen
  <1>1. /\ InputOK /\ TypeOK /\ sent \in Int /\ pos \in Int /\ Needle = 1
        /\ FileLen \in Nat
    BY Deciding DEF Client
  <1>2. rowEnds \subseteq Int
    BY <1>1 DEF InputOK
  <1>3. \A e \in rowEnds : e <= pos /\ e - Needle >= sent => e - Needle - sent \in Starts
    BY <1>1, StartsAreRows
  <1>4. \A s \in Starts : s \in 0..DataLen /\ s + Needle <= DataLen
    BY <1>1, StartsAreRows
  <1>. QED  BY <1>1, <1>2, <1>3, <1>4

\* A limit beyond the buffer finds the rows if there are any.
LEMMA NoRowInBuffer ==
  ASSUME LoadInv, pc = "decide", Client, DataLen < Left, LastBoundary(Left) = 0
  PROVE  \A e \in rowEnds : e <= sent \/ e > pos
  <1>1. /\ InputOK /\ TypeOK /\ sent \in Int /\ pos \in Int /\ DataLen \in Nat
        /\ DataLen = pos - sent /\ Left \in Int
    BY Deciding
  <1>2. Reach(Left) = DataLen
    BY <1>1 DEF Reach
  <1>3. DataLen < 1 \/ \A s \in Starts : s > DataLen
    BY <1>1, <1>2, LastBoundaryIs DEF Client
  <1>4. SUFFICES ASSUME NEW e \in rowEnds, sent < e, e <= pos
                 PROVE  FALSE
    BY <1>1, RowEndsSeen
  <1>5. e \in Int /\ e - 1 - sent \in Starts
    BY <1>4, RowEndsSeen
  <1>6. e - 1 - sent \in 0..DataLen
    BY <1>5, RowEndsSeen
  <1>. QED  BY <1>1, <1>3, <1>4, <1>5, <1>6

\* A row that does not fit the client's buffer ends behind what the buffer takes.
LEMMA RowBeyondClient ==
  ASSUME LoadInv, pc = "decide", Client, LastBoundary(bufLen) = 0,
         LastBoundary(Left) > 0
  PROVE  \A e \in rowEnds : e <= sent \/ e > sent + bufLen
  <1>1. /\ InputOK /\ TypeOK /\ sent \in Int /\ pos \in Int /\ DataLen \in Nat
        /\ DataLen = pos - sent /\ Left \in Int /\ bufLen \in Nat
    BY Deciding
  <1>2. bufLen # 1 /\ bufLen > 0
    BY <1>1, InputBounds DEF Client, InputOK
  <1>3. /\ LastBoundary(Left) \in 0..DataLen /\ LastBoundary(Left) - 1 \in Starts
    BY <1>1, LastBoundaryIs DEF Client
  <1>4. Reach(bufLen) < 1 \/ \A s \in Starts : s > Reach(bufLen)
    BY <1>1, LastBoundaryIs DEF Client
  <1>5. bufLen < DataLen /\ \A s \in Starts : s > bufLen - 1
    <2>1. CASE bufLen < DataLen
      <3>1. Reach(bufLen) = bufLen - 1
        BY <1>1, <1>2, <2>1 DEF Reach
      <3>. QED  BY <1>1, <1>2, <1>4, <2>1, <3>1
    <2>2. CASE ~(bufLen < DataLen)
      <3>1. Reach(bufLen) = DataLen
        BY <2>2 DEF Reach
      <3>. QED  BY <1>1, <1>3, <1>4, <3>1
    <2>. QED  BY <2>1, <2>2
  <1>6. ASSUME NEW e \in rowEnds
        PROVE  e <= sent \/ e > sent + bufLen
    <2>1. e \in Int
      BY RowEndsSeen
    <2>2. CASE e > pos
      BY <1>1, <1>5, <2>1, <2>2
    <2>3. CASE sent < e /\ e <= pos
      <3>1. e - 1 - sent \in Starts
        BY <2>3, RowEndsSeen
      <3>2. e - 1 - sent > bufLen - 1
        BY <1>5, <3>1
      <3>. QED  BY <1>1, <2>1, <3>2
    <2>. QED  BY <1>1, <2>1, <2>2, <2>3
  <1>. QED  BY <1>6

\* The parts of Rows in a state in which read() decides.
LEMMA RowsSoFar ==
  ASSUME LoadInv, Rows, pc = "decide"
  PROVE  /\ trxEnd > 0 =>
              /\ Base + trxEnd \in rowEnds \cup {FileLen}
              /\ trxEnd > maxTrx => \A e \in rowEnds : e <= Base \/ e >= Base + trxEnd
         /\ trxEnd = 0 /\ ~partial =>
              /\ trxSize < maxTrx
              /\ \/ sent = Base \/ sent \in rowEnds
                 \/ \E e \in rowEnds : sent < e /\ e <= pos /\ e < Base + maxTrx
         /\ trxEnd = 0 /\ partial => \A e \in rowEnds : e <= Base \/ e > sent
  <1>1. maxTrx > 0
    BY Deciding
  <1>. QED  BY <1>1 DEF Rows, Sending

\* When a part of a row is to be sent, no row of the transaction is complete.
LEMMA NoRowSent ==
  ASSUME LoadInv, Rows, pc = "decide", trxEnd = 0, partial \/ trxSize = 0
  PROVE  \A e \in rowEnds : e <= Base \/ e > sent
  <1>1. /\ sent \in Int /\ Base \in Int /\ trxSize = sent - Base /\ partial \in BOOLEAN
        /\ InputOK /\ FileLen \in Nat /\ Needle \in Nat
    BY Deciding
  <1>2. CASE partial
    BY <1>2, RowsSoFar
  <1>3. CASE trxSize = 0
    BY <1>1, <1>3 DEF InputOK
  <1>. QED  BY <1>2, <1>3

\* A transaction whose end read() finds at its limit ends with a row and is not
\* larger than the limit.
LEMMA KnownEndRows ==
  ASSUME LoadInv, Rows, pc = "decide", Client, KnownEnd > 0
  PROVE  /\ Base + KnownEnd \in rowEnds \cup {FileLen}
         /\ KnownEnd > maxTrx => \A e \in rowEnds : e <= Base \/ e >= Base + KnownEnd
  <1>1. /\ InputOK /\ TypeOK /\ sent \in Int /\ pos \in Int /\ DataLen \in Nat
        /\ DataLen = pos - sent /\ Left \in Int /\ Left = maxTrx - trxSize
        /\ trxSize \in Nat /\ maxTrx \in Nat /\ Base \in Int /\ trxSize = sent - Base
        /\ trxEnd \in Nat
    BY Deciding
  <1>2. CASE KnownEnd = trxEnd
    BY <1>2, RowsSoFar
  <1>3. CASE KnownEnd # trxEnd
    <2>1. /\ trxEnd = 0 /\ LastBoundary(Left) > 0 /\ DataLen >= Left
          /\ Left > 0 \/ ~partial
          /\ KnownEnd = trxSize + LastBoundary(Left)
      BY <1>1, <1>3, KnownEndIs
    <2>2. Left > 0
      <3>1. ~partial => trxSize < maxTrx
        BY <2>1, RowsSoFar
      <3>. QED  BY <1>1, <2>1, <3>1
    <2>3. /\ LastBoundary(Left) \in 0..DataLen
          /\ LastBoundary(Left) - 1 <= Reach(Left)
          /\ sent + LastBoundary(Left) \in rowEnds
      BY <1>1, <2>1, LastBoundaryIs DEF Client
    <2>4. LastBoundary(Left) <= Left
      BY <1>1, <2>1, <2>2, <2>3 DEF Reach
    <2>5. KnownEnd <= maxTrx /\ KnownEnd \in Int
      BY <1>1, <2>1, <2>3, <2>4
    <2>6. Base + KnownEnd = sent + LastBoundary(Left)
      <3>1. LastBoundary(Left) \in Int
        BY <1>1, <2>3
      <3>2. KnownEnd = sent - Base + LastBoundary(Left)
        BY <1>1, <2>1
      <3>. QED  BY <1>1, <3>1, <3>2
    <2>. QED  BY <1>1, <2>3, <2>5, <2>6
  <1>. QED  BY <1>2, <1>3

\* The answers of read() keep Rows.
LEMMA DecideRows ==
  ASSUME LoadInv, Rows, Client,
         SendToEnd \/ FlushSentRows \/ SendOversized \/ SendRows \/ SendPartOfRow
         \/ SendPartial \/ SendLastRow
  PROVE  Rows'
  <1>1. pc = "decide" /\ UNCHANGED <<input, pos, table>>
    BY DEF SendToEnd, FlushSentRows, SendOversized, SendRows, SendPartOfRow,
           SendPartial, SendLastRow, Decided
  <1>2. /\ InputOK /\ TypeOK /\ bufLen \in Nat /\ bufLen > 0
        /\ pos \in Int /\ sent \in Int /\ Base \in Int
        /\ trxSize \in Nat /\ trxEnd \in Nat /\ partial \in BOOLEAN
        /\ DataLen \in Nat /\ DataLen = pos - sent
        /\ Left \in Int /\ Left = maxTrx - trxSize /\ maxTrx \in Nat
        /\ trxSize = sent - Base /\ sent <= pos /\ pos <= FileLen
        /\ trxEnd = 0 => eof \/ sent < pos
        /\ eof => pos = FileLen
    BY <1>1, Deciding
  <1>3. /\ LastBoundary(Left) \in 0..DataLen /\ LastBoundary(bufLen) \in 0..DataLen
        /\ FirstBoundary \in 0..DataLen
    BY <1>2, LastBoundaryIs, FirstBoundaryIs
  <1>4. KnownEnd = 0 => trxEnd = 0
    BY <1>2, KnownEndIs
  <1>5. Base' = Base /\ rowEnds' = rowEnds /\ maxTrx' = maxTrx /\ pos' = pos
    BY <1>1, <1>2, InputStays DEF Base
  <1>6. rowEnds \subseteq Int /\ FileLen \in Nat
    BY <1>1, RowEndsSeen, Deciding
  <1>7. CASE SendToEnd
    <2>1. trxEnd' = KnownEnd /\ KnownEnd > 0
      BY <1>7 DEF SendToEnd
    <2>2. PICK n \in Nat : n > 0 /\ sent' = sent + n /\ Return(n)
      BY <1>7, SendToEndIs
    <2>3. pc' = "ask" /\ trxEnd' # 0
      BY <2>1, <2>2 DEF Return
    <2>4. /\ Base + KnownEnd \in rowEnds \cup {FileLen}
          /\ KnownEnd > maxTrx => \A e \in rowEnds : e <= Base \/ e >= Base + KnownEnd
      BY <1>1, <2>1, KnownEndRows
    <2>. QED  BY <1>5, <2>1, <2>3, <2>4 DEF Rows
  <1>8. CASE FlushSentRows
    <2>1. /\ KnownEnd = 0 /\ DataLen >= Left /\ ~partial /\ trxSize > 0
          /\ trxEnd' = trxSize /\ sent' = sent
      BY <1>8 DEF FlushSentRows
    <2>2. /\ trxSize < maxTrx
          /\ \/ sent = Base \/ sent \in rowEnds
             \/ \E e \in rowEnds : sent < e /\ e <= pos /\ e < Base + maxTrx
      BY <1>1, <1>4, <2>1, RowsSoFar
    <2>3. Left > 0
      BY <1>2, <2>2
    <2>4. LastBoundary(Left) = 0
      BY <1>2, <2>1, <2>3, KnownEndIs
    <2>5. ASSUME NEW e \in rowEnds, sent < e, e <= pos, e < Base + maxTrx
          PROVE  FALSE
      <3>1. e \in Int /\ e - 1 - sent \in Starts
        BY <1>1, <1>6, <2>5, RowEndsSeen
      <3>2. Reach(Left) < 1 \/ \A s \in Starts : s > Reach(Left)
        BY <1>2, <2>4, LastBoundaryIs DEF Client
      <3>3. Reach(Left) >= 1 /\ e - 1 - sent <= Reach(Left)
        BY <1>2, <2>1, <2>3, <2>5, <3>1 DEF Reach
      <3>4. Reach(Left) \in Int
        BY <1>2 DEF Reach
      <3>. QED  BY <1>2, <3>1, <3>2, <3>3, <3>4
    <2>6. sent # Base
      BY <1>2, <2>1
    <2>7. sent \in rowEnds
      BY <2>2, <2>5, <2>6
    <2>8. Base + trxSize = sent /\ ~(trxSize > maxTrx) /\ trxSize # 0
      BY <1>2, <2>1, <2>2
    <2>. QED  BY <1>5, <2>1, <2>7, <2>8 DEF Rows
  <1>9. CASE SendOversized
    <2>1. KnownEnd = 0 /\ DataLen >= Left /\ (partial \/ trxSize = 0) /\ trxEnd = 0
      BY <1>4, <1>9 DEF SendOversized
    <2>2. \A e \in rowEnds : e <= Base \/ e > sent
      BY <1>1, <2>1, NoRowSent
    <2>3. CASE FirstBoundary > 0
      <3>1. /\ trxEnd' = trxSize + FirstBoundary
            /\ Consume(bufLen, trxSize + FirstBoundary)
        BY <1>9, <2>3 DEF SendOversized
      <3>2. /\ trxSize + FirstBoundary \in Nat /\ trxSize < trxSize + FirstBoundary
            /\ trxSize + FirstBoundary > 0 /\ trxSize <= trxSize + FirstBoundary
        BY <1>2, <1>3, <2>3
      <3>3. LoadInv
        OBVIOUS
      <3>4. PICK n \in Nat :
             /\ sent' = sent + n /\ Return(n)
             /\ n = 0 => \/ bufLen = 0 \/ DataLen = 0
                         \/ (trxSize + FirstBoundary > 0 /\ trxSize + FirstBoundary = trxSize)
        BY <1>2, <3>1, <3>2, <3>3, ConsumeIs
      <3>5. n # 0
        BY <1>2, <1>3, <2>3, <3>2, <3>4
      <3>6. pc' = "ask"
        BY <3>4, <3>5 DEF Return
      <3>7. /\ sent + FirstBoundary \in rowEnds
            /\ \A s \in Starts : FirstBoundary <= s + 1
        BY <1>2, <2>3, FirstBoundaryIs DEF Client
      <3>8. FirstBoundary \in Int
        BY <1>2, <1>3
      <3>9. Base + (trxSize + FirstBoundary) = sent + FirstBoundary
        BY <1>2, <3>8
      <3>10. ASSUME NEW e \in rowEnds
             PROVE  e <= Base \/ e >= sent + FirstBoundary
        <4>1. e \in Int
          BY <1>6
        <4>2. CASE e <= sent
          BY <1>2, <2>2, <4>1, <4>2
        <4>3. CASE e > pos
          BY <1>2, <1>3, <3>8, <4>1, <4>3
        <4>4. CASE sent < e /\ e <= pos
          <5>1. e - 1 - sent \in Starts
            BY <1>1, <4>4, RowEndsSeen
          <5>2. FirstBoundary <= (e - 1 - sent) + 1
            BY <3>7, <5>1
          <5>. QED  BY <1>2, <3>8, <4>1, <5>2
        <4>. QED  BY <1>2, <4>1, <4>2, <4>3, <4>4
      <3>11. trxEnd' # 0
        BY <3>1, <3>2
      <3>. QED  BY <1>5, <3>1, <3>6, <3>7, <3>9, <3>10, <3>11 DEF Rows
    <2>4. CASE ~(FirstBoundary > 0)
      <3>1. trxEnd' = 0 /\ partial' = TRUE /\ Consume(bufLen, 0)
        BY <1>9, <2>1, <2>4 DEF SendOversized
      <3>2. Starts = {}
        BY <1>2, <1>3, <2>4, FirstBoundaryIs
      <3>3. ASSUME NEW e \in rowEnds
            PROVE  e <= sent \/ e > pos
        BY <1>1, <1>2, <1>6, <3>2, RowEndsSeen
      <3>4. PICK n \in Nat :
              /\ n <= DataLen /\ (n = 0 => bufLen = 0 \/ DataLen = 0)
              /\ sent' = sent + n /\ Return(n)
        BY <1>1, <1>2, <3>1, SendSome
      <3>5. \A e \in rowEnds : e <= Base \/ e > sent'
        BY <1>2, <1>6, <2>2, <3>3, <3>4
      <3>6. n = 0 => sent' = FileLen
        BY <1>2, <2>1, <3>4
      <3>7. pc' = "result" => n = 0
        BY <3>4 DEF Return
      <3>8. ~(trxEnd' > 0) /\ ~(trxEnd' = 0 /\ ~partial')
        BY <3>1
      <3>. QED  BY <1>5, <3>5, <3>6, <3>7, <3>8 DEF Rows
    <2>. QED  BY <2>3, <2>4
  <1>10. CASE SendRows
    <2>1. /\ trxEnd' = 0 /\ partial' = FALSE /\ Consume(LastBoundary(bufLen), 0)
          /\ LastBoundary(bufLen) > 0 /\ DataLen < Left
      BY <1>4, <1>10 DEF SendRows
    <2>2. PICK n \in Nat :
            /\ n = Smaller(LastBoundary(bufLen), DataLen)
            /\ sent' = sent + n /\ trxSize' = trxSize + n /\ Return(n)
      BY <1>1, <1>3, <2>1, SendSome
    <2>3. n = LastBoundary(bufLen)
      BY <1>2, <1>3, <2>2 DEF Smaller
    <2>4. sent' \in rowEnds
      BY <1>2, <2>1, <2>2, <2>3, LastBoundaryIs
    <2>5. trxSize' < maxTrx
      BY <1>2, <1>3, <2>1, <2>2, <2>3
    <2>6. pc' = "ask" /\ ~(trxEnd' > 0) /\ ~partial'
      BY <2>1, <2>2, <2>3 DEF Return
    <2>. QED  BY <1>5, <2>4, <2>5, <2>6 DEF Rows
  <1>11. CASE SendPartOfRow
    <2> DEFINE length == Smaller(bufLen, LastBoundary(Left))
    <2>1. /\ trxEnd = 0 /\ trxEnd' = 0 /\ partial' = partial /\ Consume(length, 0)
          /\ LastBoundary(bufLen) = 0 /\ LastBoundary(Left) > 0 /\ DataLen < Left
      BY <1>4, <1>11 DEF SendPartOfRow
    <2>2. length \in Nat /\ length <= bufLen /\ length <= LastBoundary(Left) /\ length > 0
      BY <1>2, <1>3, <2>1 DEF Smaller
    <2> HIDE DEF length
    <2>3. PICK n \in Nat :
            /\ n <= length /\ (n = 0 => length = 0 \/ DataLen = 0)
            /\ sent' = sent + n /\ trxSize' = trxSize + n /\ Return(n)
      BY <1>1, <2>1, <2>2, SendSome
    <2>4. /\ n > 0 /\ n <= bufLen /\ n <= LastBoundary(Left) /\ n <= DataLen
      BY <1>2, <1>3, <2>1, <2>2, <2>3
    <2>5. pc' = "ask"
      BY <2>3, <2>4 DEF Return
    <2>6. CASE partial
      <3>1. \A e \in rowEnds : e <= Base \/ e > sent
        BY <1>1, <2>1, <2>6, RowsSoFar
      <3>2. \A e \in rowEnds : e <= sent \/ e > sent + bufLen
        BY <1>1, <2>1, RowBeyondClient
      <3>3. \A e \in rowEnds : e <= Base \/ e > sent'
        BY <1>2, <1>6, <2>3, <2>4, <3>1, <3>2
      <3>4. ~(trxEnd' > 0) /\ partial'
        BY <2>1, <2>6
      <3>. QED  BY <1>5, <2>5, <3>3, <3>4 DEF Rows
    <2>7. CASE ~partial
      <3>1. trxSize' < maxTrx
        BY <1>2, <2>1, <2>3, <2>4
      <3>2. sent + LastBoundary(Left) \in rowEnds
        BY <1>2, <2>1, LastBoundaryIs
      <3>3. /\ sent' <= sent + LastBoundary(Left) /\ sent + LastBoundary(Left) <= pos
            /\ sent + LastBoundary(Left) < Base + maxTrx
            /\ sent' \in Int /\ sent + LastBoundary(Left) \in Int
        BY <1>2, <1>3, <2>1, <2>3, <2>4
      <3>4. \/ sent' \in rowEnds
            \/ \E e \in rowEnds : sent' < e /\ e <= pos /\ e < Base + maxTrx
        <4>1. CASE sent' = sent + LastBoundary(Left)
          BY <3>2, <4>1
        <4>2. CASE sent' < sent + LastBoundary(Left)
          BY <3>2, <3>3, <4>2
        <4>. QED  BY <3>3, <4>1, <4>2
      <3>5. ~(trxEnd' > 0) /\ ~partial'
        BY <2>1, <2>7
      <3>. QED  BY <1>5, <2>5, <3>1, <3>4, <3>5 DEF Rows
    <2>. QED  BY <2>6, <2>7
  <1>12. CASE SendPartial
    <2>1. /\ trxEnd = 0 /\ trxEnd' = 0 /\ partial' = TRUE /\ Consume(bufLen, 0)
          /\ DataLen < Left /\ LastBoundary(Left) = 0 /\ (partial \/ trxSize = 0)
      BY <1>4, <1>12 DEF SendPartial, NoRow
    <2>2. \A e \in rowEnds : e <= Base \/ e > sent
      BY <1>1, <2>1, NoRowSent
    <2>3. \A e \in rowEnds : e <= sent \/ e > pos
      BY <1>1, <2>1, NoRowInBuffer
    <2>4. PICK n \in Nat :
            /\ n <= DataLen /\ (n = 0 => bufLen = 0 \/ DataLen = 0)
            /\ sent' = sent + n /\ Return(n)
      BY <1>1, <1>2, <2>1, SendSome
    <2>5. \A e \in rowEnds : e <= Base \/ e > sent'
      BY <1>2, <1>6, <2>2, <2>3, <2>4
    <2>6. n = 0 => sent' = FileLen
      BY <1>2, <2>1, <2>4
    <2>7. pc' = "result" => n = 0
      BY <2>4 DEF Return
    <2>8. ~(trxEnd' > 0) /\ ~(trxEnd' = 0 /\ ~partial')
      BY <2>1
    <2>. QED  BY <1>5, <2>5, <2>6, <2>7, <2>8 DEF Rows
  <1>13. CASE SendLastRow
    <2>1. /\ trxEnd' = trxSize + DataLen /\ trxSize > 0 /\ eof /\ DataLen < Left
          /\ Consume(bufLen, trxSize + DataLen)
      BY <1>13 DEF SendLastRow
    <2>2. /\ trxSize + DataLen \in Nat /\ trxSize <= trxSize + DataLen
      BY <1>2
    <2>3. PICK n \in Nat :
         /\ sent' = sent + n /\ Return(n)
         /\ n = 0 => \/ bufLen = 0 \/ DataLen = 0
                     \/ (trxSize + DataLen > 0 /\ trxSize + DataLen = trxSize)
      BY <1>2, <2>1, <2>2, ConsumeIs
    <2>4. n = 0 => sent' = FileLen
      BY <1>2, <2>1, <2>3
    <2>5. Base + trxEnd' = FileLen /\ ~(trxEnd' > maxTrx) /\ trxEnd' # 0
      BY <1>2, <2>1
    <2>6. pc' = "result" => n = 0
      BY <2>3 DEF Return
    <2>. QED  BY <1>5, <2>4, <2>5, <2>6 DEF Rows
  <1>. QED  BY <1>7, <1>8, <1>9, <1>10, <1>11, <1>12, <1>13

\* The other steps keep Rows.
LEMMA OtherRows ==
  ASSUME LoadInv, Rows,
         Start \/ LocalInfileInit \/ ReadFlushes \/ ReadPlain \/ ReadMore \/ ReadOn
         \/ Commit \/ Retry \/ Fail \/ UNCHANGED vars
  PROVE  Rows'
  <1>1. InputOK /\ TypeOK /\ Stream /\ Limits
    BY DEF LoadInv
  <1>2. /\ sent \in Int /\ Base \in Int /\ pos \in Int /\ trxSize \in Nat /\ trxEnd \in Nat
        /\ maxTrx \in Nat
    BY <1>1, Positions, InputBounds
  <1>3. CASE Start \/ Commit \/ Retry \/ Fail
    <2>1. pc' \notin Sending
      BY <1>3 DEF Start, Commit, Retry, Fail, Sending
    <2>. QED  BY <2>1 DEF Rows
  <1>4. CASE LocalInfileInit
    <2>1. /\ pc = "query" /\ pc' = "ask" /\ UNCHANGED <<input, pos, sent, trx, table>>
      BY <1>4 DEF LocalInfileInit
    <2>2. sent = Base /\ trxSize = 0 /\ trxEnd = 0 /\ ~partial
      BY <1>1, <2>1 DEF Stream, Limits
    <2>3. Base' = Base
      BY <1>1, <2>1, InputStays DEF Base
    <2>4. sent' = Base' /\ trxSize' = 0 /\ trxEnd' = 0 /\ ~partial'
      BY <2>1, <2>2, <2>3 DEF trx
    <2>. QED  BY <2>1, <2>4 DEF Rows
  <1>5. CASE ReadPlain
    <2>1. maxTrx = 0 /\ maxTrx' = maxTrx
      BY <1>1, <1>5, InputStays DEF ReadPlain
    <2>. QED  BY <2>1 DEF Rows
  <1>6. CASE ReadFlushes
    <2>1. /\ pc = "ask" /\ FlushPending /\ UNCHANGED <<input, pos, sent, trx, table>>
      BY <1>6 DEF ReadFlushes
    <2>2. Base' = Base /\ rowEnds' = rowEnds /\ maxTrx' = maxTrx
      BY <1>1, <2>1, InputStays DEF Base
    <2>3. /\ maxTrx > 0 /\ trxEnd > 0 /\ trxEnd <= trxSize
      BY <2>1 DEF FlushPending
    <2>4. trxSize <= trxEnd /\ trxSize = sent - Base
      BY <1>1, <2>1, <2>3 DEF Limits, Sending
    <2>5. sent = Base + trxEnd
      BY <1>2, <2>3, <2>4
    <2>6. /\ Base + trxEnd \in rowEnds \cup {FileLen}
          /\ trxEnd > maxTrx => \A e \in rowEnds : e <= Base \/ e >= Base + trxEnd
      BY <2>1, <2>3 DEF Rows, Sending
    <2>7. trxEnd' = trxEnd /\ trxEnd' # 0 /\ sent' = sent
      BY <2>1, <2>3 DEF trx
    <2>. QED  BY <2>2, <2>5, <2>6, <2>7 DEF Rows
  <1>7. CASE ReadMore \/ ReadOn \/ UNCHANGED vars
    <2>1. /\ pc' \in Sending => pc \in Sending
          /\ pc' = "result" => pc = "result"
          /\ UNCHANGED <<input, sent, trx, table>>
      BY <1>7 DEF ReadMore, ReadOn, vars, Sending
    <2>2. Base' = Base /\ rowEnds' = rowEnds /\ maxTrx' = maxTrx
      BY <1>1, <2>1, InputStays DEF Base
    <2>3. pos' \in Int /\ pos <= pos'
      <3>1. CASE ReadMore /\ trxEnd = 0 /\ ~eof
        <4>1. PICK n \in FileRead(bufLen) : pos' = pos + n
          BY <3>1 DEF ReadMore
        <4>2. n \in Nat
          BY <1>1, InputBounds, FileReadIs
        <4>. QED  BY <1>2, <4>1, <4>2
      <3>2. CASE ~(ReadMore /\ trxEnd = 0 /\ ~eof)
        BY <1>2, <1>7, <3>2 DEF ReadMore, ReadOn, vars
      <3>. QED  BY <3>1, <3>2
    <2>4. rowEnds \subseteq Int
      BY <1>1, InputBounds DEF InputOK
    <2>5. ASSUME NEW e \in rowEnds, sent < e /\ e <= pos /\ e < Base + maxTrx
          PROVE  sent < e /\ e <= pos' /\ e < Base + maxTrx
      BY <1>2, <2>3, <2>4, <2>5
    <2>6. sent' = sent /\ trxSize' = trxSize /\ trxEnd' = trxEnd /\ partial' = partial
      BY <2>1 DEF trx
    <2>. QED  BY <2>1, <2>2, <2>5, <2>6 DEF Rows
  <1>. QED  BY <1>3, <1>4, <1>5, <1>6, <1>7

\* A sub-chunk is committed at the end of a row, and is larger than max_trx_size
\* only when it is a single row, for a client that asks for more than one byte at
\* a time and rows terminated by one byte.
THEOREM SubChunksCorrect == Client => (Spec => SubChunks)
  <1> SUFFICES ASSUME Client PROVE Spec => SubChunks
    OBVIOUS
  <1> DEFINE WholeRows ==
        maxTrx > 0 /\ table' # table =>
          /\ First + Len(table') \in rowEnds \cup {FileLen}
          /\ Len(received) > maxTrx =>
               ~\E e \in rowEnds : First + Len(table) < e /\ e < First + Len(table')
  <1>1. Init => Rows
    BY DEF Init, Rows, Sending
  <1>2. LoadInv /\ Rows /\ [Next]_vars => Rows'
    BY DecideRows, OtherRows DEF Next, Read
  <1>3. ASSUME LoadInv, Rows, Commit
        PROVE  WholeRows
    <2> SUFFICES ASSUME maxTrx > 0, table' # table
                 PROVE  /\ First + Len(table') \in rowEnds \cup {FileLen}
                        /\ Len(received) > maxTrx =>
                             ~\E e \in rowEnds : Base < e /\ e < First + Len(table')
      BY DEF Base
    <2>1. InputOK /\ TypeOK /\ Stream /\ Limits
      BY <1>3 DEF LoadInv
    <2>2. pc = "result" /\ table' = table \o received
      BY <1>3 DEF Commit
    <2>3. /\ sent \in Int /\ Base \in Int /\ trxSize \in Nat /\ trxEnd \in Nat
          /\ maxTrx \in Nat /\ First \in Nat /\ Len(table) \in Nat
          /\ table \in Seq(1..FileLen) /\ received \in Seq(1..FileLen)
          /\ partial \in BOOLEAN
      BY <2>1, Positions, InputBounds DEF TypeOK
    <2>4. Len(received) = sent - Base /\ trxSize = sent - Base
      BY <2>1, <2>2 DEF Stream, Limits, Sending
    <2>5. Len(table') = Len(table) + Len(received)
      BY <2>2, <2>3, ConcatProperties
    <2>6. First + Len(table') = sent
      BY <2>3, <2>4, <2>5 DEF Base
    <2>7. sent # Base
      <3>1. Len(received) = 0 => table \o received = table
        BY <2>3
      <3>. QED  BY <2>2, <2>3, <2>4, <3>1
    <2>8. sent \in rowEnds \cup {FileLen}
      BY <1>3, <2>2, <2>7 DEF Rows, Sending
    <2>9. rowEnds \subseteq Int
      BY <2>1, InputBounds DEF InputOK
    <2>10. ASSUME trxSize > maxTrx, NEW e \in rowEnds
           PROVE  e <= Base \/ e >= sent
      <3>1. CASE trxEnd > 0
        <4>1. trxSize <= trxEnd
          BY <2>1, <2>2, <3>1 DEF Limits, Sending
        <4>2. trxEnd > maxTrx
          BY <2>3, <2>10, <4>1
        <4>3. e <= Base \/ e >= Base + trxEnd
          BY <1>3, <2>2, <3>1, <4>2 DEF Rows, Sending
        <4>4. sent <= Base + trxEnd /\ e \in Int
          BY <2>3, <2>4, <2>9, <4>1
        <4>. QED  BY <2>3, <4>3, <4>4
      <3>2. CASE trxEnd = 0 /\ partial
        <4>1. e <= Base \/ e > sent
          BY <1>3, <2>2, <3>2 DEF Rows, Sending
        <4>. QED  BY <2>3, <2>9, <4>1
      <3>3. CASE trxEnd = 0 /\ ~partial
        <4>1. trxSize < maxTrx
          BY <1>3, <2>2, <3>3 DEF Rows, Sending
        <4>. QED  BY <2>3, <2>10, <4>1
      <3>. QED  BY <2>3, <3>1, <3>2, <3>3
    <2>11. Len(received) > maxTrx => ~\E e \in rowEnds : Base < e /\ e < sent
      BY <2>3, <2>4, <2>9, <2>10
    <2>. QED  BY <2>6, <2>8, <2>11
  <1>4. LoadInv /\ Rows /\ [Next]_vars => [WholeRows]_vars
    <2> SUFFICES ASSUME LoadInv, Rows, Next, ~Commit PROVE table' = table
      BY <1>3
    <2>. QED  BY DEF Next, Read, Start, LocalInfileInit, ReadFlushes, ReadPlain, ReadMore,
                  SendToEnd, FlushSentRows, SendOversized, SendRows, SendPartOfRow,
                  SendPartial, SendLastRow, ReadOn, Retry, Fail, Decided
  <1> HIDE DEF WholeRows
  <1>5. Spec => [][WholeRows]_vars
    BY <1>1, <1>2, <1>4, LoadInvariant, PTL DEF Spec
  <1>. QED  BY <1>5 DEF SubChunks, WholeRows

=============================================================================
