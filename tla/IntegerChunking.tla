--------------------------- MODULE IntegerChunking ---------------------------
(***************************************************************************)
(* How the dumper splits a table into chunks along an integer column:      *)
(* Table_worker::chunk_integer_column() of src/modules/util/dump/dumper.cc *)
(* with constant_step(), adaptive_step_v2() and Chunk_coalescer.           *)
(*                                                                         *)
(* The column holds values of a machine type TMin..TMax, and the arithmetic *)
(* is done in that type: what leaves it wraps around.  The row counts come *)
(* from EXPLAIN, so they are estimates that need not agree with the data   *)
(* or with each other: every query answers with any member of RowCounts.   *)
(*                                                                         *)
(* A chunk is the set of keys its WHERE clause selects.  A value with too  *)
(* many rows is handed to the next column of the index; that recursion is  *)
(* this same algorithm (nested), so here it is one step that dumps the     *)
(* value.  Rows with NULL in a column of a unique index have no place in   *)
(* the walk; the chunk with number 0 selects them too (nulls).             *)
(*                                                                         *)
(* A DECIMAL column is walked in units of its last digit, without a type   *)
(* to overflow: the case of a TMax that no sum reaches.                    *)
(***************************************************************************)
EXTENDS Integers

CONSTANTS
  Types,           \* the types a column may have, as pairs <<TMin, TMax>>
  RowCounts,       \* what EXPLAIN may answer
  RowsPerChunk,    \* info.rows_per_chunk
  Accuracy,        \* info.accuracy
  TableRows,       \* what info.row_count may be
  Probes,          \* k_adaptive_expansion_probes
  NextIsInteger,   \* whether the index has a next column, of such a type
  Levels           \* what "info.index_column > 0" may be

ASSUME TypeAssumption ==
  /\ Types \subseteq Int \X Int
  /\ \A t \in Types : t[1] <= 0 /\ 0 < t[2]

ASSUME RowsAssumption ==
  /\ RowCounts \subseteq Nat
  /\ TableRows \subseteq Nat
  /\ RowsPerChunk \in Nat \ {0}
  /\ Accuracy \in Nat \ {0}
  /\ Probes \in Nat

ASSUME ShapeAssumption ==
  /\ NextIsInteger \subseteq BOOLEAN
  /\ Levels \subseteq BOOLEAN

VARIABLES
  type,          \* the type of the column
  nested,        \* info.index_column > 0
  deeper,        \* the index has a next column, of an integer type
  min, max,      \* the smallest and the largest value of the column
  hint,          \* estimated_step
  constant,      \* use_constant_step
  pc,            \* where chunk_integer_column() or adaptive_step_v2() is
  begin,         \* current_chunk_begin
  right, left,   \* the range that is searched, the lower end of the chop
  search,        \* search_range
  probes,        \* expansion_probes
  under,         \* last_underfilled_right and its rows, as a record
  useCnt,        \* *use_returned_cnt
  rows,          \* *rows_cnt
  step,          \* step_size
  co,            \* the Chunk_coalescer
  dumped,        \* the keys that the chunks created so far select
  twice,         \* whether two of them select the same key
  lasts,         \* how many of them are marked as the last one
  nulls,         \* m_chunking_ranges_counter > 0: chunk 0 selects NULL rows
  interrupted    \* m_worker_interrupt was seen

inputs == <<type, nested, deeper, min, max, hint, constant>>
searchVars == <<right, left, search, probes, under, useCnt>>
outVars == <<dumped, twice, lasts, nulls>>
vars == <<inputs, searchVars, outVars, pc, begin, rows, step, co, interrupted>>

TMin == type[1]
TMax == type[2]
Type == TMin..TMax

\* The arithmetic of the type, for results that are off by less than its size.
Size == TMax - TMin + 1

Wrap(x) == IF x > TMax THEN x - Size ELSE IF x < TMin THEN x + Size ELSE x

\* x / 2 of C++, which rounds towards zero.
Half(x) == IF x >= 0 THEN x \div 2 ELSE -((-x) \div 2)

Smaller(a, b) == IF a < b THEN a ELSE b
Larger(a, b)  == IF a < b THEN b ELSE a

EnsureNotZero(x) == IF x = 0 THEN 1 ELSE x

\* MUTANT: the sum is not checked for overflow.
SumWraps(value, addend) == Wrap(value + addend)

\* sum(): the largest value of the type instead of an overflow.
Sum(value, addend) ==
  IF Wrap(TMax - addend) <= value THEN TMax ELSE Wrap(value + addend)

\* distance(): an unsigned number of values, one less at its limit.
Distance(a, b) == IF b - a < Size - 1 THEN b - a + 1 ELSE b - a

\* cast(): the largest value of the type at most.
Cast(x) == Smaller(x, TMax)

EstimatedChunks(n) == Larger(n \div RowsPerChunk, 1)

EstimatedStep(a, b, n) ==
  Cast(EnsureNotZero(Distance(a, b) \div EstimatedChunks(n)))

UseConstantStep(a, b, n) ==
  LET range == Distance(a, b)
  IN  \/ EstimatedChunks(n) < 2
      \/ (IF range > n THEN range - n ELSE n - range) <= Larger(n \div 10, 1)

NoRange == [known |-> FALSE, right |-> 0, rows |-> 0]

EmptyCoalescer == [empty |-> TRUE, begin |-> 0, end |-> 0, rows |-> 0]

Init ==
  /\ type \in Types /\ nested \in Levels /\ deeper \in NextIsInteger
  /\ min \in Type /\ max \in {m \in Type : min <= m}
  /\ \E n \in TableRows :
       /\ hint = EstimatedStep(min, max, n)
       /\ constant = UseConstantStep(min, max, n)
  /\ pc = "next"
  /\ begin = min
  /\ right = min /\ left = min /\ search = 0 /\ probes = 0
  /\ under = NoRange /\ useCnt = FALSE
  /\ rows = 0 /\ step = 0
  /\ co = EmptyCoalescer
  /\ dumped = {} /\ twice = FALSE /\ lasts = 0
  /\ nulls \in IF nested THEN BOOLEAN ELSE {FALSE}
  /\ interrupted = FALSE

-----------------------------------------------------------------------------
(* The next step: constant_step() or adaptive_step_v2() *)

ConstantStep ==
  /\ pc = "next" /\ constant /\ ~interrupted
  /\ pc' = "stepped"
  /\ step' = hint
  /\ rows' = RowsPerChunk
  /\ useCnt' = FALSE
  /\ UNCHANGED <<inputs, right, left, search, probes, under, outVars, begin,
                 co, interrupted>>

AdaptiveStep ==
  /\ pc = "next" /\ ~constant /\ ~interrupted
  /\ pc' = "expand"
  /\ search' = hint
  /\ probes' = 1
  /\ under' = NoRange
  /\ useCnt' = FALSE
  /\ UNCHANGED <<inputs, right, left, outVars, begin, rows, step, co,
                 interrupted>>

TooMany(n) == n > RowsPerChunk + Accuracy

\* The end of adaptive_step_v2().
Return(to, n) ==
  /\ pc' = "stepped"
  /\ step' = EnsureNotZero(Wrap(to - begin))
  /\ right' = to
  /\ rows' = n

\* After phase 1 has ended at `to' with n rows: an underfilled range is
\* preferred to one that reaches the end with too many rows, and a range
\* with too many rows is chopped.
Refine(to, n, limit, last) ==
  IF ~limit /\ to >= max /\ TooMany(n) /\ last.known /\ last.right > begin
  THEN /\ useCnt' = TRUE
       /\ Return(last.right, last.rows)
       /\ UNCHANGED left
  ELSE /\ UNCHANGED useCnt
       /\ IF TooMany(n)
          THEN /\ pc' = "chop"
               /\ left' = begin
               /\ right' = Wrap(begin + Half(Wrap(to - begin)))
               /\ rows' = n
               /\ UNCHANGED step
          ELSE Return(to, n) /\ UNCHANGED left

\* Phase 1: the range doubles until it has enough rows or reaches the end.
Expand ==
  /\ pc = "expand"
  /\ \E n \in RowCounts :
       LET to   == Smaller(Sum(begin, search), max)
           last == IF n < RowsPerChunk
                   THEN [known |-> TRUE, right |-> to, rows |-> n]
                   ELSE under
       IN  /\ under' = last
           /\ IF n >= RowsPerChunk \/ to >= max
              THEN Refine(to, n, FALSE, last) /\ UNCHANGED <<search, probes>>
              ELSE /\ probes' = probes + 1
                   /\ IF probes + 1 > Probes
                      THEN pc' = "full" /\ UNCHANGED search
                      ELSE search' = Sum(search, search) /\ UNCHANGED pc
                   /\ UNCHANGED <<right, left, useCnt, rows, step>>
  /\ UNCHANGED <<inputs, outVars, begin, co, interrupted>>

\* Out of probes: everything that remains is checked once.
CheckFullRange ==
  /\ pc = "full"
  /\ \E n \in RowCounts : Refine(max, n, TRUE, under)
  /\ UNCHANGED <<inputs, search, probes, under, outVars, begin, co,
                 interrupted>>

\* MUTANT: the range is halved even when nothing is left to halve.
ShrinkToHalf(gap) == Wrap(right - gap)

\* Too many rows: the right end of the chop moves down by at least one.
Shrink(gap) == Wrap(right - EnsureNotZero(gap))

\* Phase 2: the binary chop.
Chop ==
  /\ pc = "chop"
  /\ \E n \in RowCounts :
       LET delta == IF n > RowsPerChunk THEN n - RowsPerChunk
                                        ELSE RowsPerChunk - n
           gap   == Half(Wrap(right - left))
       IN  \/ /\ delta <= Accuracy
              /\ useCnt' = TRUE
              /\ Return(right, n)
              /\ UNCHANGED left
           \/ /\ delta > Accuracy /\ right = begin
              /\ Return(right, n)
              /\ UNCHANGED <<left, useCnt>>
           \/ /\ delta > Accuracy /\ right # begin /\ left >= right
              /\ useCnt' = TRUE
              /\ Return(right, n)
              /\ UNCHANGED left
           \/ /\ delta > Accuracy /\ right # begin /\ left < right
              /\ n > RowsPerChunk
              /\ right' = Shrink(gap)
              /\ rows' = n
              /\ UNCHANGED <<pc, left, useCnt, step>>
           \/ /\ delta > Accuracy /\ right # begin /\ left < right
              /\ n <= RowsPerChunk
              /\ left' = right
              /\ right' = Wrap(right + gap)
              /\ rows' = n
              /\ UNCHANGED <<pc, useCnt, step>>
  /\ UNCHANGED <<inputs, search, probes, under, outVars, begin, co,
                 interrupted>>

-----------------------------------------------------------------------------
(* Chunk_coalescer *)

Slack == Smaller(Accuracy, RowsPerChunk - 1)
MinAcceptedRows == RowsPerChunk - Slack
MaxAcceptedRows == RowsPerChunk + Slack

ReadyToFlush(c) == c.rows >= MinAcceptedRows

CanCoalesce(c, n) == n < MinAcceptedRows /\ c.rows <= MaxAcceptedRows - n

Accumulated(b, e, n) == [empty |-> FALSE, begin |-> b, end |-> e, rows |-> n]

\* The result of coalesce() of a coalescer c: the chunk that is returned (an empty coalescer
\* stands for none), whether it was flushed, and what is accumulated then.
Kept(c)    == [chunk |-> EmptyCoalescer, flushed |-> FALSE, co |-> c]
Flushed(c) == [chunk |-> c, flushed |-> TRUE, co |-> EmptyCoalescer]

Coalesce(c, b, e, n, last) ==
  CASE c.empty ->
         IF last THEN Flushed(Accumulated(b, e, n))
                 ELSE Kept(Accumulated(b, e, n))
    [] ~c.empty /\ (ReadyToFlush(c) \/ ~CanCoalesce(c, n)) ->
         [chunk |-> c, flushed |-> FALSE, co |-> Accumulated(b, e, n)]
    [] OTHER ->
         LET grown == [c EXCEPT !.end = e, !.rows = @ + n]
         IN  IF grown.rows > 3 * RowsPerChunk \/ last THEN Flushed(grown)
                                                      ELSE Kept(grown)

-----------------------------------------------------------------------------
(* The rest of the loop's body *)

\* The keys of the table that "BETWEEN begin AND end" selects.
Keys(c) == IF c.empty THEN {} ELSE (c.begin .. c.end) \intersect (min .. max)

\* create_and_push_table_data_chunk_task() for two chunks in a row, either of
\* which may be missing.
Create(keys1, keys2) ==
  /\ dumped' = dumped \union keys1 \union keys2
  /\ twice' = (twice \/ keys1 \intersect dumped # {}
                     \/ keys2 \intersect (dumped \union keys1) # {})

\* current_chunk_end
ChunkEnd == LET offset == Wrap(step - 1)
            IN  IF begin > Wrap(max - offset) THEN max
                                              ELSE Wrap(begin + offset)

LastOnThisLevel == ChunkEnd >= max

LastInDump == LastOnThisLevel /\ ~nested

GoesDeeper == ~useCnt /\ step = 1 /\ deeper /\ TooMany(rows)

Advance ==
  /\ begin' = Wrap(ChunkEnd + 1)
  /\ pc' = IF LastOnThisLevel THEN "done" ELSE "next"

\* The local variables of the iteration go out of scope.
Forget ==
  /\ right' = min /\ left' = min /\ search' = 0 /\ probes' = 0
  /\ under' = NoRange /\ useCnt' = FALSE
  /\ rows' = 0 /\ step' = 0

\* What coalesce() returned did not empty the coalescer at the end of the level,
\* so it is flushed once more.
FlushAgain(r) == LastOnThisLevel /\ ~r.flushed

\* How many of the chunks created for a result of coalesce() are marked as the
\* last one of the dump: the chunk that it returned if that was flushed, and the
\* one of the additional flush, which is then created even if it is empty.
Marked(r) ==
  IF LastInDump
  THEN (IF ~r.chunk.empty /\ r.flushed THEN 1 ELSE 0) + (IF FlushAgain(r) THEN 1 ELSE 0)
  ELSE 0

\* Whether any chunk is created for it.
Creates(r) == ~r.chunk.empty \/ (FlushAgain(r) /\ (LastInDump \/ ~r.co.empty))

\* The empty range that marks the end of the dump ("1=0") goes through a coalescer
\* that was flushed before.
EndMarker == Coalesce(EmptyCoalescer, begin, ChunkEnd, 0, LastOnThisLevel)

\* MUTANT: what was accumulated stays in the coalescer.
DeeperNoFlush ==
  /\ pc = "stepped" /\ GoesDeeper
  /\ Advance
  /\ Create({}, {begin})
  /\ lasts' = IF LastInDump THEN lasts + Marked(EndMarker) ELSE lasts
  /\ nulls' = TRUE
  /\ Forget
  /\ UNCHANGED <<inputs, co, interrupted>>

\* A single value with too many rows: what was accumulated becomes a chunk, the
\* value is chunked by the next column (into no chunk if it has no rows after all),
\* and if it is the last one an empty chunk marks the end of the dump.  An interrupt
\* cuts the recursion short, and then some rows of the value are missing.
Deeper ==
  /\ pc = "stepped" /\ GoesDeeper
  /\ Advance
  /\ \E cut \in BOOLEAN, some \in BOOLEAN :
       /\ interrupted' = cut
       /\ Create(Keys(co), IF cut THEN {} ELSE {begin})
       /\ nulls' = (nulls \/ ~co.empty \/ some \/ (LastInDump /\ Creates(EndMarker)))
  /\ lasts' = IF LastInDump THEN lasts + Marked(EndMarker) ELSE lasts
  /\ co' = EmptyCoalescer
  /\ Forget
  /\ UNCHANGED inputs

\* The range goes through the coalescer, whose rest is flushed at the end of the
\* level.
Accumulate ==
  /\ pc = "stepped" /\ ~GoesDeeper
  /\ Advance
  /\ LET r == Coalesce(co, begin, ChunkEnd, rows, LastOnThisLevel)
     IN  /\ Create(Keys(r.chunk), IF FlushAgain(r) THEN Keys(r.co) ELSE {})
         /\ co' = IF FlushAgain(r) THEN EmptyCoalescer ELSE r.co
         /\ lasts' = lasts + Marked(r)
         /\ nulls' = (nulls \/ Creates(r))
  /\ Forget
  /\ UNCHANGED <<inputs, interrupted>>

\* An interrupt is noticed at the top of the loop; the coalescer is emptied.
Interrupt ==
  /\ pc = "next" /\ pc' = "done"
  /\ interrupted' = TRUE
  /\ co' = EmptyCoalescer
  /\ UNCHANGED <<inputs, searchVars, outVars, begin, rows, step>>

Next ==
  \/ ConstantStep
  \/ AdaptiveStep
  \/ Expand
  \/ CheckFullRange
  \/ Chop
  \/ Deeper
  \/ Accumulate
  \/ Interrupt

Spec == Init /\ [][Next]_vars

\* The worker runs; EXPLAIN may answer anything, every time.
FairSpec == Spec /\ WF_vars(Next)

-----------------------------------------------------------------------------
(* Properties *)

Points == {"next", "expand", "full", "chop", "stepped", "done"}

\* The variables stay within the types of the code: in particular the range
\* that is searched stays within the type of the column.
TypeOK ==
  /\ min \in Type /\ max \in Type /\ min <= max
  /\ hint \in 1..TMax
  /\ constant \in BOOLEAN
  /\ pc \in Points
  /\ begin \in Type
  /\ right \in Type /\ left \in Type
  /\ search \in 0..TMax
  /\ probes \in Nat
  /\ under \in [known : BOOLEAN, right : Type, rows : Nat]
  /\ useCnt \in BOOLEAN
  /\ rows \in Nat
  /\ step \in Type
  /\ co \in [empty : BOOLEAN, begin : Type, end : Type, rows : Nat]
  /\ dumped \in SUBSET Type
  /\ twice \in BOOLEAN
  /\ lasts \in Nat
  /\ nulls \in BOOLEAN
  /\ interrupted \in BOOLEAN

\* The distance of two keys can be computed in the type of the column.  Only a
\* signed type has tables for which it cannot: the binary chop then starts from
\* a difference that wrapped around and may return a step back, so that the
\* walk meets keys for the second time.
DistanceFits == max - min <= TMax

\* No row of the table ends up in two chunks, and when chunking is over every
\* row is in one, whatever the estimates of the server are.
EveryKeyOnce ==
  /\ ~twice
  /\ pc = "done" /\ ~interrupted => dumped = min..max

\* The loader takes the table to be complete when it has the chunk marked as
\* the last one: a whole dump marks one chunk, the one created last, and a
\* nested level none.
OneLastChunk ==
  /\ lasts > 0 => pc = "done"
  /\ pc = "done" /\ ~interrupted => lasts = IF nested THEN 0 ELSE 1

\* Rows with NULL in the index are selected by the chunk with number 0, and by no
\* other: a whole dump has created it, even if every value was chunked deeper.
NullRowsDumped ==
  pc = "done" /\ ~interrupted /\ ~nested => nulls

\* The chunks are the table: the three properties above, the first one for every
\* table whose keys are not further apart than their type can tell.
ChunksComplete == (DistanceFits => EveryKeyOnce) /\ OneLastChunk /\ NullRowsDumped

\* The assertion of between(): no probe, no chunk and no accumulated range is
\* inverted, unless the distance of two keys overflows.
RangesOrdered ==
  DistanceFits =>
    /\ pc = "chop" => begin <= right
    /\ pc = "stepped" => begin <= ChunkEnd
    /\ ~co.empty => co.begin <= co.end

\* The assertions of Chunk_coalescer: a range continues the accumulated ones,
\* and the coalescer is empty when it is destroyed.
CoalescerSound ==
  /\ pc # "done" /\ ~co.empty => co.end + 1 = begin
  /\ pc = "done" => co.empty

\* The assertions of the code hold, and its variables stay in their types.
AssertionsHold == TypeOK /\ CoalescerSound /\ RangesOrdered

\* Chunking ends, whatever EXPLAIN answers, unless the distance overflows (then
\* the binary chop may go round for ever).
Termination == DistanceFits => <>(pc = "done")
=============================================================================
