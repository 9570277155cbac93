------------------------ MODULE IntegerChunking_proofs ------------------------
(***************************************************************************)
(* Proofs about IntegerChunking, for every type of the column, every table *)
(* and all answers of EXPLAIN:                                             *)
(*                                                                         *)
(*   - AssertionsCorrect: the assertions of the code hold;                 *)
(*   - ChunksCorrect: every key is in exactly one chunk, one chunk is last,*)
(*     and rows with NULL are in the dump.                                 *)
(*                                                                         *)
(* Shape is what holds even if the distance of two keys overflows.  Walk   *)
(* is the position of the walk in the table and needs DistanceFits: all    *)
(* keys below the accumulated range are dumped, the accumulated range ends *)
(* just below begin, and no phase of the search leaves begin..max.         *)
(***************************************************************************)
EXTENDS IntegerChunking, TLAPS

\* The inputs of chunk_integer_column(), which no step changes.
InputsOK ==
  /\ type \in Types
  /\ nested \in BOOLEAN /\ deeper \in BOOLEAN
  /\ hint <= max - min + 1

\* No chunk is marked as the last one before the walk ends, a whole dump that
\* is not interrupted marks one then; a chunk that is marked was created.
Shape == InputsOK /\ TypeOK /\ CoalescerSound /\ OneLastChunk /\ (lasts > 0 => nulls)

\* Where the walk is: everything below this value has been dumped.
Lower == IF co.empty THEN begin ELSE co.begin

\* The walk stays among the keys of the table, and the accumulated range is
\* one that it has passed.
InTable ==
  pc # "done" =>
    /\ begin \in min..max
    /\ ~co.empty => min <= co.begin /\ co.begin <= co.end

\* What is dumped is what the walk has passed and the coalescer has let go.
Covered ==
  pc # "done" =>
    /\ dumped \subseteq min..(Lower - 1)
    /\ ~interrupted => min..(Lower - 1) \subseteq dumped

\* The search stays between begin and max.  Twice the way from left to right
\* never leads out of the range that was chopped: expanding is safe.
InRange ==
  /\ pc \in {"expand", "full"} /\ under.known =>
       begin <= under.right /\ under.right <= max
  /\ pc = "chop" => begin <= left /\ left <= right /\ right + right - left <= max
  /\ pc = "stepped" => 1 <= step /\ step <= max - min + 1

\* After an interrupt no further step is searched for.
Heeded == interrupted => pc \in {"next", "done"}

Walk == DistanceFits => InTable /\ Covered /\ InRange /\ Heeded /\ EveryKeyOnce

-----------------------------------------------------------------------------
(* The arithmetic of the type *)

\* The type of a column has a zero and positive values (Integers, unsigned or
\* signed).
LEMMA TypeBounds ==
  ASSUME InputsOK
  PROVE  TMin \in Int /\ TMax \in Int /\ TMin <= 0 /\ 0 < TMax
  BY TypeAssumption DEF InputsOK, TMin, TMax

\* A result that is off by less than the size of the type wraps into it.
LEMMA WrapIntoType ==
  ASSUME InputsOK, NEW x \in Int, TMin - Size <= x, x <= TMax + Size
  PROVE  Wrap(x) \in Type
  BY TypeBounds DEF Wrap, Type, Size

\* What fits into the type stays as it is.
LEMMA WrapFits ==
  ASSUME InputsOK, NEW x \in Int, TMin <= x, x <= TMax
  PROVE  Wrap(x) = x
  BY TypeBounds DEF Wrap

\* The difference of two values wraps into the type.
LEMMA DifferenceInType ==
  ASSUME InputsOK, NEW a \in Type, NEW b \in Type
  PROVE  Wrap(a - b) \in Type
  <1>1. /\ a \in Int /\ b \in Int
        /\ TMin - Size <= a - b /\ a - b <= TMax + Size
    BY TypeBounds DEF Type, Size
  <1>. QED  BY <1>1, WrapIntoType

\* The sum of two values wraps into the type.
LEMMA SumWrapsIntoType ==
  ASSUME InputsOK, NEW a \in Type, NEW b \in Type
  PROVE  Wrap(a + b) \in Type
  <1>1. /\ a \in Int /\ b \in Int
        /\ TMin - Size <= a + b /\ a + b <= TMax + Size
    BY TypeBounds DEF Type, Size
  <1>. QED  BY <1>1, WrapIntoType

\* Half of a value is between zero and the value.
LEMMA HalfIsNearer ==
  ASSUME NEW x \in Int
  PROVE  /\ Half(x) \in Int
         /\ x >= 0 => 0 <= Half(x) /\ 2 * Half(x) <= x
         /\ x < 0 => x <= Half(x) /\ Half(x) <= 0
  BY DEF Half

\* Half of a value of the type is a value of the type.
LEMMA HalfInType ==
  ASSUME InputsOK, NEW x \in Type
  PROVE  Half(x) \in Type /\ EnsureNotZero(Half(x)) \in Type
  <1>1. x \in Int /\ TMin <= x /\ x <= TMax
    BY TypeBounds DEF Type
  <1>2. Half(x) \in Type
    BY <1>1, HalfIsNearer, TypeBounds DEF Type
  <1>. QED  BY <1>2, TypeBounds DEF EnsureNotZero, Type

\* sum() neither overflows nor goes down.
LEMMA SumGrows ==
  ASSUME InputsOK, NEW v \in Type, NEW a \in 0..TMax
  PROVE  Sum(v, a) \in Type /\ v <= Sum(v, a)
  <1>1. /\ v \in Int /\ TMin <= v /\ v <= TMax
        /\ a \in Int /\ 0 <= a /\ a <= TMax
        /\ TMin \in Int /\ TMax \in Int /\ TMin <= 0 /\ 0 < TMax
    BY TypeBounds DEF Type
  <1>2. TMax - a \in Int /\ TMin <= TMax - a /\ TMax - a <= TMax
    BY <1>1
  <1>3. Wrap(TMax - a) = TMax - a
    BY <1>2, WrapFits
  <1>4. CASE TMax - a <= v
    BY <1>1, <1>3, <1>4 DEF Sum, Type
  <1>5. CASE ~(TMax - a <= v)
    <2>1. v + a \in Int /\ TMin <= v + a /\ v + a <= TMax
      BY <1>1, <1>5
    <2>2. Wrap(v + a) = v + a
      BY <2>1, WrapFits
    <2>. QED  BY <1>1, <1>3, <1>5, <2>1, <2>2 DEF Sum, Type
  <1>. QED  BY <1>4, <1>5

\* A quotient of natural numbers is not larger than the dividend.
LEMMA QuotientSmaller ==
  ASSUME NEW a \in Nat, NEW b \in Nat \ {0}
  PROVE  a \div b \in Nat /\ a \div b <= a
  <1>1. a \div b \in Nat
    OBVIOUS
  <1>2. a = b * (a \div b) + (a % b) /\ a % b \in 0..(b - 1)
    OBVIOUS
  <1>3. ASSUME NEW q \in Nat, b * q <= a
        PROVE  q <= a
    <2>1. (b - 1) * q \in Nat
      OBVIOUS
    <2>2. (b - 1) * q = b * q - q
      OBVIOUS
    <2>. QED  BY <1>3, <2>1, <2>2
  <1>4. b * (a \div b) <= a
    BY <1>1, <1>2
  <1>. QED  BY <1>1, <1>3, <1>4

-----------------------------------------------------------------------------
(* What holds also if the distance of two keys overflows *)

\* The step that chunk_integer_column() computes first is at least one and at
\* most the number of values from min to max.
LEMMA EstimateFits ==
  ASSUME NEW n \in Nat, type \in Types, min \in Type, max \in Type, min <= max
  PROVE  EstimatedStep(min, max, n) \in 1..TMax
         /\ EstimatedStep(min, max, n) <= max - min + 1
  <1>1. TMin \in Int /\ TMax \in Int /\ TMin <= 0 /\ 0 < TMax
    BY TypeAssumption DEF TMin, TMax
  <1>2. min \in Int /\ max \in Int
    BY <1>1 DEF Type
  <1>3. /\ Distance(min, max) \in Nat
        /\ Distance(min, max) <= max - min + 1
    BY <1>1, <1>2 DEF Distance, Size
  <1>4. EstimatedChunks(n) \in Nat \ {0}
    <2>1. n \div RowsPerChunk \in Nat
      BY RowsAssumption, QuotientSmaller
    <2>. QED  BY <2>1 DEF EstimatedChunks, Larger
  <1>5. /\ Distance(min, max) \div EstimatedChunks(n) \in Nat
        /\ Distance(min, max) \div EstimatedChunks(n) <= Distance(min, max)
    BY <1>3, <1>4, QuotientSmaller
  <1>. QED  BY <1>1, <1>2, <1>3, <1>5
            DEF EstimatedStep, Cast, EnsureNotZero, Smaller

\* Chunking starts with an empty coalescer and no chunks.
LEMMA InitShape == Init => Shape
  <1> SUFFICES ASSUME Init PROVE Shape
    OBVIOUS
  <1>1. TMin \in Int /\ TMax \in Int /\ TMin <= 0 /\ 0 < TMax
    BY TypeAssumption DEF Init, TMin, TMax
  <1>2. hint \in 1..TMax /\ hint <= max - min + 1
    BY EstimateFits, RowsAssumption, <1>1 DEF Init
  <1>3. constant \in BOOLEAN
    BY DEF Init, UseConstantStep
  <1>4. InputsOK
    BY <1>2, ShapeAssumption DEF Init, InputsOK
  <1>5. min \in Type /\ max \in Type /\ min <= max /\ 0 \in Type /\ 0 \in 0..TMax
    BY <1>1 DEF Init, Type
  <1>6. under \in [known : BOOLEAN, right : Type, rows : Nat]
    BY <1>5 DEF Init, NoRange
  <1>7. co \in [empty : BOOLEAN, begin : Type, end : Type, rows : Nat]
    BY <1>5 DEF Init, EmptyCoalescer
  <1>8. TypeOK
    <2>1. nulls \in BOOLEAN
      BY DEF Init
    <2>. QED  BY <1>2, <1>3, <1>5, <1>6, <1>7, <2>1 DEF Init, TypeOK, Points
  <1>. QED  BY <1>4, <1>8 DEF Init, Shape, CoalescerSound, OneLastChunk,
                              EmptyCoalescer

\* No step changes the inputs, so the type of the column stays the same.
LEMMA InputsStay ==
  ASSUME InputsOK, UNCHANGED inputs
  PROVE  /\ InputsOK' /\ TMin' = TMin /\ TMax' = TMax /\ Type' = Type
         /\ min' = min /\ max' = max /\ hint' = hint /\ constant' = constant
         /\ nested' = nested /\ (DistanceFits' <=> DistanceFits)
  BY DEF InputsOK, inputs, TMin, TMax, Type, DistanceFits

\* Every range that a step to a value of the type makes has a step of the type.
LEMMA StepInType ==
  ASSUME InputsOK, NEW a \in Type, NEW b \in Type
  PROVE  EnsureNotZero(Wrap(a - b)) \in Type
  <1>1. Wrap(a - b) \in Type
    BY DifferenceInType
  <1>2. 1 \in Type
    BY TypeBounds DEF Type
  <1>. QED  BY <1>1, <1>2 DEF EnsureNotZero

\* After phase 1 of adaptive_step_v2() the variables still have their types.
LEMMA RefineShape ==
  ASSUME Shape, NEW to \in Type, NEW n \in Nat, NEW limit \in BOOLEAN,
         NEW last \in [known : BOOLEAN, right : Type, rows : Nat],
         Refine(to, n, limit, last)
  PROVE  /\ pc' \in {"stepped", "chop"}
         /\ right' \in Type /\ left' \in Type /\ useCnt' \in BOOLEAN
         /\ rows' \in Nat /\ step' \in Type
  <1>1. InputsOK /\ TypeOK
    BY DEF Shape
  <1>2. begin \in Type /\ right \in Type /\ left \in Type /\ step \in Type
        /\ useCnt \in BOOLEAN
    BY <1>1 DEF TypeOK
  <1>3. last.right \in Type /\ last.rows \in Nat
    OBVIOUS
  <1>4. /\ EnsureNotZero(Wrap(to - begin)) \in Type
        /\ EnsureNotZero(Wrap(last.right - begin)) \in Type
    BY <1>1, <1>2, <1>3, StepInType
  <1>5. Wrap(begin + Half(Wrap(to - begin))) \in Type
    BY <1>1, <1>2, DifferenceInType, HalfInType, SumWrapsIntoType
  <1>6. CASE ~limit /\ to >= max /\ TooMany(n) /\ last.known /\ last.right > begin
    BY <1>2, <1>3, <1>4, <1>6 DEF Refine, Return
  <1>7. CASE ~(~limit /\ to >= max /\ TooMany(n) /\ last.known /\ last.right > begin)
    BY <1>2, <1>4, <1>5, <1>7 DEF Refine, Return
  <1>. QED  BY <1>6, <1>7

\* The end of the chunk is a value of the type.
LEMMA EndInType ==
  ASSUME Shape
  PROVE  ChunkEnd \in Type
  <1>1. InputsOK /\ step \in Type /\ begin \in Type /\ max \in Type /\ 1 \in Type
    BY TypeBounds DEF Shape, TypeOK, Type
  <1>2. Wrap(step - 1) \in Type
    BY <1>1, DifferenceInType
  <1>. QED  BY <1>1, <1>2, SumWrapsIntoType DEF ChunkEnd

\* If the walk goes on, it goes on behind the chunk.
LEMMA AdvanceBehind ==
  ASSUME Shape, Advance
  PROVE  /\ begin' \in Type /\ pc' \in {"done", "next"}
         /\ pc' = "done" <=> LastOnThisLevel
         /\ pc' = "next" => begin' = ChunkEnd + 1 /\ ChunkEnd < max
  <1>1. InputsOK /\ ChunkEnd \in Type /\ max \in Type /\ 1 \in Type
    BY EndInType, TypeBounds DEF Shape, TypeOK, Type
  <1>2. begin' \in Type
    BY <1>1, SumWrapsIntoType DEF Advance
  <1>3. ~LastOnThisLevel => Wrap(ChunkEnd + 1) = ChunkEnd + 1
    BY <1>1, TypeBounds, WrapFits DEF LastOnThisLevel, Type
  <1>. QED  BY <1>1, <1>2, <1>3, TypeBounds DEF Advance, LastOnThisLevel, Type

Grown(c, e, n) == [c EXCEPT !.end = e, !.rows = @ + n]

\* The ways in which coalesce() returns: an empty coalescer starts with the
\* new range; one that is full enough returns what it has and starts again;
\* otherwise the range is added.  The last range leaves the coalescer at once,
\* unless it was just started.
LEMMA CoalesceCases ==
  ASSUME NEW c, NEW b, NEW e, NEW n, NEW last \in BOOLEAN
  PROVE
    \/ c.empty /\ last /\ Coalesce(c, b, e, n, last) = Flushed(Accumulated(b, e, n))
    \/ c.empty /\ ~last /\ Coalesce(c, b, e, n, last) = Kept(Accumulated(b, e, n))
    \/ ~c.empty /\ Coalesce(c, b, e, n, last)
                      = [chunk |-> c, flushed |-> FALSE, co |-> Accumulated(b, e, n)]
    \/ ~c.empty /\ Coalesce(c, b, e, n, last) = Flushed(Grown(c, e, n))
    \/ ~c.empty /\ ~last /\ Coalesce(c, b, e, n, last) = Kept(Grown(c, e, n))
  <1>1. CASE c.empty
    BY <1>1 DEF Coalesce
  <1>2. CASE ~c.empty /\ (ReadyToFlush(c) \/ ~CanCoalesce(c, n))
    BY <1>2 DEF Coalesce
  <1>3. CASE ~c.empty /\ ~(ReadyToFlush(c) \/ ~CanCoalesce(c, n))
    BY <1>3 DEF Coalesce, Grown
  <1>. QED  BY <1>1, <1>2, <1>3

\* The same, field by field.
Outcome(c, b, e, n, last, r) ==
    \/ /\ c.empty /\ last /\ r.chunk = Accumulated(b, e, n) /\ r.co = EmptyCoalescer
       /\ r.flushed = TRUE
    \/ /\ c.empty /\ ~last /\ r.chunk = EmptyCoalescer /\ r.co = Accumulated(b, e, n)
       /\ r.flushed = FALSE
    \/ ~c.empty /\ r.chunk = c /\ r.co = Accumulated(b, e, n) /\ r.flushed = FALSE
    \/ ~c.empty /\ r.chunk = Grown(c, e, n) /\ r.co = EmptyCoalescer /\ r.flushed = TRUE
    \/ /\ ~c.empty /\ ~last /\ r.chunk = EmptyCoalescer /\ r.co = Grown(c, e, n)
       /\ r.flushed = FALSE

\* coalesce() returns one of these.
LEMMA CoalesceFields ==
  ASSUME NEW c, NEW b, NEW e, NEW n, NEW last \in BOOLEAN
  PROVE  Outcome(c, b, e, n, last, Coalesce(c, b, e, n, last))
  <1>1. /\ Flushed(Accumulated(b, e, n)).chunk = Accumulated(b, e, n)
        /\ Flushed(Accumulated(b, e, n)).co = EmptyCoalescer
        /\ Flushed(Accumulated(b, e, n)).flushed = TRUE
        /\ Flushed(Grown(c, e, n)).chunk = Grown(c, e, n)
        /\ Flushed(Grown(c, e, n)).co = EmptyCoalescer
        /\ Flushed(Grown(c, e, n)).flushed = TRUE
    BY DEF Flushed
  <1>2. /\ Kept(Accumulated(b, e, n)).chunk = EmptyCoalescer
        /\ Kept(Accumulated(b, e, n)).co = Accumulated(b, e, n)
        /\ Kept(Accumulated(b, e, n)).flushed = FALSE
        /\ Kept(Grown(c, e, n)).chunk = EmptyCoalescer
        /\ Kept(Grown(c, e, n)).co = Grown(c, e, n)
        /\ Kept(Grown(c, e, n)).flushed = FALSE
    BY DEF Kept
  <1>. QED  BY <1>1, <1>2, CoalesceCases DEF Outcome

Coalescer == [empty : BOOLEAN, begin : Type, end : Type, rows : Nat]

\* What is flushed is not empty and leaves an empty coalescer: so the end of a
\* dump marks one chunk, the flushed one or the one of the additional flush, and
\* the end of a level empties the coalescer.
LEMMA OneIsMarked ==
  ASSUME NEW c \in Coalescer, NEW b, NEW e, NEW n,
         NEW r, r = Coalesce(c, b, e, n, LastOnThisLevel)
  PROVE  /\ Marked(r) = IF LastInDump THEN 1 ELSE 0
         /\ LastInDump => Creates(r)
         /\ Creates(r) \in BOOLEAN
         /\ (IF FlushAgain(r) THEN Keys(r.co) ELSE {})
              = (IF LastOnThisLevel THEN Keys(r.co) ELSE {})
         /\ (IF FlushAgain(r) THEN EmptyCoalescer ELSE r.co)
              = (IF LastOnThisLevel THEN EmptyCoalescer ELSE r.co)
  <1>1. LastOnThisLevel \in BOOLEAN /\ LastInDump \in BOOLEAN
        /\ (LastInDump => LastOnThisLevel)
    BY DEF LastOnThisLevel, LastInDump
  <1>2. r.flushed \in BOOLEAN /\ (r.flushed => r.chunk.empty = FALSE /\ r.co = EmptyCoalescer)
    <2>1. Accumulated(b, e, n).empty = FALSE
      BY DEF Accumulated
    <2>2. ~c.empty => Grown(c, e, n).empty = FALSE
      BY DEF Grown, Coalescer
    <2>3. Outcome(c, b, e, n, LastOnThisLevel, r)
      BY <1>1, CoalesceFields
    <2>. QED  BY <2>1, <2>2, <2>3 DEF Outcome
  <1>3. Keys(EmptyCoalescer) = {}
    BY DEF Keys, EmptyCoalescer
  <1>4. Marked(r) = IF LastInDump THEN 1 ELSE 0
    <2>1. CASE r.flushed
      BY <1>1, <1>2, <2>1 DEF Marked, FlushAgain
    <2>2. CASE ~r.flushed
      BY <1>1, <1>2, <2>2 DEF Marked, FlushAgain
    <2>. QED  BY <2>1, <2>2
  <1>5. LastInDump => Creates(r)
    BY <1>1, <1>2 DEF Creates, FlushAgain
  <1>6. Creates(r) \in BOOLEAN
    BY DEF Creates
  <1>. QED  BY <1>2, <1>3, <1>4, <1>5, <1>6 DEF FlushAgain

\* What coalesce() returns and what it keeps are ranges of the type; what it
\* keeps ends where the new range does.
LEMMA CoalesceShape ==
  ASSUME Shape, NEW e \in Type, NEW last \in BOOLEAN,
         NEW r, r = Coalesce(co, begin, e, rows, last)
  PROVE  /\ r.chunk \in [empty : BOOLEAN, begin : Type, end : Type, rows : Nat]
         /\ r.co \in [empty : BOOLEAN, begin : Type, end : Type, rows : Nat]
         /\ ~r.co.empty => r.co.end = e
  <1> DEFINE R == [empty : BOOLEAN, begin : Type, end : Type, rows : Nat]
  <1>1. co \in R /\ begin \in Type /\ rows \in Nat /\ 0 \in Type
    BY TypeBounds DEF Shape, TypeOK, Type
  <1>2. EmptyCoalescer \in R /\ EmptyCoalescer.empty
    BY <1>1 DEF EmptyCoalescer
  <1>3. /\ Accumulated(begin, e, rows) \in R
        /\ Accumulated(begin, e, rows).end = e
    BY <1>1 DEF Accumulated
  <1>4. Grown(co, e, rows) \in R /\ Grown(co, e, rows).end = e
    <2>1. co.rows + rows \in Nat
      BY <1>1
    <2>. QED  BY <1>1, <2>1 DEF Grown
  <1> HIDE DEF R
  <1>5. r.chunk \in R /\ r.co \in R /\ (~r.co.empty => r.co.end = e)
    <2>1. Outcome(co, begin, e, rows, last, r)
      BY CoalesceFields
    <2>. QED  BY <1>1, <1>2, <1>3, <1>4, <2>1 DEF Outcome
  <1>. QED  BY <1>5 DEF R

\* Every step keeps the types, the assertions of the coalescer and the mark of
\* the last chunk.
LEMMA NextShape == Shape /\ [Next]_vars => Shape'
  <1> SUFFICES ASSUME Shape, [Next]_vars PROVE Shape'
    OBVIOUS
  <1>1. InputsOK /\ TypeOK /\ CoalescerSound /\ OneLastChunk
    BY DEF Shape
  <1>2. UNCHANGED inputs
    BY DEF Next, ConstantStep, AdaptiveStep, Expand, CheckFullRange, Chop,
           Deeper, Accumulate, Interrupt, vars
  <1>3. /\ InputsOK' /\ TMin' = TMin /\ TMax' = TMax /\ Type' = Type
        /\ min' = min /\ max' = max /\ hint' = hint /\ constant' = constant
        /\ nested' = nested
    BY <1>1, <1>2, InputsStay
  <1>4. TMin \in Int /\ TMax \in Int /\ TMin <= 0 /\ 0 < TMax
    BY <1>1, TypeBounds
  <1>5. 0 \in Type /\ 1 \in Type /\ 0 \in 0..TMax /\ 1..TMax \subseteq Type
        /\ 1..TMax \subseteq 0..TMax
    BY <1>4 DEF Type
  <1>6. NoRange \in [known : BOOLEAN, right : Type, rows : Nat]
    BY <1>5 DEF NoRange
  <1>7. EmptyCoalescer \in [empty : BOOLEAN, begin : Type, end : Type, rows : Nat]
        /\ EmptyCoalescer.empty
    BY <1>5 DEF EmptyCoalescer
  <1>8. CASE ConstantStep
    BY <1>1, <1>3, <1>5, <1>8, RowsAssumption DEF ConstantStep, Shape, TypeOK,
       CoalescerSound, OneLastChunk, Points, outVars
  <1>9. CASE AdaptiveStep
    BY <1>1, <1>3, <1>5, <1>6, <1>9 DEF AdaptiveStep, Shape, TypeOK,
       CoalescerSound, OneLastChunk, Points, outVars
  <1>10. CASE Expand
    <2>1. PICK n \in RowCounts :
            LET to   == Smaller(Sum(begin, search), max)
                last == IF n < RowsPerChunk
                        THEN [known |-> TRUE, right |-> to, rows |-> n]
                        ELSE under
            IN  /\ under' = last
                /\ IF n >= RowsPerChunk \/ to >= max
                   THEN Refine(to, n, FALSE, last) /\ UNCHANGED <<search, probes>>
                   ELSE /\ probes' = probes + 1
                        /\ IF probes + 1 > Probes
                           THEN pc' = "full" /\ UNCHANGED search
                           ELSE search' = Sum(search, search) /\ UNCHANGED pc
                        /\ UNCHANGED <<right, left, useCnt, rows, step>>
      BY <1>10 DEF Expand
    <2> DEFINE to == Smaller(Sum(begin, search), max)
               last == IF n < RowsPerChunk
                       THEN [known |-> TRUE, right |-> to, rows |-> n]
                       ELSE under
    <2>2. n \in Nat
      BY RowsAssumption
    <2>3. begin \in Type /\ search \in 0..TMax /\ max \in Type /\ search \in Type
      BY <1>1, <1>4 DEF TypeOK, Type
    <2>4. to \in Type
      BY <1>1, <2>3, SumGrows DEF Smaller
    <2>5. last \in [known : BOOLEAN, right : Type, rows : Nat]
      BY <1>1, <2>2, <2>4 DEF TypeOK
    <2>6. Sum(search, search) \in 0..TMax
      <3>1. Sum(search, search) \in Type /\ search <= Sum(search, search)
        BY <1>1, <2>3, SumGrows
      <3>. QED  BY <1>4, <2>3, <3>1 DEF Type
    <2>7. /\ under' = last
          /\ IF n >= RowsPerChunk \/ to >= max
             THEN Refine(to, n, FALSE, last) /\ UNCHANGED <<search, probes>>
             ELSE /\ probes' = probes + 1
                  /\ IF probes + 1 > Probes
                     THEN pc' = "full" /\ UNCHANGED search
                     ELSE search' = Sum(search, search) /\ UNCHANGED pc
                  /\ UNCHANGED <<right, left, useCnt, rows, step>>
      BY <2>1
    <2> HIDE DEF to, last
    <2>8. UNCHANGED <<outVars, begin, co, interrupted>> /\ pc = "expand"
      BY <1>10 DEF Expand
    <2>9. /\ pc' \in {"stepped", "chop", "full", "expand"}
          /\ right' \in Type /\ left' \in Type /\ useCnt' \in BOOLEAN
          /\ rows' \in Nat /\ step' \in Type
          /\ search' \in 0..TMax /\ probes' \in Nat
          /\ under' \in [known : BOOLEAN, right : Type, rows : Nat]
      <3>1. CASE n >= RowsPerChunk \/ to >= max
        <4>1. Refine(to, n, FALSE, last) /\ UNCHANGED <<search, probes>>
          BY <2>7, <3>1
        <4>2. /\ pc' \in {"stepped", "chop"}
              /\ right' \in Type /\ left' \in Type /\ useCnt' \in BOOLEAN
              /\ rows' \in Nat /\ step' \in Type
          BY <4>1, <2>2, <2>4, <2>5, RefineShape
        <4>. QED  BY <1>1, <2>5, <2>7, <4>1, <4>2 DEF TypeOK
      <3>2. CASE ~(n >= RowsPerChunk \/ to >= max)
        BY <1>1, <2>5, <2>6, <2>7, <2>8, <3>2 DEF TypeOK
      <3>. QED  BY <3>1, <3>2
    <2>. QED  BY <1>1, <1>3, <2>8, <2>9
              DEF Shape, TypeOK, CoalescerSound, OneLastChunk, Points, outVars
  <1>11. CASE CheckFullRange
    <2>1. PICK n \in RowCounts : Refine(max, n, TRUE, under)
      BY <1>11 DEF CheckFullRange
    <2>2. n \in Nat /\ max \in Type
          /\ under \in [known : BOOLEAN, right : Type, rows : Nat]
      BY <1>1, RowsAssumption DEF TypeOK
    <2>3. /\ pc' \in {"stepped", "chop"}
          /\ right' \in Type /\ left' \in Type /\ useCnt' \in BOOLEAN
          /\ rows' \in Nat /\ step' \in Type
      BY <2>1, <2>2, RefineShape
    <2>. QED  BY <1>1, <1>3, <1>11, <2>3
              DEF CheckFullRange, Shape, TypeOK, CoalescerSound, OneLastChunk,
                  Points, outVars
  <1>12. CASE Chop
    <2>1. /\ right \in Type /\ left \in Type /\ begin \in Type /\ step \in Type
          /\ useCnt \in BOOLEAN
      BY <1>1 DEF TypeOK
    <2>2. EnsureNotZero(Wrap(right - begin)) \in Type
      BY <1>1, <2>1, StepInType
    <2>3. /\ Half(Wrap(right - left)) \in Type
          /\ EnsureNotZero(Half(Wrap(right - left))) \in Type
      BY <1>1, <2>1, DifferenceInType, HalfInType
    <2>4. /\ Shrink(Half(Wrap(right - left))) \in Type
          /\ Wrap(right + Half(Wrap(right - left))) \in Type
      BY <1>1, <2>1, <2>3, DifferenceInType, SumWrapsIntoType DEF Shrink
    <2>5. /\ pc' \in {"stepped", "chop"}
          /\ right' \in Type /\ left' \in Type /\ useCnt' \in BOOLEAN
          /\ rows' \in Nat /\ step' \in Type
      BY <1>12, <2>1, <2>2, <2>4, RowsAssumption DEF Chop, Return
    <2>. QED  BY <1>1, <1>3, <1>12, <2>5
              DEF Chop, Shape, TypeOK, CoalescerSound, OneLastChunk, Points, outVars
  <1>13. ASSUME pc = "stepped", Advance, Forget,
                lasts' = lasts + (IF LastInDump THEN 1 ELSE 0),
                nulls' \in BOOLEAN, nulls => nulls', LastInDump => nulls',
                co' \in [empty : BOOLEAN, begin : Type, end : Type, rows : Nat],
                ~co'.empty => ~LastOnThisLevel /\ co'.end = ChunkEnd,
                dumped' \in SUBSET Type, twice' \in BOOLEAN,
                interrupted' \in BOOLEAN
         PROVE  Shape'
    <2>1. /\ begin' \in Type /\ pc' \in {"done", "next"}
          /\ pc' = "done" <=> LastOnThisLevel
          /\ pc' = "next" => begin' = ChunkEnd + 1 /\ ChunkEnd < max
      BY <1>13, AdvanceBehind
    <2>2. lasts = 0
      BY <1>1, <1>13 DEF TypeOK, OneLastChunk
    <2>3. OneLastChunk' /\ (lasts' > 0 => nulls')
      BY <1>3, <1>13, <2>1, <2>2 DEF OneLastChunk, LastInDump
    <2>4. CoalescerSound'
      BY <1>13, <2>1 DEF CoalescerSound
    <2>5. TypeOK'
      <3>1. lasts' \in Nat
        BY <1>13, <2>2
      <3>2. /\ right' \in Type /\ left' \in Type /\ search' \in 0..TMax
            /\ probes' \in Nat /\ useCnt' \in BOOLEAN /\ rows' \in Nat
            /\ step' \in Type
            /\ under' \in [known : BOOLEAN, right : Type, rows : Nat]
        BY <1>1, <1>3, <1>5, <1>6, <1>13 DEF TypeOK, Forget
      <3>. QED  BY <1>1, <1>3, <1>13, <2>1, <3>1, <3>2 DEF TypeOK, Points
    <2>. QED  BY <1>3, <2>3, <2>4, <2>5 DEF Shape
  <1>14. ASSUME NEW c \in [empty : BOOLEAN, begin : Type, end : Type, rows : Nat]
         PROVE  Keys(c) \subseteq Type
    BY <1>4 DEF Keys, Type
  <1>15. CASE Deeper
    <2>1. PICK cut \in BOOLEAN, some \in BOOLEAN :
            /\ interrupted' = cut
            /\ Create(Keys(co), IF cut THEN {} ELSE {begin})
            /\ nulls' = (nulls \/ ~co.empty \/ some \/ (LastInDump /\ Creates(EndMarker)))
      BY <1>15 DEF Deeper
    <2>2. Keys(co) \subseteq Type /\ begin \in Type /\ dumped \subseteq Type
      BY <1>1, <1>14 DEF TypeOK
    <2>3. dumped' \in SUBSET Type /\ twice' \in BOOLEAN /\ interrupted' \in BOOLEAN
      BY <2>1, <2>2, <1>1 DEF Create, TypeOK
    <2>4. /\ pc = "stepped" /\ Advance /\ Forget
          /\ lasts' = IF LastInDump THEN lasts + Marked(EndMarker) ELSE lasts
          /\ co' = EmptyCoalescer
      BY <1>15 DEF Deeper
    <2>5. /\ Marked(EndMarker) = IF LastInDump THEN 1 ELSE 0
          /\ LastInDump => Creates(EndMarker)
      BY <1>7, OneIsMarked DEF EndMarker, Coalescer
    <2>6. nulls' \in BOOLEAN /\ (nulls => nulls') /\ (LastInDump => nulls')
      BY <2>1, <2>5
    <2>7. lasts' = lasts + (IF LastInDump THEN 1 ELSE 0)
      BY <1>1, <2>4, <2>5 DEF TypeOK
    <2>. QED  BY <1>7, <1>13, <2>3, <2>4, <2>6, <2>7
  <1>16. CASE Accumulate
    <2> DEFINE r == Coalesce(co, begin, ChunkEnd, rows, LastOnThisLevel)
    <2>0. /\ Create(Keys(r.chunk), IF FlushAgain(r) THEN Keys(r.co) ELSE {})
          /\ co' = IF FlushAgain(r) THEN EmptyCoalescer ELSE r.co
          /\ lasts' = lasts + Marked(r)
          /\ nulls' = (nulls \/ Creates(r))
          /\ pc = "stepped" /\ Advance /\ Forget
          /\ interrupted' = interrupted
      BY <1>16 DEF Accumulate
    <2>8. /\ Marked(r) = IF LastInDump THEN 1 ELSE 0
          /\ LastInDump => Creates(r)
          /\ (IF FlushAgain(r) THEN Keys(r.co) ELSE {})
               = (IF LastOnThisLevel THEN Keys(r.co) ELSE {})
          /\ (IF FlushAgain(r) THEN EmptyCoalescer ELSE r.co)
               = (IF LastOnThisLevel THEN EmptyCoalescer ELSE r.co)
      <3>1. co \in Coalescer
        BY <1>1 DEF TypeOK, Coalescer
      <3>. QED  BY <3>1, OneIsMarked
    <2>2. ChunkEnd \in Type /\ LastOnThisLevel \in BOOLEAN
      BY EndInType DEF LastOnThisLevel
    <2>3. /\ r.chunk \in [empty : BOOLEAN, begin : Type, end : Type, rows : Nat]
          /\ r.co \in [empty : BOOLEAN, begin : Type, end : Type, rows : Nat]
          /\ ~r.co.empty => r.co.end = ChunkEnd
      BY <2>2, CoalesceShape
    <2> HIDE DEF r
    <2>1. /\ Create(Keys(r.chunk), IF LastOnThisLevel THEN Keys(r.co) ELSE {})
          /\ co' = IF LastOnThisLevel THEN EmptyCoalescer ELSE r.co
          /\ lasts' = lasts + (IF LastInDump THEN 1 ELSE 0)
          /\ pc = "stepped" /\ Advance /\ Forget
          /\ interrupted' = interrupted
      BY <2>0, <2>8
    <2>9. nulls' \in BOOLEAN /\ (nulls => nulls') /\ (LastInDump => nulls')
      BY <2>0, <2>8
    <2>4. /\ Keys(r.chunk) \subseteq Type /\ Keys(r.co) \subseteq Type
          /\ dumped \subseteq Type
      BY <1>1, <1>14, <2>3 DEF TypeOK
    <2>5. dumped' \in SUBSET Type /\ twice' \in BOOLEAN
      BY <1>1, <2>1, <2>4 DEF Create, TypeOK
    <2>6. /\ co' \in [empty : BOOLEAN, begin : Type, end : Type, rows : Nat]
          /\ ~co'.empty => ~LastOnThisLevel /\ co'.end = ChunkEnd
      BY <1>7, <2>1, <2>3
    <2>7. interrupted' \in BOOLEAN
      BY <1>1, <2>1 DEF TypeOK
    <2>. QED  BY <1>13, <2>1, <2>5, <2>6, <2>7, <2>9
  <1>17. CASE Interrupt
    BY <1>1, <1>3, <1>7, <1>17
       DEF Interrupt, Shape, TypeOK, CoalescerSound, OneLastChunk, Points,
           outVars, searchVars
  <1>18. CASE UNCHANGED vars
    BY <1>1, <1>3, <1>18
       DEF vars, Shape, TypeOK, CoalescerSound, OneLastChunk, outVars, searchVars
  <1>. QED  BY <1>8, <1>9, <1>10, <1>11, <1>12, <1>15, <1>16, <1>17, <1>18 DEF Next

\* The types, the coalescer's assertions and the mark of the last chunk.
LEMMA ShapeHolds == Spec => []Shape
  BY InitShape, NextShape, PTL DEF Spec

-----------------------------------------------------------------------------
(* The walk *)

\* Below, the keys of the table are not further apart than the type can tell,
\* so that a difference of two of them is exact.
LEMMA GapFits ==
  ASSUME Shape, DistanceFits, NEW x \in Int, 0 <= x, x <= max - min
  PROVE  Wrap(x) = x
  <1>1. InputsOK /\ min \in Int /\ max \in Int
    BY TypeBounds DEF Shape, TypeOK, Type
  <1>2. TMin <= x /\ x <= TMax
    BY <1>1, TypeBounds DEF DistanceFits
  <1>. QED  BY <1>1, <1>2, WrapFits

\* A key of the table fits into the type.
LEMMA KeyFits ==
  ASSUME Shape, NEW x \in Int, min <= x, x <= max
  PROVE  Wrap(x) = x
  <1>1. InputsOK /\ min \in Int /\ max \in Int /\ TMin <= min /\ max <= TMax
    BY TypeBounds DEF Shape, TypeOK, Type
  <1>2. TMin <= x /\ x <= TMax
    BY <1>1, TypeBounds
  <1>. QED  BY <1>1, <1>2, WrapFits

\* The step that adaptive_step_v2() returns for a range of the table.
LEMMA StepFits ==
  ASSUME Shape, DistanceFits, NEW a \in Int, begin \in min..max, begin <= a, a <= max
  PROVE  LET s == EnsureNotZero(Wrap(a - begin))
         IN  s \in Int /\ 1 <= s /\ s <= max - min + 1
  <1>1. min \in Int /\ max \in Int /\ begin \in Int
    BY TypeBounds DEF Shape, TypeOK, Type
  <1>2. Wrap(a - begin) = a - begin
    BY <1>1, GapFits
  <1>. QED  BY <1>1, <1>2 DEF EnsureNotZero

\* Phase 1 ends within the table, and what phase 2 starts with is half of it.
LEMMA RefineInRange ==
  ASSUME Shape, DistanceFits, begin \in min..max,
         NEW to \in Int, begin <= to, to <= max, NEW n, NEW limit, NEW last,
         last.known => last.right \in Int /\ begin <= last.right /\ last.right <= max,
         Refine(to, n, limit, last)
  PROVE  /\ pc' \in {"stepped", "chop"}
         /\ pc' = "stepped" => 1 <= step' /\ step' <= max - min + 1
         /\ pc' = "chop" => /\ begin <= left' /\ left' <= right'
                            /\ right' + right' - left' <= max
  <1>1. min \in Int /\ max \in Int /\ begin \in Int
    BY TypeBounds DEF Shape, TypeOK, Type
  <1>2. Wrap(to - begin) = to - begin
    BY <1>1, GapFits
  <1> DEFINE h == Half(to - begin)
  <1>3. h \in Int /\ 0 <= h /\ 2 * h <= to - begin
    BY <1>1, HalfIsNearer
  <1> HIDE DEF h
  <1>4. Wrap(begin + h) = begin + h
    BY <1>1, <1>3, KeyFits
  <1>5. CASE ~limit /\ to >= max /\ TooMany(n) /\ last.known /\ last.right > begin
    <2>1. pc' = "stepped" /\ step' = EnsureNotZero(Wrap(last.right - begin))
      BY <1>5 DEF Refine, Return
    <2>. QED  BY <1>5, <2>1, StepFits
  <1>6. CASE ~(~limit /\ to >= max /\ TooMany(n) /\ last.known /\ last.right > begin)
    <2>1. CASE TooMany(n)
      <3>1. pc' = "chop" /\ left' = begin /\ right' = Wrap(begin + Half(Wrap(to - begin)))
        BY <1>6, <2>1 DEF Refine
      <3>2. right' = begin + h
        BY <1>2, <1>4, <3>1 DEF h
      <3>. QED  BY <1>1, <1>3, <3>1, <3>2
    <2>2. CASE ~TooMany(n)
      <3>1. pc' = "stepped" /\ step' = EnsureNotZero(Wrap(to - begin))
        BY <1>6, <2>2 DEF Refine, Return
      <3>. QED  BY <3>1, StepFits
    <2>. QED  BY <2>1, <2>2
  <1>. QED  BY <1>5, <1>6

\* The chunk of a step begins at begin and ends in the table; a step of one is
\* one key.
LEMMA EndInTable ==
  ASSUME Shape, DistanceFits, begin \in min..max, 1 <= step, step <= max - min + 1
  PROVE  /\ ChunkEnd \in Int /\ begin <= ChunkEnd /\ ChunkEnd <= max
         /\ step = 1 => ChunkEnd = begin
  <1>1. min \in Int /\ max \in Int /\ begin \in Int /\ step \in Int
    BY TypeBounds DEF Shape, TypeOK, Type
  <1>2. Wrap(step - 1) = step - 1
    BY <1>1, GapFits
  <1>3. Wrap(max - (step - 1)) = max - (step - 1)
    BY <1>1, KeyFits
  <1>4. begin <= max - (step - 1) => Wrap(begin + (step - 1)) = begin + (step - 1)
    BY <1>1, KeyFits
  <1>5. ChunkEnd = IF begin > max - (step - 1) THEN max ELSE begin + (step - 1)
    BY <1>1, <1>2, <1>3, <1>4 DEF ChunkEnd
  <1>. QED  BY <1>1, <1>5

\* Creating the chunks L..(m - 1) and m..(u - 1) when everything below L is
\* dumped: no key is dumped twice, and then everything below u is.
LEMMA CreateSound ==
  ASSUME NEW lo \in Int, NEW L \in Int, NEW m \in Int, NEW u \in Int,
         lo <= L, L <= m, m <= u,
         dumped \subseteq lo..(L - 1), twice = FALSE,
         Create(L..(m - 1), m..(u - 1))
  PROVE  /\ twice' = FALSE
         /\ dumped' \subseteq lo..(u - 1)
         /\ lo..(L - 1) \subseteq dumped => lo..(u - 1) \subseteq dumped'
  <1>1. dumped' = dumped \union L..(m - 1) \union m..(u - 1)
    BY DEF Create
  <1>2. (L..(m - 1)) \intersect dumped = {}
    OBVIOUS
  <1>3. (m..(u - 1)) \intersect (dumped \union L..(m - 1)) = {}
    OBVIOUS
  <1>4. twice' = FALSE
    BY <1>2, <1>3 DEF Create
  <1>5. lo..(u - 1) = (lo..(L - 1)) \union (L..(m - 1)) \union (m..(u - 1))
    OBVIOUS
  <1>. QED  BY <1>1, <1>4, <1>5

\* The walk starts at the smallest key, with nothing dumped.
LEMMA InitWalk == Init => Walk
  <1> SUFFICES ASSUME Init PROVE Walk
    OBVIOUS
  <1>1. min \in Int /\ max \in Int /\ min <= max
    <2>1. TMin \in Int /\ TMax \in Int
      BY TypeAssumption DEF Init, TMin, TMax
    <2>. QED  BY <2>1 DEF Init, Type
  <1>2. co.empty /\ dumped = {} /\ begin = min /\ pc = "next" /\ twice = FALSE
    BY DEF Init, EmptyCoalescer
  <1>3. InTable
    BY <1>1, <1>2 DEF InTable
  <1>4. Covered
    BY <1>1, <1>2 DEF Covered, Lower
  <1>5. InRange /\ Heeded /\ EveryKeyOnce
    BY <1>2 DEF InRange, Heeded, EveryKeyOnce
  <1>. QED  BY <1>3, <1>4, <1>5 DEF Walk

\* A range grows with its upper end.
LEMMA LongerRange ==
  ASSUME NEW a \in Int, NEW b \in Int, NEW c \in Int, b <= c
  PROVE  a..(b - 1) \subseteq a..(c - 1)
  OBVIOUS

\* The end of the loop's body, after the chunks L..(m - 1) and m..(u - 1) were
\* created, u being where the coalescer begins then.
LEMMA WalkOn ==
  ASSUME Shape, Shape', DistanceFits, InTable, Covered, twice = FALSE,
         pc = "stepped", 1 <= step, step <= max - min + 1,
         UNCHANGED inputs, Advance,
         NEW m \in Int, NEW u \in Int, Lower <= m, m <= u,
         Create(Lower..(m - 1), m..(u - 1)),
         LastOnThisLevel /\ ~interrupted' => u = max + 1,
         ~LastOnThisLevel => u <= Lower',
         ~LastOnThisLevel /\ ~interrupted' => u = Lower',
         ~LastOnThisLevel /\ ~co'.empty => min <= co'.begin /\ co'.begin <= co'.end,
         ~interrupted' => ~interrupted
  PROVE  Walk'
  <1>1. /\ InputsOK /\ TypeOK
        /\ min \in Int /\ max \in Int /\ begin \in Int /\ co.begin \in Int
        /\ co.end \in Int
    BY TypeBounds DEF Shape, TypeOK, Type
  <1>2. min' = min /\ max' = max
    BY DEF inputs
  <1>3. begin \in min..max /\ (~co.empty => min <= co.begin /\ co.begin <= co.end)
    BY DEF InTable
  <1>4. ChunkEnd \in Int /\ begin <= ChunkEnd /\ ChunkEnd <= max
    BY <1>3, EndInTable
  <1>5. Lower \in Int /\ min <= Lower
    BY <1>1, <1>3 DEF Lower
  <1>6. dumped \subseteq min..(Lower - 1)
        /\ (~interrupted => min..(Lower - 1) \subseteq dumped)
    BY DEF Covered
  <1>7. /\ twice' = FALSE
        /\ dumped' \subseteq min..(u - 1)
        /\ min..(Lower - 1) \subseteq dumped => min..(u - 1) \subseteq dumped'
    BY <1>1, <1>5, <1>6, CreateSound
  <1>8. /\ pc' \in {"done", "next"}
        /\ pc' = "done" <=> LastOnThisLevel
        /\ pc' = "next" => begin' = ChunkEnd + 1 /\ ChunkEnd < max
    BY AdvanceBehind
  <1>9. InTable'
    BY <1>1, <1>2, <1>3, <1>4, <1>8 DEF InTable
  <1>10. Covered'
    <2>1. CASE pc' = "done"
      BY <2>1 DEF Covered
    <2>2. CASE pc' = "next"
      <3>1. ~LastOnThisLevel
        BY <1>8, <2>2
      <3>2. Lower' \in Int
        <4>1. begin' \in Int /\ co'.begin \in Int
          BY TypeBounds DEF Shape, TypeOK, Type
        <4>. QED  BY <4>1 DEF Lower
      <3>3. min..(u - 1) \subseteq min..(Lower' - 1)
        <4>1. u <= Lower'
          BY <3>1, <3>2
        <4>. QED  BY <1>1, <3>2, <4>1, LongerRange
      <3>4. dumped' \subseteq min..(Lower' - 1)
        BY <1>7, <3>3
      <3>5. ~interrupted' => min..(Lower' - 1) \subseteq dumped'
        BY <1>6, <1>7, <3>1
      <3>. QED  BY <1>2, <3>4, <3>5 DEF Covered
    <2>. QED  BY <1>8, <2>1, <2>2
  <1>11. InRange' /\ Heeded'
    BY <1>8 DEF InRange, Heeded
  <1>12. EveryKeyOnce'
    <2>1. ASSUME pc' = "done", ~interrupted'
          PROVE  dumped' = min..max
      <3>1. u = max + 1 /\ ~interrupted
        BY <1>8, <2>1
      <3>2. u - 1 = max
        BY <1>1, <3>1
      <3>. QED  BY <1>6, <1>7, <3>1, <3>2
    <2>. QED  BY <1>2, <1>7, <2>1 DEF EveryKeyOnce
  <1>. QED  BY <1>9, <1>10, <1>11, <1>12 DEF Walk

\* The keys of the accumulated range are those from Lower to begin.
LEMMA AccumulatedKeys ==
  ASSUME Shape, InTable, pc # "done"
  PROVE  Keys(co) = Lower..(begin - 1) /\ Lower <= begin /\ Lower \in Int
  <1>1. /\ min \in Int /\ max \in Int /\ begin \in Int /\ co.begin \in Int
        /\ co.end \in Int
    BY TypeBounds DEF Shape, TypeOK, Type
  <1>2. begin \in min..max /\ (~co.empty => min <= co.begin /\ co.begin <= co.end)
    BY DEF InTable
  <1>3. ~co.empty => co.end + 1 = begin
    BY DEF Shape, CoalescerSound
  <1>4. CASE co.empty
    BY <1>1, <1>4 DEF Keys, Lower
  <1>5. CASE ~co.empty
    <2>1. co.end = begin - 1
      BY <1>1, <1>3, <1>5
    <2>. QED  BY <1>1, <1>2, <1>5, <2>1 DEF Keys, Lower
  <1>. QED  BY <1>4, <1>5

\* A value that is chunked by the next column: the accumulated range and the
\* value itself are dumped, unless the recursion is interrupted.
LEMMA DeeperWalk ==
  ASSUME Shape, Shape', Walk, Deeper, DistanceFits
  PROVE  Walk'
  <1>1. InTable /\ Covered /\ InRange /\ Heeded /\ EveryKeyOnce
    BY DEF Walk
  <1>2. /\ pc = "stepped" /\ Advance /\ step = 1 /\ co' = EmptyCoalescer
        /\ UNCHANGED inputs
    BY DEF Deeper, GoesDeeper
  <1>3. PICK cut \in BOOLEAN, some \in BOOLEAN :
          /\ interrupted' = cut
          /\ Create(Keys(co), IF cut THEN {} ELSE {begin})
    BY DEF Deeper
  <1>4. /\ min \in Int /\ max \in Int /\ begin \in Int
        /\ interrupted \in BOOLEAN /\ twice \in BOOLEAN
    BY TypeBounds DEF Shape, TypeOK, Type
  <1>5. 1 <= step /\ step <= max - min + 1 /\ begin \in min..max
    BY <1>1, <1>2 DEF InRange, InTable
  <1>6. ChunkEnd = begin
    BY <1>2, <1>5, EndInTable
  <1>7. Keys(co) = Lower..(begin - 1) /\ Lower <= begin /\ Lower \in Int
    BY <1>1, <1>2, AccumulatedKeys
  <1>8. twice = FALSE
    BY <1>1, <1>4 DEF EveryKeyOnce
  <1>9. ~LastOnThisLevel => Lower' = begin + 1 /\ co'.empty
    BY <1>2, <1>6, AdvanceBehind DEF Lower, EmptyCoalescer
  <1>10. LastOnThisLevel => begin = max
    BY <1>4, <1>5, <1>6 DEF LastOnThisLevel
  <1>11. CASE cut
    <2>1. begin..(begin - 1) = {}
      BY <1>4
    <2>2. Create(Lower..(begin - 1), begin..(begin - 1))
      BY <1>3, <1>7, <1>11, <2>1
    <2>3. interrupted' /\ begin <= max + 1 /\ begin <= begin + 1
      BY <1>3, <1>4, <1>5, <1>11
    <2>4. begin <= begin
      BY <1>4
    <2>5. ~LastOnThisLevel => begin <= Lower'
      BY <1>9, <2>3
    <2>. QED  BY <1>1, <1>2, <1>4, <1>5, <1>7, <1>8, <1>9, <2>2, <2>3, <2>4, <2>5,
                 WalkOn
  <1>12. CASE ~cut
    <2>1. begin..((begin + 1) - 1) = {begin}
      BY <1>4
    <2>2. Create(Lower..(begin - 1), begin..((begin + 1) - 1))
      BY <1>3, <1>7, <1>12, <2>1
    <2>3. ~interrupted
      BY <1>1, <1>2 DEF Heeded
    <2>4. begin + 1 \in Int /\ begin <= begin + 1
      BY <1>4
    <2>5. LastOnThisLevel => begin + 1 = max + 1
      BY <1>10
    <2>6. ~LastOnThisLevel => begin + 1 <= Lower' /\ begin + 1 = Lower'
      BY <1>4, <1>9
    <2>. QED  BY <1>1, <1>2, <1>4, <1>5, <1>7, <1>8, <1>9, <2>2, <2>3, <2>4, <2>5, <2>6,
                 WalkOn
  <1>. QED  BY <1>11, <1>12

\* A range goes through the coalescer, which gives back what it had, both, or
\* nothing.
LEMMA AccumulateWalk ==
  ASSUME Shape, Shape', Walk, Accumulate, DistanceFits
  PROVE  Walk'
  <1> DEFINE r == Coalesce(co, begin, ChunkEnd, rows, LastOnThisLevel)
  <1>1. InTable /\ Covered /\ InRange /\ Heeded /\ EveryKeyOnce
    BY DEF Walk
  <1>2. /\ pc = "stepped" /\ Advance /\ UNCHANGED inputs
        /\ interrupted' = interrupted
        /\ Create(Keys(r.chunk), IF LastOnThisLevel THEN Keys(r.co) ELSE {})
        /\ co' = IF LastOnThisLevel THEN EmptyCoalescer ELSE r.co
    <2>1. /\ pc = "stepped" /\ Advance /\ UNCHANGED inputs
          /\ interrupted' = interrupted
          /\ Create(Keys(r.chunk), IF FlushAgain(r) THEN Keys(r.co) ELSE {})
          /\ co' = IF FlushAgain(r) THEN EmptyCoalescer ELSE r.co
      BY DEF Accumulate
    <2>2. co \in Coalescer
      BY DEF Shape, TypeOK, Coalescer
    <2>3. /\ (IF FlushAgain(r) THEN Keys(r.co) ELSE {})
               = (IF LastOnThisLevel THEN Keys(r.co) ELSE {})
          /\ (IF FlushAgain(r) THEN EmptyCoalescer ELSE r.co)
               = (IF LastOnThisLevel THEN EmptyCoalescer ELSE r.co)
      BY <2>2, OneIsMarked
    <2> HIDE DEF r
    <2>. QED  BY <2>1, <2>3
  <1>3. /\ min \in Int /\ max \in Int /\ begin \in Int
        /\ co.begin \in Int /\ co.end \in Int
        /\ interrupted \in BOOLEAN /\ twice \in BOOLEAN
        /\ co \in [empty : BOOLEAN, begin : Type, end : Type, rows : Nat]
    BY TypeBounds DEF Shape, TypeOK, Type
  <1>4. 1 <= step /\ step <= max - min + 1 /\ begin \in min..max
    BY <1>1, <1>2 DEF InRange, InTable
  <1>5. ChunkEnd \in Int /\ begin <= ChunkEnd /\ ChunkEnd <= max
    BY <1>4, EndInTable
  <1>6. Keys(co) = Lower..(begin - 1) /\ Lower <= begin /\ Lower \in Int
    BY <1>1, <1>2, AccumulatedKeys
  <1>7. twice = FALSE
    BY <1>1, <1>3 DEF EveryKeyOnce
  <1>8. LastOnThisLevel => ChunkEnd = max
    BY <1>3, <1>5 DEF LastOnThisLevel
  <1>9. ~LastOnThisLevel => begin' = ChunkEnd + 1
    BY <1>2, AdvanceBehind
  <1>10. ~co.empty => min <= co.begin /\ co.begin <= co.end /\ co.begin = Lower
    BY <1>1, <1>2 DEF InTable, Lower
  <1>11. ASSUME NEW b \in Int, min <= b, b <= begin, NEW c,
                c.empty = FALSE, c.begin = b, c.end = ChunkEnd
         PROVE  Keys(c) = b..((ChunkEnd + 1) - 1)
    <2>1. (ChunkEnd + 1) - 1 = ChunkEnd
      BY <1>5
    <2>2. (b..ChunkEnd) \intersect (min..max) = b..ChunkEnd
      BY <1>3, <1>5, <1>11
    <2>. QED  BY <1>11, <2>1, <2>2 DEF Keys
  <1>12. /\ Accumulated(begin, ChunkEnd, rows).empty = FALSE
         /\ Accumulated(begin, ChunkEnd, rows).begin = begin
         /\ Accumulated(begin, ChunkEnd, rows).end = ChunkEnd
    BY DEF Accumulated
  <1>13. Keys(Accumulated(begin, ChunkEnd, rows)) = begin..((ChunkEnd + 1) - 1)
    <2>1. min <= begin /\ begin <= begin
      BY <1>3, <1>4
    <2>. QED  BY <1>3, <1>11, <1>12, <2>1
  <1>14. /\ Grown(co, ChunkEnd, rows).empty = co.empty
         /\ Grown(co, ChunkEnd, rows).begin = co.begin
         /\ Grown(co, ChunkEnd, rows).end = ChunkEnd
    BY <1>3 DEF Grown
  <1>15. ~co.empty => Keys(Grown(co, ChunkEnd, rows)) = Lower..((ChunkEnd + 1) - 1)
    BY <1>3, <1>6, <1>10, <1>11, <1>14
  <1>16. EmptyCoalescer.empty /\ Keys(EmptyCoalescer) = {}
    BY DEF EmptyCoalescer, Keys
  <1>17. \A x \in Int : x..(x - 1) = {}
    OBVIOUS
  <1>18. ChunkEnd + 1 \in Int /\ begin <= ChunkEnd + 1 /\ Lower <= ChunkEnd + 1
    BY <1>3, <1>5, <1>6
  <1>19. LastOnThisLevel \in BOOLEAN
    BY DEF LastOnThisLevel
  <1>20. ~interrupted' => ~interrupted
    BY <1>2
  <1>21. ASSUME NEW m \in Int, NEW u \in Int, Lower <= m, m <= u,
                Create(Lower..(m - 1), m..(u - 1)),
                LastOnThisLevel => u = ChunkEnd + 1,
                ~LastOnThisLevel =>
                  /\ u = Lower'
                  /\ ~co'.empty => min <= co'.begin /\ co'.begin <= co'.end
         PROVE  Walk'
    <2>1. LastOnThisLevel => u = max + 1
      BY <1>8, <1>21
    <2>2. ~LastOnThisLevel => u <= Lower'
      BY <1>21
    <2>. QED  BY <1>1, <1>2, <1>4, <1>7, <1>20, <1>21, <2>1, <2>2, WalkOn
  <1>22. CASE /\ co.empty /\ LastOnThisLevel
              /\ r.chunk = Accumulated(begin, ChunkEnd, rows) /\ r.co = EmptyCoalescer
    <2>1. Lower = begin
      BY <1>22 DEF Lower
    <2>2. Create(Lower..((ChunkEnd + 1) - 1), (ChunkEnd + 1)..((ChunkEnd + 1) - 1))
      BY <1>2, <1>13, <1>16, <1>17, <1>18, <1>22, <2>1
    <2>. QED  BY <1>18, <1>21, <1>22, <2>2
  <1>23. CASE /\ co.empty /\ ~LastOnThisLevel
              /\ r.chunk = EmptyCoalescer /\ r.co = Accumulated(begin, ChunkEnd, rows)
    <2>1. Lower = begin /\ co' = Accumulated(begin, ChunkEnd, rows)
      BY <1>2, <1>23 DEF Lower
    <2>2. Lower' = begin
      BY <1>12, <2>1 DEF Lower
    <2>3. Create(Lower..(begin - 1), begin..(begin - 1))
      BY <1>2, <1>3, <1>16, <1>17, <1>23, <2>1
    <2>. QED  BY <1>3, <1>4, <1>5, <1>6, <1>12, <1>21, <1>23, <2>1, <2>2, <2>3
  <1>24. CASE ~co.empty /\ r.chunk = co /\ r.co = Accumulated(begin, ChunkEnd, rows)
    <2>1. CASE LastOnThisLevel
      <3>1. Create(Lower..(begin - 1), begin..((ChunkEnd + 1) - 1))
        BY <1>2, <1>6, <1>13, <1>24, <2>1
      <3>. QED  BY <1>3, <1>6, <1>18, <1>21, <2>1, <3>1
    <2>2. CASE ~LastOnThisLevel
      <3>1. co' = Accumulated(begin, ChunkEnd, rows)
        BY <1>2, <1>24, <2>2
      <3>2. Lower' = begin
        BY <1>12, <3>1 DEF Lower
      <3>3. Create(Lower..(begin - 1), begin..(begin - 1))
        BY <1>2, <1>3, <1>6, <1>17, <1>24, <2>2
      <3>. QED  BY <1>3, <1>4, <1>5, <1>6, <1>12, <1>21, <2>2, <3>1, <3>2, <3>3
    <2>. QED  BY <2>1, <2>2
  <1>25. CASE ~co.empty /\ r.chunk = Grown(co, ChunkEnd, rows) /\ r.co = EmptyCoalescer
    <2>1. Create(Lower..((ChunkEnd + 1) - 1), (ChunkEnd + 1)..((ChunkEnd + 1) - 1))
      BY <1>2, <1>15, <1>16, <1>17, <1>18, <1>25
    <2>2. co' = EmptyCoalescer
      BY <1>2, <1>25
    <2>3. ~LastOnThisLevel => Lower' = ChunkEnd + 1
      BY <1>9, <1>16, <2>2 DEF Lower
    <2>. QED  BY <1>16, <1>18, <1>21, <2>1, <2>2, <2>3
  <1>26. CASE /\ ~co.empty /\ ~LastOnThisLevel
              /\ r.chunk = EmptyCoalescer /\ r.co = Grown(co, ChunkEnd, rows)
    <2>1. co' = Grown(co, ChunkEnd, rows)
      BY <1>2, <1>26
    <2>2. Lower' = Lower
      BY <1>14, <1>26, <2>1 DEF Lower
    <2>3. Create(Lower..(Lower - 1), Lower..(Lower - 1))
      BY <1>2, <1>6, <1>16, <1>17, <1>26
    <2>4. co.begin <= ChunkEnd
      BY <1>3, <1>5, <1>6, <1>10, <1>26
    <2>5. Lower <= Lower
      BY <1>6
    <2>. QED  BY <1>6, <1>10, <1>14, <1>21, <1>26, <2>1, <2>2, <2>3, <2>4, <2>5
  <1>27. r = Coalesce(co, begin, ChunkEnd, rows, LastOnThisLevel)
    OBVIOUS
  <1> HIDE DEF r
  <1>28. Outcome(co, begin, ChunkEnd, rows, LastOnThisLevel, r)
    BY <1>19, <1>27, CoalesceFields
  <1>. QED  BY <1>22, <1>23, <1>24, <1>25, <1>26, <1>28 DEF Outcome

\* Every step keeps the walk in order.
LEMMA NextWalk == Shape /\ Shape' /\ Walk /\ [Next]_vars => Walk'
  <1> SUFFICES ASSUME Shape, Shape', Walk, [Next]_vars PROVE Walk'
    OBVIOUS
  <1>1. UNCHANGED inputs
    BY DEF Next, ConstantStep, AdaptiveStep, Expand, CheckFullRange, Chop,
           Deeper, Accumulate, Interrupt, vars
  <1>2. /\ InputsOK /\ TypeOK /\ min' = min /\ max' = max
        /\ (DistanceFits' <=> DistanceFits)
    BY <1>1, InputsStay DEF Shape
  <1>3. CASE ~DistanceFits
    BY <1>2, <1>3 DEF Walk
  <1>4. CASE DistanceFits
    <2>1. InTable /\ Covered /\ InRange /\ Heeded /\ EveryKeyOnce
      BY <1>4 DEF Walk
    <2>2. /\ min \in Int /\ max \in Int /\ begin \in Int /\ right \in Int
          /\ left \in Int /\ hint \in Int /\ 1 <= hint /\ hint <= max - min + 1
          /\ under.right \in Int
      BY <1>2, TypeBounds DEF TypeOK, Type, InputsOK
    <2>3. ASSUME UNCHANGED <<outVars, begin, co, interrupted>>,
                 pc # "done", pc' # "done", InRange', Heeded'
          PROVE  Walk'
      BY <1>2, <2>1, <2>3
         DEF Walk, InTable, Covered, Lower, EveryKeyOnce, outVars
    <2>4. CASE ConstantStep
      <3>1. InRange' /\ Heeded' /\ pc' # "done"
        BY <1>2, <2>2, <2>4 DEF ConstantStep, InRange, Heeded
      <3>. QED  BY <2>3, <2>4, <3>1 DEF ConstantStep
    <2>5. CASE AdaptiveStep
      <3>1. InRange' /\ Heeded' /\ pc' # "done"
        BY <2>5 DEF AdaptiveStep, InRange, Heeded, NoRange
      <3>. QED  BY <2>3, <2>5, <3>1 DEF AdaptiveStep
    <2>6. CASE Expand
      <3>1. PICK n \in RowCounts :
              LET to   == Smaller(Sum(begin, search), max)
                  last == IF n < RowsPerChunk
                          THEN [known |-> TRUE, right |-> to, rows |-> n]
                          ELSE under
              IN  /\ under' = last
                  /\ IF n >= RowsPerChunk \/ to >= max
                     THEN Refine(to, n, FALSE, last)
                     ELSE pc' \in {"full", "expand"}
        BY <2>6 DEF Expand
      <3> DEFINE to == Smaller(Sum(begin, search), max)
                 last == IF n < RowsPerChunk
                         THEN [known |-> TRUE, right |-> to, rows |-> n]
                         ELSE under
      <3>2. begin \in Type /\ search \in 0..TMax /\ begin \in min..max
        BY <1>2, <2>1, <2>6 DEF TypeOK, InTable, Expand
      <3>3. Sum(begin, search) \in Int /\ begin <= Sum(begin, search)
        BY <1>2, <3>2, SumGrows, TypeBounds DEF Type
      <3>4. to \in Int /\ begin <= to /\ to <= max
        BY <2>2, <3>2, <3>3 DEF Smaller
      <3>5. last.known =>
              last.right \in Int /\ begin <= last.right /\ last.right <= max
        BY <2>1, <2>2, <2>6, <3>4 DEF InRange, Expand
      <3>6. /\ under' = last
            /\ IF n >= RowsPerChunk \/ to >= max
               THEN Refine(to, n, FALSE, last)
               ELSE pc' \in {"full", "expand"}
        BY <3>1
      <3> HIDE DEF to, last
      <3>7. begin' = begin /\ interrupted' = interrupted /\ ~interrupted
        BY <2>1, <2>6 DEF Expand, Heeded
      <3>8. InRange' /\ Heeded' /\ pc' # "done"
        <4>1. CASE n >= RowsPerChunk \/ to >= max
          <5>1. Refine(to, n, FALSE, last)
            BY <3>6, <4>1
          <5>2. /\ pc' \in {"stepped", "chop"}
                /\ pc' = "stepped" => 1 <= step' /\ step' <= max - min + 1
                /\ pc' = "chop" => /\ begin <= left' /\ left' <= right'
                                   /\ right' + right' - left' <= max
            BY <1>4, <3>2, <3>4, <3>5, <5>1, RefineInRange
          <5>. QED  BY <1>2, <3>7, <5>2 DEF InRange, Heeded
        <4>2. CASE ~(n >= RowsPerChunk \/ to >= max)
          BY <1>2, <3>5, <3>6, <3>7, <4>2 DEF InRange, Heeded
        <4>. QED  BY <4>1, <4>2
      <3>. QED  BY <2>3, <2>6, <3>8 DEF Expand
    <2>7. CASE CheckFullRange
      <3>1. PICK n \in RowCounts : Refine(max, n, TRUE, under)
        BY <2>7 DEF CheckFullRange
      <3>2. begin \in min..max /\ begin <= max /\ max <= max
        BY <2>1, <2>2, <2>7 DEF InTable, CheckFullRange
      <3>3. under.known =>
              under.right \in Int /\ begin <= under.right /\ under.right <= max
        BY <2>1, <2>2, <2>7 DEF InRange, CheckFullRange
      <3>4. /\ pc' \in {"stepped", "chop"}
            /\ pc' = "stepped" => 1 <= step' /\ step' <= max - min + 1
            /\ pc' = "chop" => /\ begin <= left' /\ left' <= right'
                               /\ right' + right' - left' <= max
        BY <1>4, <2>2, <3>1, <3>2, <3>3, RefineInRange
      <3>5. begin' = begin /\ interrupted' = interrupted /\ ~interrupted
        BY <2>1, <2>7 DEF CheckFullRange, Heeded
      <3>6. InRange' /\ Heeded' /\ pc' # "done"
        BY <1>2, <3>4, <3>5 DEF InRange, Heeded
      <3>. QED  BY <2>3, <2>7, <3>6 DEF CheckFullRange
    <2>8. CASE Chop
      <3>1. /\ begin \in min..max
            /\ begin <= left /\ left <= right /\ right + right - left <= max
        BY <2>1, <2>8 DEF InTable, InRange, Chop
      <3> DEFINE gap == Half(Wrap(right - left))
      <3>2. Wrap(right - left) = right - left
        BY <1>4, <2>2, <3>1, GapFits
      <3>3. gap \in Int /\ 0 <= gap /\ 2 * gap <= right - left
        BY <2>2, <3>1, <3>2, HalfIsNearer
      <3> HIDE DEF gap
      <3>4. left < right =>
              /\ Shrink(gap) \in Int /\ left <= Shrink(gap) /\ Shrink(gap) <= right
        <4>1. ASSUME left < right
              PROVE  /\ EnsureNotZero(gap) \in Int /\ 1 <= EnsureNotZero(gap)
                     /\ EnsureNotZero(gap) <= right - left
          BY <2>2, <3>3, <4>1 DEF EnsureNotZero
        <4> DEFINE g == EnsureNotZero(gap)
        <4> HIDE DEF g
        <4>2. ASSUME left < right
              PROVE  Wrap(right - g) = right - g
          BY <2>2, <3>1, <4>1, <4>2, KeyFits DEF g
        <4>. QED  BY <2>2, <4>1, <4>2 DEF g, Shrink
      <3>5. Wrap(right + gap) = right + gap
        BY <2>2, <3>1, <3>3, KeyFits
      <3>6. LET s == EnsureNotZero(Wrap(right - begin))
            IN  1 <= s /\ s <= max - min + 1
        BY <1>4, <2>2, <3>1, StepFits
      <3>7. \/ pc' = "stepped" /\ step' = EnsureNotZero(Wrap(right - begin))
            \/ /\ pc' = "chop" /\ left' = left /\ left < right
               /\ right' = Shrink(gap)
            \/ pc' = "chop" /\ left' = right /\ right' = Wrap(right + gap)
        BY <2>8 DEF Chop, Return, gap
      <3>8. begin' = begin /\ interrupted' = interrupted /\ ~interrupted
        BY <2>1, <2>8 DEF Chop, Heeded
      <3>9. InRange'
        <4>1. CASE pc' = "stepped" /\ step' = EnsureNotZero(Wrap(right - begin))
          BY <1>2, <3>6, <4>1 DEF InRange
        <4>2. CASE /\ pc' = "chop" /\ left' = left /\ left < right
                   /\ right' = Shrink(gap)
          BY <1>2, <2>2, <3>1, <3>4, <3>8, <4>2 DEF InRange
        <4>3. CASE pc' = "chop" /\ left' = right /\ right' = Wrap(right + gap)
          BY <1>2, <2>2, <3>1, <3>3, <3>5, <3>8, <4>3 DEF InRange
        <4>. QED  BY <3>7, <4>1, <4>2, <4>3
      <3>10. Heeded' /\ pc' # "done"
        BY <3>7, <3>8 DEF Heeded
      <3>. QED  BY <2>3, <2>8, <3>9, <3>10 DEF Chop
    <2>9. CASE Deeper
      BY <1>4, <2>9, DeeperWalk
    <2>10. CASE Accumulate
      BY <1>4, <2>10, AccumulateWalk
    <2>11. CASE Interrupt
      BY <2>1, <2>11
         DEF Interrupt, Walk, InTable, Covered, InRange, Heeded, EveryKeyOnce,
             outVars
    <2>12. CASE UNCHANGED vars
      BY <1>2, <2>1, <2>12
         DEF vars, Walk, InTable, Covered, Lower, InRange, Heeded, EveryKeyOnce,
             outVars, searchVars
    <2>. QED  BY <2>4, <2>5, <2>6, <2>7, <2>8, <2>9, <2>10, <2>11, <2>12 DEF Next
  <1>. QED  BY <1>3, <1>4

\* The walk is in order in every reachable state.
LEMMA WalkHolds == Spec => [](Shape /\ Walk)
  BY InitShape, NextShape, InitWalk, NextWalk, PTL DEF Spec

\* Every key of the table is in exactly one of the chunks that
\* chunk_integer_column() creates, whatever EXPLAIN answers, and one chunk of
\* a whole dump is marked as the last one and one selects the rows with NULL, for
\* every type of the column; the keys must not be too far apart for it.
THEOREM ChunksCorrect == Spec => []ChunksComplete
  <1>1. Shape /\ Walk => ChunksComplete
    <2> SUFFICES ASSUME Shape, Walk PROVE ChunksComplete
      OBVIOUS
    <2>1. OneLastChunk /\ (DistanceFits => EveryKeyOnce)
      BY DEF Shape, Walk
    <2>2. NullRowsDumped
      BY DEF Shape, OneLastChunk, NullRowsDumped
    <2>. QED  BY <2>1, <2>2 DEF ChunksComplete
  <1>. QED  BY <1>1, WalkHolds, PTL

\* The assertions of Chunk_coalescer hold, the arithmetic stays in the type of
\* the column, and between() gets no inverted range from keys that are not too
\* far apart.
THEOREM AssertionsCorrect == Spec => []AssertionsHold
  <1>1. ASSUME Shape, Walk
        PROVE  RangesOrdered
    <2>1. /\ min \in Int /\ max \in Int /\ begin \in Int /\ left \in Int
          /\ right \in Int
      BY <1>1, TypeBounds DEF Shape, TypeOK, Type
    <2>2. ASSUME DistanceFits
          PROVE  /\ pc = "chop" => begin <= right
                 /\ pc = "stepped" => begin <= ChunkEnd
                 /\ ~co.empty => co.begin <= co.end
      <3>1. InTable /\ InRange
        BY <1>1, <2>2 DEF Walk
      <3>2. pc = "chop" => begin <= right
        BY <2>1, <3>1 DEF InRange
      <3>3. pc = "stepped" => begin <= ChunkEnd
        BY <1>1, <2>2, <3>1, EndInTable DEF InTable, InRange
      <3>4. ~co.empty => co.begin <= co.end
        BY <1>1, <3>1 DEF InTable, Shape, CoalescerSound
      <3>. QED  BY <3>2, <3>3, <3>4
    <2>. QED  BY <2>2 DEF RangesOrdered
  <1>2. Shape /\ Walk => AssertionsHold
    BY <1>1 DEF Shape, AssertionsHold
  <1>. QED  BY <1>2, WalkHolds, PTL

=============================================================================
