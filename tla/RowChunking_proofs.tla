-------------------------- MODULE RowChunking_proofs --------------------------
(***************************************************************************)
(* Proofs about RowChunking: the tasks of a table hold its rows, for every *)
(* number of keys and rows per chunk, and every sequence of inserts and    *)
(* deletes between the queries.                                            *)
(*                                                                         *)
(* The argument is about Nth(S, n), the n-th row of a result: it exists,   *)
(* and between it and the next one there is none (NthExists, NthNext).     *)
(***************************************************************************)
EXTENDS RowChunking, FiniteSetTheorems, WellFoundedInduction, TLAPS

-----------------------------------------------------------------------------
(* The n-th row of a result *)

\* Every set of natural numbers has a least element.
LEMMA LeastRow ==
  ASSUME NEW S \in SUBSET Nat, S # {}
  PROVE  \E x \in S : \A y \in S : x <= y
  <1>1. IsWellFoundedOn(OpToRel(<, Nat), Nat)
    BY NatLessThanWellFounded
  <1>2. \E x \in S : \A y \in S : ~(<<y, x>> \in OpToRel(<, Nat))
    BY <1>1, WFMin
  <1>3. PICK x \in S : \A y \in S : ~(<<y, x>> \in OpToRel(<, Nat))
    BY <1>2
  <1>4. \A y \in S : ~(y < x)
    BY <1>3 DEF OpToRel
  <1>. QED  BY <1>4

\* A result has finitely many rows, whose keys are numbers.
LEMMA ResultFinite ==
  ASSUME NEW S \in SUBSET Keys
  PROVE  /\ IsFiniteSet(S) /\ Cardinality(S) \in Nat /\ S \subseteq Nat /\ MaxKey \in Nat
         /\ \A k \in S : 1 <= k /\ k <= MaxKey
  <1>1. MaxKey \in Nat /\ MaxKey \in Int /\ 1 \in Int
    BY KeysAssumption
  <1>2. IsFiniteSet(Keys)
    BY <1>1, FS_Interval DEF Keys
  <1>3. IsFiniteSet(S)
    BY <1>2, FS_Subset
  <1>4. Cardinality(S) \in Nat
    BY <1>3, FS_CardinalityType
  <1>5. \A k \in S : k \in Nat /\ 1 <= k /\ k <= MaxKey
    BY <1>1 DEF Keys
  <1>. QED  BY <1>1, <1>3, <1>4, <1>5

\* The rows up to a key are finitely many.
LEMMA UpToFinite ==
  ASSUME NEW S \in SUBSET Keys, NEW x \in Nat
  PROVE  /\ IsFiniteSet(S) /\ IsFiniteSet({y \in S : y <= x})
         /\ Cardinality(S) \in Nat /\ Cardinality({y \in S : y <= x}) \in Nat
  <1>1. IsFiniteSet(Keys)
    BY KeysAssumption, FS_Interval DEF Keys
  <1>2. IsFiniteSet(S) /\ IsFiniteSet({y \in S : y <= x})
    BY <1>1, FS_Subset
  <1>. QED  BY <1>2, FS_CardinalityType

\* Up to the next key there is one more row, if that key is one, and none if not.
LEMMA UpToNext ==
  ASSUME NEW S \in SUBSET Keys, NEW x \in Nat
  PROVE  LET c == Cardinality({y \in S : y <= x})
             d == Cardinality({y \in S : y <= x + 1})
         IN  d = IF x + 1 \in S THEN c + 1 ELSE c
  <1> DEFINE A == {y \in S : y <= x}
             B == {y \in S : y <= x + 1}
  <1>0. S \subseteq Nat
    BY ResultFinite
  <1>1. IsFiniteSet(A) /\ x + 1 \notin A
    BY UpToFinite
  <1>2. CASE x + 1 \in S
    <2>1. ASSUME NEW y
          PROVE  y \in B <=> y \in A \cup {x + 1}
      <3>1. y \in S => y \in Nat
        BY <1>0
      <3>2. y \in Nat => (y <= x + 1 <=> y <= x \/ y = x + 1)
        OBVIOUS
      <3>. QED  BY <1>2, <3>1, <3>2
    <2>2. B = A \cup {x + 1}
      BY <2>1
    <2>. QED  BY <1>1, <1>2, <2>2, FS_AddElement
  <1>3. CASE x + 1 \notin S
    <2>1. ASSUME NEW y
          PROVE  y \in B <=> y \in A
      <3>1. y \in S => y \in Nat
        BY <1>0
      <3>2. y \in Nat => (y <= x + 1 <=> y <= x \/ y = x + 1)
        OBVIOUS
      <3>. QED  BY <1>3, <3>1, <3>2
    <2>2. B = A
      BY <2>1
    <2>. QED  BY <1>3, <2>2
  <1>. QED  BY <1>2, <1>3

\* A result with n rows has an n-th row.
LEMMA NthExists ==
  ASSUME NEW S \in SUBSET Keys, NEW n \in 1..Cardinality(S)
  PROVE  Nth(S, n) \in S /\ Cardinality({y \in S : y <= Nth(S, n)}) = n
  <1>0. Cardinality(S) \in Nat /\ MaxKey \in Nat /\ S \subseteq Nat
    BY ResultFinite
  <1> DEFINE C(x) == Cardinality({y \in S : y <= x})
             T == {x \in Nat : C(x) >= n}
  <1>1. {y \in S : y <= MaxKey} = S
    BY ResultFinite
  <1>2. MaxKey \in T
    BY <1>0, <1>1
  <1>3. PICK x \in T : \A y \in T : x <= y
    BY <1>2, LeastRow
  <1>4. C(0) = 0
    <2>1. \A y \in S : ~(y <= 0)
      BY ResultFinite
    <2>2. {y \in S : y <= 0} = {}
      BY <2>1
    <2>. QED  BY <2>2, FS_EmptySet
  <1>5. x \in Nat /\ x # 0 /\ C(x) >= n
    BY <1>0, <1>3, <1>4
  <1>6. x - 1 \in Nat /\ (x - 1) + 1 = x
    BY <1>5
  <1>7. ~(C(x - 1) >= n)
    BY <1>3, <1>6
  <1>8. C(x) \in Nat /\ C(x - 1) \in Nat
    BY <1>5, <1>6, UpToFinite
  <1>9. C(x) = IF x \in S THEN C(x - 1) + 1 ELSE C(x - 1)
    <2>1. LET c == Cardinality({y \in S : y <= x - 1})
              d == Cardinality({y \in S : y <= (x - 1) + 1})
          IN  d = IF (x - 1) + 1 \in S THEN c + 1 ELSE c
      BY <1>6, UpToNext
    <2>. QED  BY <1>6, <2>1
  <1> HIDE DEF C
  <1>10. x \in S /\ C(x) = n
    BY <1>0, <1>5, <1>7, <1>8, <1>9
  <1>11. \E y \in S : Cardinality({z \in S : z <= y}) = n
    BY <1>10 DEF C
  <1>. QED  BY <1>11 DEF Nth

\* There is no row between the n-th and the one after it.
LEMMA NthNext ==
  ASSUME NEW S \in SUBSET Keys, NEW n \in Nat, n >= 1, n + 1 <= Cardinality(S)
  PROVE  /\ Nth(S, n) \in S /\ Nth(S, n + 1) \in S /\ Nth(S, n) < Nth(S, n + 1)
         /\ \A k \in S : k <= Nth(S, n) \/ Nth(S, n + 1) <= k
  <1> DEFINE a == Nth(S, n)
             b == Nth(S, n + 1)
             A == {y \in S : y <= a}
             B == {y \in S : y <= b}
  <1>0. S \subseteq Nat /\ Cardinality(S) \in Nat
    BY ResultFinite
  <1>1. n \in 1..Cardinality(S) /\ n + 1 \in 1..Cardinality(S)
    BY <1>0
  <1>2. a \in S /\ Cardinality(A) = n
    BY <1>1, NthExists
  <1>3. b \in S /\ Cardinality(B) = n + 1
    BY <1>1, NthExists
  <1> HIDE DEF a, b
  <1>4. a \in Nat /\ b \in Nat
    BY <1>0, <1>2, <1>3
  <1>5. IsFiniteSet(A) /\ IsFiniteSet(B)
    BY <1>4, UpToFinite
  <1>6. /\ \A y : y \in A <=> y \in S /\ y <= a
        /\ \A y : y \in B <=> y \in S /\ y <= b
    OBVIOUS
  <1> HIDE DEF A, B
  <1>7. a < b
    <2>1. SUFFICES ASSUME b <= a PROVE FALSE
      BY <1>4
    <2>2. B \subseteq A
      <3> SUFFICES ASSUME NEW y \in B PROVE y \in A
        OBVIOUS
      <3>1. y \in Nat /\ y \in S /\ y <= b
        BY <1>0, <1>6
      <3>2. y <= a
        BY <1>4, <2>1, <3>1
      <3>. QED  BY <1>6, <3>1, <3>2
    <2>3. Cardinality(B) <= Cardinality(A)
      BY <1>5, <2>2, FS_Subset
    <2>. QED  BY <1>2, <1>3, <2>3
  <1>8. ASSUME NEW k \in S, a < k, k < b
        PROVE  FALSE
    <2>0. k \in Nat
      BY <1>0
    <2>1. /\ ~(k <= a) /\ ~(b <= a) /\ k # b /\ k <= b /\ b <= b
          /\ \A y \in Nat : y <= a => y <= b
      BY <1>4, <1>7, <1>8, <2>0
    <2>2. k \notin A
      BY <1>6, <2>1
    <2>3. Cardinality(A \cup {k}) = n + 1
      BY <1>2, <1>5, <2>2, FS_AddElement
    <2>4. b \notin A \cup {k}
      BY <1>6, <2>1
    <2>5. b \notin A \cup {k} /\ A \cup {k} \subseteq B
      BY <1>0, <1>6, <2>1, <2>4
    <2>6. b \in B
      BY <1>3, <1>6, <2>1
    <2>7. IsFiniteSet(B \ {b}) /\ Cardinality(B \ {b}) = (n + 1) - 1
      BY <1>3, <1>5, <2>6, FS_RemoveElement
    <2>8. A \cup {k} \subseteq B \ {b}
      BY <2>5
    <2>9. Cardinality(A \cup {k}) <= Cardinality(B \ {b})
      BY <2>7, <2>8, FS_Subset
    <2>. QED  BY <2>7, <2>9, <2>3
  <1>9. \A k \in S : k <= a \/ b <= k
    BY <1>0, <1>4, <1>8
  <1>. QED  BY <1>2, <1>3, <1>7, <1>9 DEF a, b

\* The first row of a result is before all the others.
LEMMA NthFirst ==
  ASSUME NEW S \in SUBSET Keys, S # {}
  PROVE  Nth(S, 1) \in S /\ \A k \in S : Nth(S, 1) <= k
  <1> DEFINE a == Nth(S, 1)
             A == {y \in S : y <= a}
  <1>0. S \subseteq Nat /\ Cardinality(S) \in Nat /\ IsFiniteSet(S)
    BY ResultFinite
  <1>1. Cardinality(S) # 0
    BY <1>0, FS_EmptySet
  <1>2. 1 \in 1..Cardinality(S)
    BY <1>0, <1>1
  <1>3. a \in S /\ Cardinality(A) = 1
    BY <1>2, NthExists
  <1> HIDE DEF a
  <1>4. IsFiniteSet(A) /\ a \in A /\ a \in Nat
    BY <1>0, <1>3, UpToFinite
  <1>5. ASSUME NEW k \in S, k < a
        PROVE  FALSE
    <2>1. Cardinality(A \ {a}) = 0 /\ IsFiniteSet(A \ {a})
      BY <1>3, <1>4, FS_RemoveElement
    <2>2. k \in A \ {a}
      BY <1>0, <1>4, <1>5
    <2>. QED  BY <2>1, <2>2, FS_EmptySet
  <1>. QED  BY <1>0, <1>3, <1>4, <1>5 DEF a

\* The last row of a result is behind all the others.
LEMMA NthLast ==
  ASSUME NEW S \in SUBSET Keys, S # {}
  PROVE  LET z == Nth(S, Cardinality(S))
         IN  z \in S /\ \A k \in S : k <= z
  <1> DEFINE z == Nth(S, Cardinality(S))
             A == {y \in S : y <= z}
  <1>0. S \subseteq Nat /\ Cardinality(S) \in Nat /\ IsFiniteSet(S)
    BY ResultFinite
  <1>1. Cardinality(S) # 0
    BY <1>0, FS_EmptySet
  <1>2. Cardinality(S) \in 1..Cardinality(S)
    BY <1>0, <1>1
  <1>3. z \in S /\ Cardinality(A) = Cardinality(S)
    BY <1>2, NthExists
  <1> HIDE DEF z
  <1>4. A \subseteq S
    OBVIOUS
  <1>5. A = S
    BY <1>0, <1>3, <1>4, FS_Subset
  <1>. QED  BY <1>3, <1>5 DEF z

-----------------------------------------------------------------------------
(* The invariant *)

\* The variables have their types; the range of the table is known before the
\* first chunk, and only an interrupt puts the whole table behind chunks.
Shape ==
  /\ consistent \in Modes
  /\ split \in BOOLEAN /\ index \in BOOLEAN /\ nullable \in BOOLEAN
  /\ rows \in SUBSET Keys /\ stable \in SUBSET rows
  /\ pc \in {"ranged", "min", "max", "range", "none", "done"}
  /\ begin \in 0..MaxKey /\ end \in 0..MaxKey
  /\ chunks \in Seq(Task)
  /\ interrupted \in BOOLEAN
  /\ pc \in {"max", "range"} => begin \in Keys
  /\ pc = "range" => end \in Keys
  /\ ~interrupted /\ pc \in {"ranged", "min", "max", "none"} => chunks = <<>>
  /\ interrupted => pc \in {"none", "done"}

\* A row that stays is in a chunk or still ahead, and not behind the end.
Kept ==
  /\ pc \in {"max", "range"} =>
       \A k \in stable : begin <= k \/ \E i \in 1..Len(chunks) : k \in chunks[i].keys
  /\ pc = "range" => \A k \in stable : k <= end
  /\ pc = "done" /\ ~interrupted =>
       \A k \in stable : \E i \in 1..Len(chunks) : k \in chunks[i].keys

\* The rows without a key are in the first chunk, and the last one is marked.
Marked ==
  ~interrupted =>
    /\ \A i \in 1..Len(chunks) : /\ chunks[i].null = (nullable /\ i = 1)
                                 /\ chunks[i].last = (i = Len(chunks) /\ pc = "done")
    /\ pc = "done" => chunks # <<>>

\* In a snapshot the end is the last row, and the chunks hold what is before
\* begin.
Snapshot ==
  consistent =>
    /\ pc = "max" => begin \in rows
    /\ pc = "range" =>
         /\ end \in rows /\ begin <= end /\ \A k \in rows : k <= end
         /\ \A i \in 1..Len(chunks) : \A k \in rows : k \in chunks[i].keys => k < begin
    /\ ~interrupted =>
         \A i, j \in 1..Len(chunks) : \A k \in rows :
           i # j => ~(k \in chunks[i].keys /\ k \in chunks[j].keys)

RowsInv == Shape /\ Kept /\ Marked /\ Snapshot

\* What fetch() returns: keys, with no row between the end of this chunk and
\* the beginning of the next; in a snapshot they are rows, until the end.
LEMMA FetchIs ==
  ASSUME Shape, pc = "range"
  PROVE  /\ Fetch(RowsPerChunk) \in Keys /\ Fetch(RowsPerChunk + 1) \in Keys
         /\ \A k \in rows : begin <= k /\ k <= end =>
              k <= Fetch(RowsPerChunk) \/ Fetch(RowsPerChunk + 1) <= k
         /\ end \in rows /\ begin <= end /\ (\A k \in rows : k <= end)
            /\ Fetch(RowsPerChunk) # end =>
              /\ Fetch(RowsPerChunk) < Fetch(RowsPerChunk + 1)
              /\ begin <= Fetch(RowsPerChunk + 1) /\ Fetch(RowsPerChunk + 1) <= end
  <1> DEFINE R == RowsPerChunk
  <1>1. /\ R \in Nat /\ R >= 1 /\ R + 1 \in Nat
    BY KeysAssumption
  <1>2. Found \in SUBSET Keys /\ end \in Keys /\ begin \in Keys
    BY DEF Found, Shape
  <1>3. /\ Cardinality(Found) \in Nat /\ Found \subseteq Nat /\ Keys \subseteq Nat
        /\ rows \subseteq Nat /\ IsFiniteSet(Found)
    <2>1. rows \in SUBSET Keys
      BY DEF Shape
    <2>. QED  BY <1>2, <2>1, ResultFinite
  <1>4. \A k \in rows : begin <= k <=> k \in Found
    BY DEF Found
  <1>5. CASE R + 1 <= Cardinality(Found)
    <2>1. Fetch(R) = Nth(Found, R) /\ Fetch(R + 1) = Nth(Found, R + 1)
      BY <1>1, <1>3, <1>5 DEF Fetch
    <2>2. /\ Nth(Found, R) \in Found /\ Nth(Found, R + 1) \in Found
          /\ Nth(Found, R) < Nth(Found, R + 1)
          /\ \A k \in Found : k <= Nth(Found, R) \/ Nth(Found, R + 1) <= k
      BY <1>1, <1>2, <1>5, NthNext
    <2>3. Fetch(R) \in Found /\ Fetch(R + 1) \in Found /\ Fetch(R) < Fetch(R + 1)
          /\ \A k \in Found : k <= Fetch(R) \/ Fetch(R + 1) <= k
      BY <2>1, <2>2
    <2>4. Found \subseteq rows /\ \A k \in Found : begin <= k
      BY DEF Found
    <2>. QED  BY <1>2, <1>4, <2>3, <2>4
  <1>6. CASE R = Cardinality(Found)
    <2>1. Fetch(R) = Nth(Found, Cardinality(Found)) /\ Fetch(R + 1) = end
      BY <1>1, <1>3, <1>6 DEF Fetch
    <2>2. Found # {}
      BY <1>1, <1>6, FS_EmptySet
    <2>3. Fetch(R) \in Found /\ \A k \in Found : k <= Fetch(R)
      BY <1>2, <2>1, <2>2, NthLast
    <2>4. ASSUME end \in rows, begin <= end, \A k \in rows : k <= end
          PROVE  Fetch(R) = end
      <3>1. end \in Found /\ Fetch(R) \in rows
        BY <2>3, <2>4 DEF Found
      <3>2. end <= Fetch(R) /\ Fetch(R) <= end /\ end \in Nat /\ Fetch(R) \in Nat
        BY <1>3, <2>3, <2>4, <3>1
      <3>. QED  BY <3>2
    <2>5. Fetch(R) \in Keys /\ Fetch(R + 1) \in Keys
      BY <1>2, <2>1, <2>3
    <2>6. \A k \in rows : begin <= k => k <= Fetch(R)
      BY <1>4, <2>3
    <2>. QED  BY <2>4, <2>5, <2>6
  <1>7. CASE R > Cardinality(Found)
    <2>1. Fetch(R) = end /\ Fetch(R + 1) = end
      BY <1>1, <1>3, <1>7 DEF Fetch
    <2>. QED  BY <1>2, <2>1
  <1>8. R + 1 <= Cardinality(Found) \/ R = Cardinality(Found) \/ R > Cardinality(Found)
    BY <1>1, <1>3
  <1>. QED  BY <1>5, <1>6, <1>7, <1>8

\* A task behind those that were pushed.
LEMMA Appended ==
  ASSUME chunks \in Seq(Task), NEW c \in Task, chunks' = Append(chunks, c)
  PROVE  /\ chunks' \in Seq(Task) /\ Len(chunks') = Len(chunks) + 1 /\ Len(chunks) \in Nat
         /\ \A i \in 1..Len(chunks) : chunks'[i] = chunks[i] /\ i \in 1..Len(chunks')
                                      /\ i # Len(chunks')
         /\ Len(chunks') \in 1..Len(chunks') /\ chunks'[Len(chunks')] = c
         /\ chunks' # <<>>
         /\ \A i \in 1..Len(chunks') : i \in 1..Len(chunks) \/ i = Len(chunks')
         /\ chunks = <<>> => Len(chunks') = 1
         /\ chunks # <<>> => Len(chunks') # 1
  OBVIOUS

\* A table that is not split, or has no rows with a key, is one task.
LEMMA WholeTableKeeps ==
  ASSUME RowsInv, pc \in {"ranged", "min", "max", "none"}, chunks' = WholeTable,
         pc' = "done", UNCHANGED <<table, rows, stable, begin, end, interrupted>>
  PROVE  RowsInv'
  <1> DEFINE c == [keys |-> Keys, null |-> nullable, last |-> TRUE]
  <1>1. Shape
    BY DEF RowsInv
  <1>2. c \in Task /\ chunks' = Append(chunks, c) /\ chunks \in Seq(Task)
    BY <1>1 DEF Task, WholeTable, Shape
  <1>3. /\ c.keys = Keys /\ c.null = nullable /\ c.last = TRUE
    OBVIOUS
  <1> HIDE DEF c
  <1>4. /\ chunks' \in Seq(Task) /\ chunks' # <<>>
        /\ Len(chunks') \in 1..Len(chunks') /\ chunks'[Len(chunks')] = c
    BY <1>2, Appended
  <1>5. ~interrupted => chunks = <<>> /\ Len(chunks') = 1
    BY <1>1, <1>2, Appended DEF Shape
  <1>6. Shape'
    BY <1>1, <1>4 DEF Shape, table
  <1>7. stable \subseteq Keys
    BY <1>1 DEF Shape
  <1>8. Kept'
    BY <1>3, <1>4, <1>7 DEF Kept
  <1>9. Marked'
    <2> SUFFICES ASSUME ~interrupted PROVE Marked'
      BY DEF Marked
    <2>1. \A i \in 1..Len(chunks') : i = 1 /\ i = Len(chunks')
      BY <1>5
    <2>2. chunks'[1].null = nullable /\ chunks'[1].last = TRUE
      BY <1>3, <1>4, <1>5
    <2>3. nullable' = nullable /\ nullable \in BOOLEAN
      BY <1>1 DEF table, Shape
    <2>4. ASSUME NEW i \in 1..Len(chunks')
          PROVE  /\ chunks'[i].null = (nullable' /\ i = 1)
                 /\ chunks'[i].last = (i = Len(chunks') /\ pc' = "done")
      <3>1. i = 1 /\ i = Len(chunks') /\ pc' = "done"
        BY <2>1
      <3>. QED  BY <2>2, <2>3, <3>1, Zenon
    <2>. QED  BY <1>4, <2>4 DEF Marked
  <1>10. Snapshot'
    <2>1. ~interrupted => \A i, j \in 1..Len(chunks') : i = j
      <3>1. \A i, j \in 1..1 : i = j
        OBVIOUS
      <3>. QED  BY <1>5, <3>1, Zenon
    <2>2. pc' # "max" /\ pc' # "range"
      OBVIOUS
    <2>. QED  BY <2>1, <2>2 DEF Snapshot
  <1>. QED  BY <1>6, <1>8, <1>9, <1>10 DEF RowsInv

\* A chunk is pushed, and the next one begins behind it.
LEMMA NextRangeKeeps == ASSUME RowsInv, NextRange PROVE RowsInv'
  <1> DEFINE R == RowsPerChunk
             last == Fetch(R) = end
             c == [keys |-> begin..Fetch(R), null |-> nullable /\ chunks = <<>>,
                   last |-> last]
  <1>1. /\ pc = "range" /\ chunks' = Append(chunks, c)
        /\ pc' = (IF last THEN "done" ELSE "range") /\ begin' = Fetch(R + 1)
        /\ UNCHANGED <<table, rows, stable, end, interrupted>>
    BY DEF NextRange, WithChunk
  <1>2. Shape /\ Kept /\ Marked /\ Snapshot
    BY DEF RowsInv
  <1>3. /\ begin \in Keys /\ end \in Keys /\ chunks \in Seq(Task) /\ rows \subseteq Keys
        /\ stable \subseteq rows /\ MaxKey \in Nat
    BY <1>1, <1>2, KeysAssumption DEF Shape
  <1>4. /\ Fetch(R) \in Keys /\ Fetch(R + 1) \in Keys
        /\ \A k \in rows : begin <= k /\ k <= end => k <= Fetch(R) \/ Fetch(R + 1) <= k
        /\ end \in rows /\ begin <= end /\ (\A k \in rows : k <= end)
            /\ Fetch(R) # end =>
              Fetch(R) < Fetch(R + 1) /\ begin <= Fetch(R + 1) /\ Fetch(R + 1) <= end
    BY <1>1, <1>2, FetchIs
  <1>5. last \in BOOLEAN /\ (nullable /\ chunks = <<>>) \in BOOLEAN
    OBVIOUS
  <1>6. Keys \subseteq Nat /\ \A k \in Keys : 1 <= k /\ k <= MaxKey
    BY <1>3 DEF Keys
  <1>7. c \in Task
    <2>1. begin..Fetch(R) \subseteq Keys
      BY <1>3, <1>4 DEF Keys
    <2>. QED  BY <1>5, <2>1 DEF Task
  <1>8. /\ c.keys = begin..Fetch(R) /\ c.null = (nullable /\ chunks = <<>>)
        /\ c.last = last
    OBVIOUS
  <1>9. \A k \in Nat : k \in c.keys <=> begin <= k /\ k <= Fetch(R)
    BY <1>3, <1>4, <1>6, <1>8
  <1> HIDE DEF c
  <1>10. /\ chunks' \in Seq(Task) /\ chunks' # <<>>
         /\ \A i \in 1..Len(chunks) : chunks'[i] = chunks[i] /\ i \in 1..Len(chunks')
                                      /\ i # Len(chunks')
         /\ Len(chunks') \in 1..Len(chunks') /\ chunks'[Len(chunks')] = c
         /\ \A i \in 1..Len(chunks') : i \in 1..Len(chunks) \/ i = Len(chunks')
         /\ chunks = <<>> => Len(chunks') = 1
         /\ chunks # <<>> => Len(chunks') # 1
    BY <1>1, <1>3, <1>7, Appended
  <1>11. Shape'
    <2>1. begin' \in Keys /\ begin' \in 0..MaxKey
      BY <1>1, <1>3, <1>4 DEF Keys
    <2>2. pc' \in {"range", "done"}
      BY <1>1
    <2>. QED  BY <1>1, <1>2, <1>3, <1>10, <2>1, <2>2 DEF Shape, table
  <1>12. Kept'
    <2>1. ASSUME NEW k \in stable
          PROVE  \/ Fetch(R + 1) <= k /\ Fetch(R) # end
                 \/ \E i \in 1..Len(chunks') : k \in chunks'[i].keys
      <3>1. k \in rows /\ k \in Nat /\ k <= end
        BY <1>1, <1>2, <1>3, <1>6 DEF Kept
      <3>2. CASE \E i \in 1..Len(chunks) : k \in chunks[i].keys
        BY <1>10, <3>2
      <3>3. CASE begin <= k
        <4>1. CASE k <= Fetch(R)
          BY <1>9, <1>10, <3>1, <3>3, <4>1
        <4>2. CASE ~(k <= Fetch(R))
          <5>1. Fetch(R + 1) <= k
            BY <1>4, <3>1, <3>3, <4>2
          <5>2. Fetch(R) # end
            BY <3>1, <4>2
          <5>. QED  BY <5>1, <5>2
        <4>. QED  BY <4>1, <4>2
      <3>. QED  BY <1>1, <1>2, <3>2, <3>3 DEF Kept
    <2>2. pc' = "range" => \A k \in stable : k <= end
      BY <1>1, <1>2 DEF Kept
    <2>3. pc' = "done" => Fetch(R) = end
      BY <1>1
    <2>4. pc' # "max"
      BY <1>1
    <2>. QED  BY <1>1, <2>1, <2>2, <2>3, <2>4 DEF Kept
  <1>13. Marked'
    <2> SUFFICES ASSUME ~interrupted, NEW i \in 1..Len(chunks')
                 PROVE  /\ chunks'[i].null = (nullable /\ i = 1)
                        /\ chunks'[i].last = (i = Len(chunks') /\ pc' = "done")
      BY <1>1, <1>10 DEF Marked, table
    <2>1. CASE i = Len(chunks')
      <3>1. chunks = <<>> <=> i = 1
        BY <1>10, <2>1
      <3>2. last <=> pc' = "done"
        BY <1>1
      <3>3. chunks'[i].null = (nullable /\ chunks = <<>>) /\ chunks'[i].last = last
        BY <1>8, <1>10, <2>1
      <3> HIDE DEF last
      <3>. QED  BY <1>5, <2>1, <3>1, <3>2, <3>3, Zenon
    <2>2. CASE i # Len(chunks')
      <3>1. i \in 1..Len(chunks) /\ chunks'[i] = chunks[i]
        BY <1>10, <2>2
      <3>2. chunks[i].null = (nullable /\ i = 1) /\ chunks[i].last = FALSE
        BY <1>1, <1>2, <3>1 DEF Marked
      <3>. QED  BY <2>2, <3>1, <3>2, Zenon
    <2>. QED  BY <2>1, <2>2
  <1>14. Snapshot'
    <2> SUFFICES ASSUME consistent PROVE Snapshot'
      BY <1>1 DEF Snapshot, table
    <2>1. /\ end \in rows /\ begin <= end /\ \A k \in rows : k <= end
          /\ \A i \in 1..Len(chunks) : \A k \in rows : k \in chunks[i].keys => k < begin
          /\ ~interrupted =>
               \A i, j \in 1..Len(chunks) : \A k \in rows :
                 i # j => ~(k \in chunks[i].keys /\ k \in chunks[j].keys)
      BY <1>1, <1>2 DEF Snapshot
    <2>2. \A k \in rows : k \in Nat /\ (k \in c.keys <=> begin <= k /\ k <= Fetch(R))
      BY <1>3, <1>6, <1>9
    <2>3. begin \in Nat /\ Fetch(R) \in Nat /\ Fetch(R + 1) \in Nat
      BY <1>3, <1>4, <1>6
    <2>4. ASSUME pc' = "range"
          PROVE  /\ begin' <= end /\ begin <= begin' /\ Fetch(R) < begin'
      <3>1. Fetch(R) # end
        BY <1>1, <2>4
      <3>2. Fetch(R) < Fetch(R + 1) /\ begin <= Fetch(R + 1) /\ Fetch(R + 1) <= end
        BY <1>4, <2>1, <3>1
      <3>. QED  BY <1>1, <3>2
    <2>5. ASSUME pc' = "range", NEW i \in 1..Len(chunks'), NEW k \in rows,
                 k \in chunks'[i].keys
          PROVE  k < begin'
      <3>1. CASE i = Len(chunks')
        BY <1>1, <1>10, <2>2, <2>3, <2>4, <2>5, <3>1
      <3>2. CASE i # Len(chunks')
        <4>1. k < begin
          BY <1>10, <2>1, <2>5, <3>2
        <4>. QED  BY <1>1, <2>2, <2>3, <2>4, <2>5, <4>1
      <3>. QED  BY <3>1, <3>2
    <2>6. ASSUME ~interrupted, NEW i \in 1..Len(chunks'), NEW j \in 1..Len(chunks'),
                 NEW k \in rows, i # j, k \in chunks'[i].keys, k \in chunks'[j].keys
          PROVE  FALSE
      <3>1. CASE i # Len(chunks') /\ j # Len(chunks')
        BY <1>10, <2>1, <2>6, <3>1
      <3>2. CASE i = Len(chunks')
        <4>1. begin <= k
          BY <1>10, <2>2, <2>6, <3>2
        <4>2. k < begin
          BY <1>10, <2>1, <2>6, <3>2
        <4>. QED  BY <2>2, <2>3, <4>1, <4>2
      <3>3. CASE j = Len(chunks')
        <4>1. begin <= k
          BY <1>10, <2>2, <2>6, <3>3
        <4>2. k < begin
          BY <1>10, <2>1, <2>6, <3>3
        <4>. QED  BY <2>2, <2>3, <4>1, <4>2
      <3>. QED  BY <3>1, <3>2, <3>3
    <2>7. pc' # "max"
      BY <1>1
    <2>. QED  BY <1>1, <2>1, <2>4, <2>5, <2>6, <2>7 DEF Snapshot, table
  <1>. QED  BY <1>11, <1>12, <1>13, <1>14 DEF RowsInv

\* The steps of the worker before the first chunk, and an interrupt.
LEMMA OtherStepsKeep ==
  ASSUME RowsInv, CreateRangedTasks \/ EmptyTable \/ SelectMin \/ SelectMax \/ Interrupt
                  \/ CreateWholeTable
  PROVE  RowsInv'
  <1>1. Shape /\ Kept /\ Marked /\ Snapshot
    BY DEF RowsInv
  <1>2. rows \in SUBSET Keys /\ stable \subseteq rows /\ Keys \subseteq Nat
    BY <1>1, KeysAssumption DEF Shape, Keys
  <1>3. CASE CreateWholeTable \/ EmptyTable \/ (CreateRangedTasks /\ split /\ ~index)
    <2>1. /\ pc \in {"ranged", "min", "max", "none"} /\ chunks' = WholeTable
          /\ pc' = "done" /\ UNCHANGED <<table, rows, stable, begin, end, interrupted>>
      BY <1>3 DEF CreateWholeTable, EmptyTable, CreateRangedTasks
    <2>. QED  BY <2>1, WholeTableKeeps
  <1>4. CASE CreateRangedTasks /\ ~(split /\ ~index)
    <2>1. /\ pc = "ranged" /\ pc' \in {"none", "min"}
          /\ UNCHANGED <<table, rows, stable, begin, end, interrupted, chunks>>
      BY <1>4 DEF CreateRangedTasks
    <2>2. Shape'
      BY <1>1, <2>1 DEF Shape, table
    <2>3. Kept'
      BY <2>1 DEF Kept
    <2>4. Marked'
      BY <1>1, <2>1 DEF Marked, table
    <2>5. Snapshot'
      BY <1>1, <2>1 DEF Snapshot, table
    <2>. QED  BY <2>2, <2>3, <2>4, <2>5 DEF RowsInv
  <1>5. CASE SelectMin
    <2>1. /\ pc = "min" /\ rows # {} /\ begin' = Nth(rows, 1) /\ pc' = "max"
          /\ UNCHANGED <<table, rows, stable, end, interrupted, chunks>>
      BY <1>5 DEF SelectMin
    <2>2. begin' \in rows /\ \A k \in rows : begin' <= k
      BY <1>2, <2>1, NthFirst
    <2>3. Shape'
      <3>1. begin' \in Keys /\ begin' \in 0..MaxKey
        BY <1>2, <2>2, KeysAssumption DEF Keys
      <3>. QED  BY <1>1, <2>1, <3>1 DEF Shape, table
    <2>4. Kept'
      BY <1>2, <2>1, <2>2 DEF Kept
    <2>5. Marked'
      BY <1>1, <2>1 DEF Marked, table
    <2>6. Snapshot'
      BY <1>1, <2>1, <2>2 DEF Snapshot, table
    <2>. QED  BY <2>3, <2>4, <2>5, <2>6 DEF RowsInv
  <1>6. CASE SelectMax
    <2>1. /\ pc = "max" /\ rows # {} /\ end' = Nth(rows, Cardinality(rows))
          /\ pc' = "range"
          /\ UNCHANGED <<table, rows, stable, begin, interrupted, chunks>>
      BY <1>6 DEF SelectMax
    <2>2. end' \in rows /\ \A k \in rows : k <= end'
      BY <1>2, <2>1, NthLast
    <2>3. Shape'
      <3>1. end' \in Keys /\ end' \in 0..MaxKey
        BY <1>2, <2>2, KeysAssumption DEF Keys
      <3>. QED  BY <1>1, <2>1, <3>1 DEF Shape, table
    <2>4. Kept'
      BY <1>1, <1>2, <2>1, <2>2 DEF Kept
    <2>5. Marked'
      BY <1>1, <2>1 DEF Marked, table
    <2>6. Snapshot'
      <3>1. consistent => begin \in rows
        BY <1>1, <2>1 DEF Snapshot
      <3>2. chunks = <<>>
        BY <1>1, <2>1 DEF Shape
      <3>3. \A i \in 1..Len(chunks) : FALSE
        BY <3>2
      <3>. QED  BY <1>1, <2>1, <2>2, <3>1, <3>3 DEF Snapshot, table
    <2>. QED  BY <2>3, <2>4, <2>5, <2>6 DEF RowsInv
  <1>7. CASE Interrupt
    <2>1. /\ pc' = "none" /\ interrupted' = TRUE
          /\ UNCHANGED <<table, rows, stable, begin, end, chunks>>
      BY <1>7 DEF Interrupt
    <2>2. Shape'
      BY <1>1, <2>1 DEF Shape, table
    <2>3. Kept' /\ Marked' /\ Snapshot'
      BY <2>1 DEF Kept, Marked, Snapshot
    <2>. QED  BY <2>2, <2>3 DEF RowsInv
  <1>. QED  BY <1>3, <1>4, <1>5, <1>6, <1>7

\* Rows come and go.
LEMMA ChangesKeep ==
  ASSUME RowsInv, Insert \/ Delete \/ UNCHANGED vars
  PROVE  RowsInv'
  <1>1. Shape /\ Kept /\ Marked /\ Snapshot
    BY DEF RowsInv
  <1>2. CASE Insert \/ Delete
    <2>1. /\ ~consistent /\ pc # "done" /\ UNCHANGED <<table, pc, begin, end, chunks, interrupted>>
          /\ rows' \in SUBSET Keys /\ stable' \in SUBSET rows' /\ stable' \subseteq stable
      <3>1. rows \in SUBSET Keys /\ stable \in SUBSET rows
        BY <1>1 DEF Shape
      <3>2. CASE Insert
        BY <3>1, <3>2 DEF Insert
      <3>3. CASE Delete
        BY <3>1, <3>3 DEF Delete
      <3>. QED  BY <1>2, <3>2, <3>3
    <2>2. Shape'
      BY <1>1, <2>1 DEF Shape, table
    <2>3. Kept'
      BY <1>1, <2>1 DEF Kept
    <2>4. Marked' /\ Snapshot'
      BY <1>1, <2>1 DEF Marked, Snapshot, table
    <2>. QED  BY <2>2, <2>3, <2>4 DEF RowsInv
  <1>3. CASE UNCHANGED vars
    <2>1. UNCHANGED <<table, rows, stable, pc, begin, end, chunks, interrupted>>
      BY <1>3 DEF vars
    <2>2. Shape' /\ Kept' /\ Marked'
      BY <1>1, <2>1 DEF Shape, Kept, Marked, table
    <2>3. Snapshot'
      BY <1>1, <2>1 DEF Snapshot, table
    <2>. QED  BY <2>2, <2>3 DEF RowsInv
  <1>. QED  BY <1>2, <1>3

\* The tasks of a table hold what they should, however many keys and rows per
\* chunk there are: rows that stay are in a task, in a snapshot in one only, rows
\* without a key are in the first task, and exactly the last one is marked.
THEOREM RowsCorrect == Spec => []RowsKept
  <1>1. Init => RowsInv
    <2> SUFFICES ASSUME Init PROVE RowsInv
      OBVIOUS
    <2>1. Len(chunks) = 0 /\ chunks \in Seq(Task) /\ chunks = <<>>
      BY DEF Init
    <2>2. \A i \in 1..Len(chunks) : FALSE
      BY <2>1
    <2>3. Shape
      <3>1. 0 \in 0..MaxKey
        BY KeysAssumption
      <3>. QED  BY <2>1, <3>1, Zenon DEF Init, Shape
    <2>4. Kept /\ Marked /\ Snapshot
      BY <2>2 DEF Init, Kept, Marked, Snapshot
    <2>. QED  BY <2>3, <2>4 DEF RowsInv
  <1>2. RowsInv /\ [Next]_vars => RowsInv'
    BY NextRangeKeeps, OtherStepsKeep, ChangesKeep DEF Next, WorkerStep
  <1>3. RowsInv => RowsKept
    <2> SUFFICES ASSUME RowsInv PROVE RowsKept
      OBVIOUS
    <2>1. Shape /\ Kept /\ Marked /\ Snapshot
      BY DEF RowsInv
    <2>2. /\ DOMAIN chunks = 1..Len(chunks) /\ \A i \in 1..Len(chunks) : chunks[i] \in Task
      BY <2>1 DEF Shape
    <2>3. TypeOK
      BY <2>1, <2>2 DEF Shape, TypeOK
    <2>4. StableRowsKept
      <3> SUFFICES ASSUME pc = "done", ~interrupted, nullable
                   PROVE  Cardinality({i \in DOMAIN chunks : chunks[i].null}) = 1
        BY <2>1, <2>2 DEF StableRowsKept, Kept
      <3>1. chunks # <<>> /\ \A i \in 1..Len(chunks) : chunks[i].null = (nullable /\ i = 1)
        BY <2>1 DEF Marked
      <3>2. 1 \in 1..Len(chunks)
        BY <2>1, <3>1 DEF Shape
      <3>3. {i \in DOMAIN chunks : chunks[i].null} = {1}
        BY <2>2, <3>1, <3>2, Zenon
      <3>. QED  BY <3>3, FS_Singleton
    <2>5. NoRowTwice
      BY <2>1, <2>2 DEF NoRowTwice, Snapshot
    <2>6. LastMarked
      BY <2>1, <2>2 DEF LastMarked, Marked
    <2>. QED  BY <2>3, <2>4, <2>5, <2>6 DEF RowsKept
  <1>. QED  BY <1>1, <1>2, <1>3, PTL DEF Spec

=============================================================================
