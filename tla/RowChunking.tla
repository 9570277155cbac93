----------------------------- MODULE RowChunking -----------------------------
(***************************************************************************)
(* How the dumper splits a table into chunks along an index that is not of *)
(* integers: Table_worker::create_ranged_tasks(), chunk_column() and       *)
(* chunk_non_integer_column() of src/modules/util/dump/dumper.cc.          *)
(*                                                                         *)
(* Every chunk begins where a query with an offset has ended the one       *)
(* before.  With the option "consistent" off, rows come and go between the *)
(* queries; the promise is then about the rows that stay.  Rows without a  *)
(* key (an index column is NULL) belong to the first chunk.                *)
(*                                                                         *)
(* Keys stand for the values of the index in its order; NULL is one more   *)
(* row, which stays.                                                       *)
(***************************************************************************)
EXTENDS Naturals, FiniteSets, Sequences

CONSTANTS
  MaxKey,         \* keys are 1..MaxKey
  RowsPerChunk,   \* info.rows_per_chunk
  Modes,          \* what m_options.consistent_dump() may be
  MaxChunks       \* bound: chunks that are looked at

ASSUME KeysAssumption == /\ MaxKey \in Nat \ {0} /\ RowsPerChunk \in Nat \ {0}
                         /\ MaxChunks \in Nat
ASSUME ModesAssumption == Modes \subseteq BOOLEAN

VARIABLES
  consistent,   \* whether the queries see one snapshot
  split,        \* m_options.split()
  index,        \* table.index.info is set
  nullable,     \* the index is not a primary key and may hold NULL
  rows,         \* the keys that the server would see now
  stable,       \* the ones that were there all the time
  pc,           \* the query that comes next
  begin, end,   \* range_begin, end
  chunks,       \* the data tasks that were pushed, in their order
  interrupted   \* m_worker_interrupt was seen

table == <<consistent, split, index, nullable>>
vars == <<table, rows, stable, pc, begin, end, chunks, interrupted>>

Keys == 1..MaxKey

\* The keys a task selects, whether it selects NULL, whether it is the last.
Task == [keys : SUBSET Keys, null : BOOLEAN, last : BOOLEAN]

Init ==
  /\ consistent \in Modes
  /\ split \in BOOLEAN /\ index \in BOOLEAN /\ nullable \in BOOLEAN
  /\ rows \in SUBSET Keys /\ stable = rows
  /\ pc = "ranged"
  /\ begin = 0 /\ end = 0
  /\ chunks = <<>>
  /\ interrupted = FALSE

\* create_and_push_table_data_chunk_task(): "OR column IS NULL" is added to
\* the chunk with the number zero.
WithChunk(lo, hi, last) ==
  Append(chunks, [keys |-> lo..hi,
                  null |-> nullable /\ chunks = <<>>,
                  last |-> last])

WholeTable == Append(chunks, [keys |-> Keys, null |-> nullable, last |-> TRUE])

\* create_ranged_tasks() and the beginning of chunk_column(): without an index
\* one task writes the whole table, to several files.
CreateRangedTasks ==
  /\ pc = "ranged"
  /\ \/ /\ ~split
        /\ pc' = "none" /\ UNCHANGED chunks
     \/ /\ split /\ ~index
        /\ pc' = "done" /\ chunks' = WholeTable
     \/ /\ split /\ index
        /\ pc' = "min" /\ UNCHANGED chunks
  /\ UNCHANGED <<table, rows, stable, begin, end, interrupted>>

\* chunk_column() finds no row that has a key: a single task, without a range.
EmptyTable ==
  /\ pc \in {"min", "max"}
  /\ rows = {}
  /\ chunks' = WholeTable
  /\ pc' = "done"
  /\ UNCHANGED <<table, rows, stable, begin, end, interrupted>>

Nth(S, n) == CHOOSE x \in S : Cardinality({y \in S : y <= x}) = n

SelectMin ==
  /\ pc = "min" /\ rows # {}
  /\ begin' = Nth(rows, 1)
  /\ pc' = "max"
  /\ UNCHANGED <<table, rows, stable, end, chunks, interrupted>>

SelectMax ==
  /\ pc = "max" /\ rows # {}
  /\ end' = Nth(rows, Cardinality(rows))
  /\ pc' = "range"
  /\ UNCHANGED <<table, rows, stable, begin, chunks, interrupted>>

\* The rows that a query finds from begin on.
Found == {k \in rows : begin <= k}

\* The lambda fetch(): a row of the result, the end of the table otherwise.
Fetch(n) == IF n <= Cardinality(Found) THEN Nth(Found, n) ELSE end

\* MUTANT: the next chunk begins where this one has ended.
NextRangeOverlaps ==
  /\ pc = "range" /\ Len(chunks) < MaxChunks
  /\ chunks' = WithChunk(begin, Fetch(RowsPerChunk), Fetch(RowsPerChunk) = end)
  /\ begin' = Fetch(RowsPerChunk)
  /\ pc' = IF Fetch(RowsPerChunk) = end THEN "done" ELSE "range"
  /\ UNCHANGED <<table, rows, stable, end, interrupted>>

\* An iteration of chunk_non_integer_column(): "LIMIT n - 1, 2" finds the last
\* row of this chunk and the first one of the next.
NextRange ==
  /\ pc = "range"
  /\ Len(chunks) < MaxChunks
  /\ LET last == Fetch(RowsPerChunk) = end
     IN  /\ chunks' = WithChunk(begin, Fetch(RowsPerChunk), last)
         /\ pc' = IF last THEN "done" ELSE "range"
  /\ begin' = Fetch(RowsPerChunk + 1)
  /\ UNCHANGED <<table, rows, stable, end, interrupted>>

\* The interrupt is noticed after the query; the number of ranges is then 0.
Interrupt ==
  /\ pc = "range" /\ pc' = "none"
  /\ interrupted' = TRUE
  /\ UNCHANGED <<table, rows, stable, begin, end, chunks>>

\* create_table_data_tasks_impl(): no ranges, so the whole table is one task.
CreateWholeTable ==
  /\ pc = "none" /\ pc' = "done"
  /\ chunks' = WholeTable
  /\ UNCHANGED <<table, rows, stable, begin, end, interrupted>>

Insert ==
  /\ ~consistent /\ pc # "done"
  /\ \E k \in Keys \ rows : rows' = rows \union {k}
  /\ UNCHANGED <<table, stable, pc, begin, end, chunks, interrupted>>

Delete ==
  /\ ~consistent /\ pc # "done"
  /\ \E k \in rows : rows' = rows \ {k} /\ stable' = stable \ {k}
  /\ UNCHANGED <<table, pc, begin, end, chunks, interrupted>>

WorkerStep ==
  \/ CreateRangedTasks
  \/ EmptyTable
  \/ SelectMin
  \/ SelectMax
  \/ NextRange
  \/ CreateWholeTable

Next == WorkerStep \/ Interrupt \/ Insert \/ Delete

Spec == Init /\ [][Next]_vars

-----------------------------------------------------------------------------
(* Properties *)

\* The variables have their types, and only rows of the table are stable.
TypeOK ==
  /\ consistent \in Modes
  /\ split \in BOOLEAN /\ index \in BOOLEAN /\ nullable \in BOOLEAN
  /\ rows \subseteq Keys /\ stable \subseteq rows
  /\ pc \in {"ranged", "min", "max", "range", "none", "done"}
  /\ begin \in 0..MaxKey /\ end \in 0..MaxKey
  /\ DOMAIN chunks = 1..Len(chunks)
  /\ \A i \in DOMAIN chunks : chunks[i] \in Task
  /\ interrupted \in BOOLEAN

\* A row that is in the table all the time is not missed, also when the rows
\* around it come and go between the queries; a row without a key is selected
\* by exactly one of the tasks.
StableRowsKept ==
  pc = "done" /\ ~interrupted =>
    /\ \A k \in stable : \E i \in DOMAIN chunks : k \in chunks[i].keys
    /\ nullable => Cardinality({i \in DOMAIN chunks : chunks[i].null}) = 1

\* In a snapshot no row is selected by two tasks: the dump holds it once.
NoRowTwice ==
  consistent /\ ~interrupted =>
    \A i, j \in DOMAIN chunks :
      i # j => chunks[i].keys \intersect chunks[j].keys \intersect rows = {}

\* The loader takes a table to be complete when it has all the chunks up to
\* the one that is marked as the last: that is the last one pushed, and no
\* other.
LastMarked ==
  ~interrupted =>
    \A i \in DOMAIN chunks : chunks[i].last <=> i = Len(chunks) /\ pc = "done"

\* The tasks of a table hold what they should: all of the above.
RowsKept == TypeOK /\ StableRowsKept /\ NoRowTwice /\ LastMarked
=============================================================================
