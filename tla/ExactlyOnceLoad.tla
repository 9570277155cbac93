--------------------------- MODULE ExactlyOnceLoad ---------------------------
(***************************************************************************)
(* What loading the data of a dump promises, whatever happens to the loader *)
(* on the way: every row of every data file ends up on the server once.     *)
(* Rows may be there early and a table may be emptied and started over, as  *)
(* long as the load is not complete; once it is, the data stays as it is.   *)
(***************************************************************************)
EXTENDS Naturals

CONSTANTS
  Tables,     \* tables of the dump
  Chunks,     \* data files; the first element of a chunk is its part
  TableOf,    \* the table of a part
  NumRows     \* rows in each data file

VARIABLES
  rows,       \* rows[c][r]: copies of row r of chunk c on the server
  complete    \* util.load_dump() has reported success

vars == <<rows, complete>>

NoRows == [r \in 1..NumRows |-> 0]

Init == rows = [c \in Chunks |-> NoRows] /\ complete = FALSE

\* Some rows of some data files are committed; the ones already there stay.
Add ==
  /\ ~complete
  /\ \E new \in [Chunks -> SUBSET (1..NumRows)] :
       rows' = [c \in Chunks |->
                  [r \in 1..NumRows |-> IF r \in new[c] THEN 1 ELSE rows[c][r]]]
  /\ UNCHANGED complete

StartOver(t) ==
  /\ ~complete
  /\ rows' = [c \in Chunks |-> IF TableOf[c[1]] = t THEN NoRows ELSE rows[c]]
  /\ UNCHANGED complete

Finish ==
  /\ \A c \in Chunks : \A r \in 1..NumRows : rows[c][r] = 1
  /\ complete' = TRUE
  /\ UNCHANGED rows

Next == Finish \/ Add \/ (\E t \in Tables : StartOver(t))

Spec == Init /\ [][Next]_vars
============================================================================
