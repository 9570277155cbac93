--------------------------- MODULE MCLoadScheduler ---------------------------
(* Values for the constants of LoadScheduler that a cfg cannot express.     *)
EXTENDS LoadScheduler, TLC

CONSTANTS w1, w2, w3, t1, t2, p1, p2

\* Two chunks in the first part.
MCNumChunks == p1 :> 2 @@ p2 :> 1

\* Both parts are partitions of the first table.
MCOneTable  == p1 :> t1 @@ p2 :> t1

\* One table of three data files.
MCTableOf1   == p1 :> t1
MCNumChunks1 == p1 :> 3

\* The indexes of the first table take two threads, those of the second more
\* threads than there are.
MCHeavy     == t1 :> 2 @@ t2 :> 5
MCWeight1   == t1 :> 2

\* What an earlier run has loaded: the second part, or the first of the files.
MCPrev      == {<<p2, 0>>}
MCPrev1     == {<<p1, 0>>}

\* The workers are interchangeable.
Symmetry == Permutations(Workers)
============================================================================
