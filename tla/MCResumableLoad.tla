--------------------------- MODULE MCResumableLoad ---------------------------
(* Values for the constants of ResumableLoad that a cfg cannot express.     *)
EXTENDS ResumableLoad, TLC

CONSTANTS w1, w2, t1, t2, p1, p2

\* One part per table, with one data file each.
MCTableOf   == p1 :> t1 @@ p2 :> t2
MCOneEach   == p1 :> 1 @@ p2 :> 1

\* One table, with two data files.
MCTableOf1  == p1 :> t1
MCTwoChunks == p1 :> 2

\* The workers are interchangeable.
Symmetry == Permutations(Workers)
============================================================================
