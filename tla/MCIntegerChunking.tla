-------------------------- MODULE MCIntegerChunking --------------------------
(* Instances of IntegerChunking for TLC. *)
EXTENDS IntegerChunking

\* With 20 rows per chunk, 10 either way: none, few, nearly enough, enough,
\* too many, and far too many.
Estimates == {0, 5, 12, 20, 31, 70}

\* An unsigned and a signed type of three bits.
ThreeBits == {<<0, 7>>, <<-4, 3>>}
=============================================================================
