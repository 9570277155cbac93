----------------------------- MODULE MCCopyPipe -----------------------------
(* Instances of CopyPipe for TLC. *)
EXTENDS CopyPipe

\* Rows that fit, that fill the buffer, that exceed it and that exceed the
\* transaction, in every order.
Tables == UNION {[1..n -> {1, 2, 3, 6}] : n \in 0..3}
=============================================================================
