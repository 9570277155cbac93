------------------------- MODULE MCSynchronizedQueue -------------------------
(* Values for the constants of SynchronizedQueue that a cfg cannot express. *)
EXTENDS SynchronizedQueue, TLC

CONSTANTS p1, p2, c1, c2

\* Two elements per producer, with equal and with different priorities.
MCScript == p1 :> <<3, 3>> @@ p2 :> <<3, 4>>
============================================================================
