-------------------------- MODULE MCCircularBuffer -------------------------
(* The ring on a size small enough for every position to be reached.       *)
EXTENDS CircularBuffer
=============================================================================
