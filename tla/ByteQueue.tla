----------------------------- MODULE ByteQueue -----------------------------
(***************************************************************************)
(* What a receive buffer promises: bytes leave it in the order in which    *)
(* they came, none is lost or invented, and it never holds more than       *)
(* Capacity of them.  CircularBuffer implements it.                        *)
(***************************************************************************)
EXTENDS Naturals, Sequences, SequencesExt

CONSTANTS
  Bytes,     \* byte values
  Capacity,  \* how many bytes fit
  Lengths    \* how many bytes are put or got at a time

VARIABLES
  queue,  \* the bytes in the buffer, oldest first
  call    \* the last operation: what was asked for and what came of it

vars == <<queue, call>>

\* A call of operation op with the argument arg, answered by ret.
Call(op, arg, ret) == [op |-> op, arg |-> arg, ret |-> ret]

Init == queue = <<>> /\ call = Call("reset", <<>>, TRUE)

Put(s) ==
  IF Len(queue) + Len(s) <= Capacity
  THEN queue' = queue \o s /\ call' = Call("put", s, TRUE)
  ELSE UNCHANGED queue /\ call' = Call("put", s, FALSE)

Get(n) ==
  IF n <= Len(queue)
  THEN /\ queue' = SubSeq(queue, n + 1, Len(queue))
       /\ call' = Call("get", n, SubSeq(queue, 1, n))
  ELSE UNCHANGED queue /\ call' = Call("get", n, FALSE)

Reset == queue' = <<>> /\ call' = Call("reset", <<>>, TRUE)

Next ==
  \/ \E n \in Lengths, s \in BoundedSeq(Bytes, Capacity + 1) : Len(s) = n /\ Put(s)
  \/ \E n \in Lengths : Get(n)
  \/ Reset

Spec == Init /\ [][Next]_vars
=============================================================================
