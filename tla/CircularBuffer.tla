--------------------------- MODULE CircularBuffer --------------------------
(***************************************************************************)
(* The receive buffer of the network layer (nbiotcircularbuffer.h): a ring *)
(* of MaxSize bytes with a head, a tail and a full flag that tells the     *)
(* full ring from the empty one.                                           *)
(***************************************************************************)
EXTENDS Naturals, Sequences, SequencesExt

CONSTANTS
  Bytes,    \* byte values
  MaxSize,  \* max_size
  Lengths   \* lengths passed to the block operations; none of them is 0

ASSUME BufferAssumption ==
  /\ MaxSize \in Nat \ {0}
  /\ 1 \in Lengths /\ Lengths \subseteq 1 .. MaxSize + 1

VARIABLES
  ring,    \* m_head, m_tail and m_full
  buffer,  \* m_buffer
  call     \* the last call: operation, argument and result

vars == <<ring, buffer, call>>

Call(op, arg, ret) == [op |-> op, arg |-> arg, ret |-> ret]

Index == 0 .. MaxSize - 1

\* reset() leaves m_buffer as it is, and the constructor calls nothing else:
\* the memory starts with whatever it holds.
Emptied == [head |-> 0, tail |-> 0, full |-> FALSE]

Init ==
  /\ ring = Emptied
  /\ buffer \in [Index -> Bytes]
  /\ call = Call("reset", <<>>, TRUE)

empty == ~ring.full /\ ring.head = ring.tail

size ==
  IF ring.full THEN MaxSize
  ELSE IF ring.head >= ring.tail THEN ring.head - ring.tail
       ELSE MaxSize + ring.head - ring.tail

capacity == MaxSize - size

\* Mutant: the full flag is never set.
advanceNeverFull(r, count) == [r EXCEPT !.head = (r.head + count) % MaxSize]

advance(r, count) ==
  LET h == (r.head + count) % MaxSize
      t == IF r.full THEN (r.tail + count) % MaxSize ELSE r.tail
  IN  [head |-> h, tail |-> t, full |-> h = t]

\* Mutant: the full flag is not cleared.
retreatStaysFull(r, count) == [r EXCEPT !.tail = (r.tail + count) % MaxSize]

retreat(r, count) ==
  [r EXCEPT !.full = FALSE, !.tail = (r.tail + count) % MaxSize]

\* memcpy() of the bytes s into the buffer b at position at.
Copied(b, at, s) ==
  [i \in Index |-> IF i >= at /\ i < at + Len(s) THEN s[i - at + 1] ELSE b[i]]

\* memcpy() of n bytes out of the buffer at position at.
Slice(at, n) == [i \in 1..n |-> buffer[at + i - 1]]

----------------------------------------------------------------------------

reset ==
  /\ ring' = Emptied
  /\ call' = Call("reset", <<>>, TRUE)
  /\ UNCHANGED buffer

put(data) ==
  /\ ~ring.full
  /\ buffer' = [buffer EXCEPT ![ring.head] = data]
  /\ ring' = advance(ring, 1)
  /\ call' = Call("put", <<data>>, TRUE)

\* put(data, len): in one piece, or up to the end and then from the start.
putBlock(s) ==
  /\ capacity >= Len(s)
  /\ \/ /\ MaxSize - ring.head > Len(s)
        /\ buffer' = Copied(buffer, ring.head, s)
        /\ ring' = advance(ring, Len(s))
     \/ /\ MaxSize - ring.head <= Len(s)
        /\ LET l1 == MaxSize - ring.head
               r1 == advance(ring, l1)
           IN /\ buffer' = Copied(Copied(buffer, ring.head, SubSeq(s, 1, l1)),
                                  r1.head, SubSeq(s, l1 + 1, Len(s)))
              /\ ring' = advance(r1, Len(s) - l1)
  /\ call' = Call("put", s, TRUE)

get ==
  /\ ~empty
  /\ call' = Call("get", 1, <<buffer[ring.tail]>>)
  /\ ring' = retreat(ring, 1)
  /\ UNCHANGED buffer

getBlock(len) ==
  /\ size >= len
  /\ \/ /\ MaxSize - ring.tail > len
        /\ call' = Call("get", len, Slice(ring.tail, len))
        /\ ring' = retreat(ring, len)
     \/ /\ MaxSize - ring.tail <= len
        /\ LET l1 == MaxSize - ring.tail
               r1 == retreat(ring, l1)
           IN /\ call' = Call("get", len, Slice(ring.tail, l1) \o Slice(r1.tail, len - l1))
              /\ ring' = retreat(r1, len - l1)
  /\ UNCHANGED buffer

\* put() returns false: the bytes s do not fit.
putRefused(s) ==
  /\ capacity < Len(s)
  /\ call' = Call("put", s, FALSE)
  /\ UNCHANGED <<ring, buffer>>

\* get() returns false: there are fewer than len bytes.
getRefused(len) ==
  /\ size < len
  /\ call' = Call("get", len, FALSE)
  /\ UNCHANGED <<ring, buffer>>

\* The blocks of the given lengths, up to one that never fits.
Blocks == {s \in BoundedSeq(Bytes, MaxSize + 1) : Len(s) \in Lengths}

Next ==
  \/ reset
  \/ \E b \in Bytes : put(b)
  \/ \E s \in Blocks : putBlock(s) \/ putRefused(s)
  \/ get
  \/ \E n \in Lengths : getBlock(n) \/ getRefused(n)

Spec == Init /\ [][Next]_vars

----------------------------------------------------------------------------
(* Properties                                                              *)

(***************************************************************************)
(* Type invariant of the ring, with the one fact that gives the full flag  *)
(* its meaning: it is only set when head and tail have met.                *)
(***************************************************************************)
RingOK ==
  /\ ring \in [head : Index, tail : Index, full : BOOLEAN]
  /\ ring.full => ring.head = ring.tail
  /\ buffer \in [Index -> Bytes]

\* The bytes in the buffer, oldest first.
Contents == [i \in 1..size |-> buffer[(ring.tail + i - 1) % MaxSize]]

Queue == INSTANCE ByteQueue WITH queue <- Contents, Capacity <- MaxSize

\* The ring implements the queue: first in, first out, nothing lost,
\* duplicated or invented, whatever the positions and block lengths.
QueueSpec == Queue!Spec
=============================================================================
