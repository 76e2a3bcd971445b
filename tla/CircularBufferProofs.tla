------------------------ MODULE CircularBufferProofs -----------------------
(***************************************************************************)
(* Proofs about the receive ring, for every size and every set of block    *)
(* lengths without 0.                                                      *)
(***************************************************************************)
EXTENDS CircularBuffer, SequenceTheorems, TLAPS

\* A position is always taken modulo the size of the ring.
LEMMA Wrapped == \A n \in Nat : n % MaxSize \in Index
  BY BufferAssumption DEF Index

\* The blocks are sequences of bytes.
LEMMA BlockIsSeq == ASSUME NEW s \in Blocks PROVE s \in Seq(Bytes) /\ Len(s) \in Nat
  BY DEF Blocks, BoundedSeq, SeqOf

Rings == [head : Index, tail : Index, full : BOOLEAN]
Sound(r) == r \in Rings /\ (r.full => r.head = r.tail)

\* advance() keeps the positions in range and sets the flag when they meet.
LEMMA AdvanceSound ==
  ASSUME NEW r \in Rings, NEW n \in Nat
  PROVE  Sound(advance(r, n))
<1>1. r.head \in Nat /\ r.tail \in Nat
  BY BufferAssumption DEF Rings, Index
<1>2. (r.head + n) % MaxSize \in Index /\ (r.tail + n) % MaxSize \in Index
  BY <1>1, Wrapped
<1> QED
  BY <1>2 DEF advance, Sound, Rings

\* retreat() keeps the positions in range and clears the flag.
LEMMA RetreatSound ==
  ASSUME NEW r \in Rings, NEW n \in Nat
  PROVE  Sound(retreat(r, n))
<1>1. r.tail \in Nat
  BY BufferAssumption DEF Rings, Index
<1>2. (r.tail + n) % MaxSize \in Index
  BY <1>1, Wrapped
<1> QED
  BY <1>2 DEF retreat, Sound, Rings

\* memcpy() of bytes into the buffer leaves a buffer of bytes.
LEMMA CopiedIsBuffer ==
  ASSUME NEW b \in [Index -> Bytes], NEW at \in Index, NEW s \in Seq(Bytes)
  PROVE  Copied(b, at, s) \in [Index -> Bytes]
<1> SUFFICES ASSUME NEW i \in Index, i >= at, i < at + Len(s)
             PROVE  s[i - at + 1] \in Bytes
  BY DEF Copied
<1>1. i - at + 1 \in 1..Len(s)
  BY BufferAssumption DEF Index
<1> QED
  BY <1>1

\* Every operation keeps the ring sound and the buffer full of bytes.
LEMMA RingStep == RingOK /\ [Next]_vars => RingOK'
<1> SUFFICES ASSUME RingOK, [Next]_vars PROVE RingOK'
  OBVIOUS
<1>1. Sound(ring) /\ buffer \in [Index -> Bytes]
  BY DEF RingOK, Sound, Rings
<1>2. /\ ring \in Rings /\ ring.head \in Index /\ ring.tail \in Index
      /\ ring.head \in Nat /\ ring.head < MaxSize
      /\ ring.tail \in Nat /\ ring.tail < MaxSize
  BY <1>1, BufferAssumption DEF Sound, Rings, Index
<1>3. SUFFICES Sound(ring') /\ buffer' \in [Index -> Bytes]
  BY DEF RingOK, Sound, Rings
<1>4. CASE reset
  BY <1>1, <1>4, BufferAssumption DEF reset, Emptied, Sound, Rings, Index
<1>5. ASSUME NEW b \in Bytes, put(b) PROVE Sound(ring') /\ buffer' \in [Index -> Bytes]
  BY <1>1, <1>2, <1>5, AdvanceSound DEF put
<1>6. ASSUME NEW s \in Blocks, putBlock(s)
      PROVE  Sound(ring') /\ buffer' \in [Index -> Bytes]
  <2>1. s \in Seq(Bytes) /\ Len(s) \in Nat
    BY BlockIsSeq
  <2>2. CASE MaxSize - ring.head > Len(s)
    <3>1. ring' = advance(ring, Len(s)) /\ buffer' = Copied(buffer, ring.head, s)
      BY <1>6, <1>2, <2>1, <2>2, BufferAssumption DEF putBlock
    <3> QED
      BY <1>1, <1>2, <2>1, <3>1, AdvanceSound, CopiedIsBuffer
  <2>3. CASE MaxSize - ring.head <= Len(s)
    <3> DEFINE l1 == MaxSize - ring.head
               r1 == advance(ring, l1)
    <3>1. /\ buffer' = Copied(Copied(buffer, ring.head, SubSeq(s, 1, l1)),
                              r1.head, SubSeq(s, l1 + 1, Len(s)))
          /\ ring' = advance(r1, Len(s) - l1)
      BY <1>6, <1>2, <2>1, <2>3, BufferAssumption DEF putBlock
    <3>2. l1 \in 1..Len(s) /\ l1 \in Nat /\ Len(s) - l1 \in Nat
      BY <1>2, <2>1, <2>3, BufferAssumption
    <3>3. Sound(r1)
      BY <1>2, <3>2, AdvanceSound
    <3>4. r1 \in Rings /\ r1.head \in Index
      BY <3>3 DEF Sound, Rings
    <3>5. Sound(ring')
      BY <3>1, <3>2, <3>4, AdvanceSound
    <3>6. SubSeq(s, 1, l1) \in Seq(Bytes) /\ SubSeq(s, l1 + 1, Len(s)) \in Seq(Bytes)
      BY <2>1, <3>2
    <3>7. Copied(buffer, ring.head, SubSeq(s, 1, l1)) \in [Index -> Bytes]
      BY <1>1, <1>2, <3>6, CopiedIsBuffer
    <3> HIDE DEF l1, r1
    <3> QED
      BY <3>1, <3>4, <3>5, <3>6, <3>7, CopiedIsBuffer
  <2> QED
    BY <1>2, <2>1, <2>2, <2>3, BufferAssumption
<1>7. CASE get
  BY <1>1, <1>2, <1>7, RetreatSound DEF get
<1>8. ASSUME NEW n \in Lengths, getBlock(n)
      PROVE  Sound(ring') /\ buffer' \in [Index -> Bytes]
  <2>1. n \in Nat
    BY BufferAssumption
  <2>2. CASE MaxSize - ring.tail > n
    BY <1>1, <1>2, <1>8, <2>1, <2>2, RetreatSound, BufferAssumption DEF getBlock
  <2>3. CASE MaxSize - ring.tail <= n
    <3> DEFINE l1 == MaxSize - ring.tail
    <3>1. ring' = retreat(retreat(ring, l1), n - l1)
      BY <1>2, <1>8, <2>1, <2>3, BufferAssumption DEF getBlock
    <3>2. l1 \in Nat /\ n - l1 \in Nat
      BY <1>2, <2>1, <2>3, BufferAssumption
    <3>3. retreat(ring, l1) \in Rings
      BY <1>2, <3>2, RetreatSound DEF Sound
    <3> QED
      BY <1>1, <1>8, <3>1, <3>2, <3>3, RetreatSound DEF getBlock
  <2> QED
    BY <1>2, <2>1, <2>2, <2>3, BufferAssumption
<1>9. ASSUME NEW s \in Blocks, putRefused(s)
      PROVE  Sound(ring') /\ buffer' \in [Index -> Bytes]
  BY <1>1, <1>9 DEF putRefused
<1>10. ASSUME NEW n \in Lengths, getRefused(n)
       PROVE  Sound(ring') /\ buffer' \in [Index -> Bytes]
  BY <1>1, <1>10 DEF getRefused
<1>11. CASE UNCHANGED vars
  BY <1>1, <1>11 DEF vars
<1> QED
  BY <1>4, <1>5, <1>6, <1>7, <1>8, <1>9, <1>10, <1>11 DEF Next

(***************************************************************************)
(* m_head and m_tail never leave the buffer, and m_full is only set when   *)
(* they have met: no memcpy() of put() or get() starts outside m_buffer,   *)
(* whatever the size of the ring and the lengths of the blocks.            *)
(***************************************************************************)
THEOREM RingCorrect == Spec => []RingOK
<1>1. Init => RingOK
  BY BufferAssumption DEF Init, RingOK, Emptied, Index
<1>2. RingOK /\ [Next]_vars => RingOK'
  BY RingStep
<1> QED
  BY <1>1, <1>2, PTL DEF Spec

----------------------------------------------------------------------------
(* The ring as a queue.  SizeOf and BytesOf are size and Contents of any   *)
(* ring, Laid is the buffer after the bytes s were put at the head.        *)

SizeOf(r) ==
  IF r.full THEN MaxSize
  ELSE IF r.head >= r.tail THEN r.head - r.tail ELSE MaxSize + r.head - r.tail
BytesOf(r, b) == [i \in 1..SizeOf(r) |-> b[(r.tail + i - 1) % MaxSize]]
Laid(b, h, s) ==
  [p \in Index |-> IF h <= p /\ p < h + Len(s) THEN s[p - h + 1]
                   ELSE IF p + MaxSize < h + Len(s) THEN s[p + MaxSize - h + 1]
                   ELSE b[p]]
Wrap(n) == IF n < MaxSize THEN n ELSE n - MaxSize
\* q is the ring r after n bytes were put into it, where they fit.
Advanced(r, q, n) ==
  Sound(q) /\ q.tail = r.tail /\ q.head = Wrap(r.head + n) /\ (q.full <=> q.head = q.tail)
\* q is the ring r after n bytes were got from it.
Retreated(r, q, n) ==
  Sound(q) /\ q.head = r.head /\ q.tail = Wrap(r.tail + n) /\ ~q.full

\* A position less than two rings from the start wraps once at most.
LEMMA WrapOnce ==
  ASSUME NEW n \in Nat, n < 2 * MaxSize
  PROVE  n % MaxSize = Wrap(n)
<1>1. MaxSize \in Nat /\ MaxSize > 0
  BY BufferAssumption
<1>2. CASE n < MaxSize
  BY <1>1, <1>2 DEF Wrap
<1>3. CASE ~(n < MaxSize)
  <2>1. \A a, b \in Int : b > 0 /\ b <= a /\ a < 2 * b => a % b = a - b
    BY Z3
  <2> QED
    BY <1>1, <1>3, <2>1 DEF Wrap
<1> QED
  BY <1>2, <1>3

\* Head and tail as numbers, and where the head is.
LEMMA RingFacts ==
  ASSUME NEW r, Sound(r)
  PROVE  /\ MaxSize \in Nat /\ MaxSize > 0
         /\ r.head \in Nat /\ r.head < MaxSize /\ r.tail \in Nat /\ r.tail < MaxSize
         /\ SizeOf(r) \in Nat /\ SizeOf(r) <= MaxSize
         /\ r.head = Wrap(r.tail + SizeOf(r))
         /\ SizeOf(r) = MaxSize <=> r.full
<1>1. /\ MaxSize \in Nat /\ MaxSize > 0
      /\ r.head \in Nat /\ r.head < MaxSize /\ r.tail \in Nat /\ r.tail < MaxSize
  BY BufferAssumption DEF Sound, Rings, Index
<1>2. CASE r.full
  <2>1. SizeOf(r) = MaxSize /\ r.head = r.tail
    BY <1>2 DEF SizeOf, Sound
  <2> QED
    BY <1>1, <1>2, <2>1 DEF Wrap
<1>3. CASE ~r.full
  <2>1. SizeOf(r) = IF r.head >= r.tail THEN r.head - r.tail ELSE MaxSize + r.head - r.tail
    BY <1>3 DEF SizeOf
  <2>2. SizeOf(r) # MaxSize
    BY <1>1, <2>1
  <2>3. /\ SizeOf(r) \in Nat /\ SizeOf(r) <= MaxSize
        /\ r.head = Wrap(r.tail + SizeOf(r))
    BY <1>1, <2>1 DEF Wrap
  <2> QED
    BY <1>1, <1>3, <2>2, <2>3
<1> QED
  BY <1>2, <1>3

\* The bytes of a ring, by position.
LEMMA BytesAre ==
  ASSUME NEW r, Sound(r), NEW b \in [Index -> Bytes]
  PROVE  /\ BytesOf(r, b) \in Seq(Bytes) /\ Len(BytesOf(r, b)) = SizeOf(r)
         /\ \A i \in 1..SizeOf(r) : /\ BytesOf(r, b)[i] = b[Wrap(r.tail + i - 1)]
                                    /\ Wrap(r.tail + i - 1) \in Index
<1>1. /\ MaxSize \in Nat /\ MaxSize > 0 /\ r.tail \in Nat /\ r.tail < MaxSize
      /\ SizeOf(r) \in Nat /\ SizeOf(r) <= MaxSize
  BY RingFacts
<1>2. ASSUME NEW i \in 1..SizeOf(r)
      PROVE  /\ (r.tail + i - 1) % MaxSize = Wrap(r.tail + i - 1)
             /\ Wrap(r.tail + i - 1) \in Index
  <2>1. r.tail + i - 1 \in Nat /\ r.tail + i - 1 < 2 * MaxSize
    BY <1>1
  <2>2. (r.tail + i - 1) % MaxSize = Wrap(r.tail + i - 1)
    BY <2>1, WrapOnce
  <2>3. Wrap(r.tail + i - 1) \in Index
    BY <1>1, <2>1 DEF Wrap, Index
  <2> QED
    BY <2>2, <2>3
<1>3. \A i \in 1..SizeOf(r) : BytesOf(r, b)[i] = b[Wrap(r.tail + i - 1)]
  BY <1>2 DEF BytesOf
<1>4. \A i \in 1..SizeOf(r) : b[(r.tail + i - 1) % MaxSize] \in Bytes
  BY <1>2
<1>5. BytesOf(r, b) \in Seq(Bytes) /\ Len(BytesOf(r, b)) = SizeOf(r)
  BY <1>1, <1>4 DEF BytesOf
<1> QED
  BY <1>2, <1>3, <1>5

\* The size grows by what was put.
LEMMA AdvancedSize ==
  ASSUME NEW r, Sound(r), NEW k \in Nat, k > 0, SizeOf(r) + k <= MaxSize,
         NEW q, Advanced(r, q, k)
  PROVE  SizeOf(q) = SizeOf(r) + k
<1> DEFINE n == SizeOf(r)
<1>1. /\ MaxSize \in Nat /\ MaxSize > 0 /\ n \in Nat /\ n + k <= MaxSize
      /\ r.head \in Nat /\ r.head < MaxSize /\ r.tail \in Nat /\ r.tail < MaxSize
      /\ r.head = Wrap(r.tail + n) /\ q.head = Wrap(r.head + k) /\ q.tail = r.tail
  BY RingFacts DEF Advanced
<1> HIDE DEF n
<1>2. /\ r.head = (IF r.tail + n < MaxSize THEN r.tail + n ELSE r.tail + n - MaxSize)
      /\ q.head = (IF r.head + k < MaxSize THEN r.head + k ELSE r.head + k - MaxSize)
      /\ q.head \in Int /\ q.tail \in Int
  BY <1>1 DEF Wrap
<1>3. CASE q.full
  <2>1. SizeOf(q) = MaxSize /\ q.head = q.tail
    BY <1>3 DEF SizeOf, Advanced
  <2> QED
    BY <1>1, <1>2, <2>1 DEF n
<1>4. CASE ~q.full
  <2>1. /\ SizeOf(q) = IF q.head >= q.tail THEN q.head - q.tail
                       ELSE MaxSize + q.head - q.tail
        /\ q.head # q.tail
    BY <1>4 DEF SizeOf, Advanced
  <2> QED
    BY <1>1, <1>2, <2>1 DEF n
<1> QED
  BY <1>3, <1>4

\* Where the k bytes after the first n of a ring with tail t are: the i-th
\* place is one of them only if i is past n.
LEMMA Places ==
  ASSUME NEW t \in Nat, t < MaxSize, NEW n \in Nat, NEW k \in Nat, n + k <= MaxSize,
         NEW i \in 1..n + k, NEW h, h = Wrap(t + n), NEW p, p = Wrap(t + i - 1)
  PROVE  /\ i <= n => ~(h <= p /\ p < h + k) /\ ~(p + MaxSize < h + k)
         /\ ~(i <= n) => \/ h <= p /\ p < h + k /\ p - h + 1 = i - n
                         \/ ~(h <= p) /\ p + MaxSize < h + k /\ p + MaxSize - h + 1 = i - n
<1>1. MaxSize \in Nat
  BY BufferAssumption
<1> QED
  BY <1>1 DEF Wrap

\* Bytes laid at the head come after the bytes that were there.
LEMMA PutAppends ==
  ASSUME NEW r, Sound(r), NEW b \in [Index -> Bytes],
         NEW s \in Seq(Bytes), Len(s) > 0, SizeOf(r) + Len(s) <= MaxSize,
         NEW q, Advanced(r, q, Len(s)), Laid(b, r.head, s) \in [Index -> Bytes]
  PROVE  BytesOf(q, Laid(b, r.head, s)) = BytesOf(r, b) \o s
<1> DEFINE c == Laid(b, r.head, s)
           n == SizeOf(r)
           k == Len(s)
<1>1. /\ MaxSize \in Nat /\ n \in Nat /\ r.tail \in Nat /\ r.tail < MaxSize
      /\ r.head = Wrap(r.tail + n) /\ k \in Nat /\ n + k <= MaxSize
  BY RingFacts
<1>2. SizeOf(q) = n + k
  BY <1>1, AdvancedSize
<1>3. /\ BytesOf(q, c) \in Seq(Bytes) /\ Len(BytesOf(q, c)) = n + k
      /\ \A i \in 1..n + k : /\ BytesOf(q, c)[i] = c[Wrap(r.tail + i - 1)]
                             /\ Wrap(r.tail + i - 1) \in Index
  BY <1>2, BytesAre DEF Advanced
<1>4. /\ BytesOf(r, b) \in Seq(Bytes) /\ Len(BytesOf(r, b)) = n
      /\ \A i \in 1..n : BytesOf(r, b)[i] = b[Wrap(r.tail + i - 1)]
  BY BytesAre
<1>5. /\ BytesOf(r, b) \o s \in Seq(Bytes) /\ Len(BytesOf(r, b) \o s) = n + k
      /\ \A i \in 1..n + k : (BytesOf(r, b) \o s)[i] =
                               IF i <= n THEN BytesOf(r, b)[i] ELSE s[i - n]
  <2> DEFINE u == BytesOf(r, b)
  <2>1. u \in Seq(Bytes) /\ Len(u) = n
    BY <1>4
  <2> HIDE DEF u, n
  <2>2. /\ u \o s \in Seq(Bytes) /\ Len(u \o s) = n + k
        /\ \A i \in 1..n + k : (u \o s)[i] = IF i <= n THEN u[i] ELSE s[i - n]
    BY <2>1, ConcatProperties, Zenon
  <2> QED
    BY <2>2 DEF u
<1>6. ASSUME NEW i \in 1..n + k PROVE BytesOf(q, c)[i] = (BytesOf(r, b) \o s)[i]
  <2> DEFINE p == Wrap(r.tail + i - 1)
  <2>1. p \in Index /\ BytesOf(q, c)[i] = c[p]
    BY <1>3, <1>6
  <2>2. c[p] = IF r.head <= p /\ p < r.head + k THEN s[p - r.head + 1]
               ELSE IF p + MaxSize < r.head + k THEN s[p + MaxSize - r.head + 1] ELSE b[p]
    BY <2>1 DEF Laid
  <2>3. p = Wrap(r.tail + i - 1)
    OBVIOUS
  <2> HIDE DEF p, n, k, c
  <2>4. /\ i <= n => ~(r.head <= p /\ p < r.head + k) /\ ~(p + MaxSize < r.head + k)
        /\ ~(i <= n) => \/ r.head <= p /\ p < r.head + k /\ p - r.head + 1 = i - n
                        \/ /\ ~(r.head <= p) /\ p + MaxSize < r.head + k
                           /\ p + MaxSize - r.head + 1 = i - n
    BY <1>1, <2>3, Places
  <2>5. CASE i <= n
    <3>1. c[p] = b[p]
      BY <2>2, <2>4, <2>5
    <3>2. (BytesOf(r, b) \o s)[i] = b[p]
      BY <1>1, <1>4, <1>5, <2>5 DEF p
    <3> QED
      BY <2>1, <3>1, <3>2
  <2>6. CASE ~(i <= n)
    <3>1. c[p] = s[i - n]
      BY <2>2, <2>4, <2>6
    <3>2. (BytesOf(r, b) \o s)[i] = s[i - n]
      BY <1>5, <2>6
    <3> QED
      BY <2>1, <3>1, <3>2
  <2> QED
    BY <2>5, <2>6
<1> HIDE DEF c, n, k
<1>7. BytesOf(q, c) = BytesOf(r, b) \o s
  BY <1>1, <1>3, <1>5, <1>6, SeqEqual
<1> QED
  BY <1>7 DEF c

\* The size shrinks by what was got.
LEMMA RetreatedSize ==
  ASSUME NEW r, Sound(r), NEW k \in Nat, k > 0, k <= SizeOf(r), NEW q, Retreated(r, q, k)
  PROVE  SizeOf(q) = SizeOf(r) - k
<1> DEFINE n == SizeOf(r)
<1>1. /\ MaxSize \in Nat /\ MaxSize > 0 /\ n \in Nat /\ n <= MaxSize /\ k <= n
      /\ r.head \in Nat /\ r.head < MaxSize /\ r.tail \in Nat /\ r.tail < MaxSize
      /\ r.head = Wrap(r.tail + n) /\ q.tail = Wrap(r.tail + k) /\ q.head = r.head
  BY RingFacts DEF Retreated
<1> HIDE DEF n
<1>2. /\ r.head = (IF r.tail + n < MaxSize THEN r.tail + n ELSE r.tail + n - MaxSize)
      /\ q.tail = (IF r.tail + k < MaxSize THEN r.tail + k ELSE r.tail + k - MaxSize)
      /\ q.head \in Int /\ q.tail \in Int
  BY <1>1 DEF Wrap
<1>3. SizeOf(q) = IF q.head >= q.tail THEN q.head - q.tail ELSE MaxSize + q.head - q.tail
  BY DEF SizeOf, Retreated
<1> QED
  BY <1>1, <1>2, <1>3 DEF n

\* The places of a ring after k bytes are gone.
LEMMA PlacesLeft ==
  ASSUME NEW t \in Nat, t < MaxSize, NEW k \in Nat, NEW n \in Nat, k <= n, n <= MaxSize,
         NEW i \in 1..n - k
  PROVE  Wrap(Wrap(t + k) + i - 1) = Wrap(t + (k + i) - 1)
<1>1. MaxSize \in Nat
  BY BufferAssumption
<1> QED
  BY <1>1 DEF Wrap

\* What is got leaves the front of the queue.
LEMMA GetRemoves ==
  ASSUME NEW r, Sound(r), NEW b \in [Index -> Bytes],
         NEW k \in Nat, k > 0, k <= SizeOf(r), NEW q, Retreated(r, q, k)
  PROVE  BytesOf(q, b) = SubSeq(BytesOf(r, b), k + 1, Len(BytesOf(r, b)))
<1> DEFINE n == SizeOf(r)
           u == BytesOf(r, b)
           v == BytesOf(q, b)
<1>1. /\ MaxSize \in Nat /\ n \in Nat /\ n <= MaxSize /\ k <= n
      /\ r.tail \in Nat /\ r.tail < MaxSize /\ q.tail = Wrap(r.tail + k)
  BY RingFacts DEF Retreated
<1>2. SizeOf(q) = n - k
  BY RetreatedSize
<1>3. /\ v \in Seq(Bytes) /\ Len(v) = n - k
      /\ \A i \in 1..n - k : v[i] = b[Wrap(Wrap(r.tail + k) + i - 1)]
  BY <1>1, <1>2, BytesAre DEF Retreated
<1>4. /\ u \in Seq(Bytes) /\ Len(u) = n
      /\ \A i \in 1..n : u[i] = b[Wrap(r.tail + i - 1)]
  BY BytesAre
<1> HIDE DEF n, u, v
<1>5. /\ SubSeq(u, k + 1, n) \in Seq(Bytes) /\ Len(SubSeq(u, k + 1, n)) = n - k
      /\ \A i \in 1..n - k : SubSeq(u, k + 1, n)[i] = u[k + i]
  BY <1>1, <1>4
<1>6. ASSUME NEW i \in 1..n - k PROVE v[i] = SubSeq(u, k + 1, n)[i]
  <2>1. v[i] = b[Wrap(r.tail + (k + i) - 1)]
    BY <1>1, <1>3, PlacesLeft
  <2>2. k + i \in 1..n
    BY <1>1
  <2>3. u[k + i] = b[Wrap(r.tail + (k + i) - 1)]
    BY <1>4, <2>2
  <2> QED
    BY <1>5, <2>1, <2>3
<1>7. v = SubSeq(u, k + 1, n)
  BY <1>1, <1>3, <1>5, <1>6, SeqEqual
<1> QED
  BY <1>4, <1>7 DEF u, v

\* memcpy() out of the buffer, in one piece or in two, gives the front of the
\* queue.
LEMMA GetAnswers ==
  ASSUME Sound(ring), buffer \in [Index -> Bytes],
         NEW k \in Nat, k > 0, k <= SizeOf(ring)
  PROVE  /\ MaxSize - ring.tail >= k =>
              SubSeq(BytesOf(ring, buffer), 1, k) = Slice(ring.tail, k)
         /\ MaxSize - ring.tail <= k =>
              SubSeq(BytesOf(ring, buffer), 1, k) =
                Slice(ring.tail, MaxSize - ring.tail) \o Slice(0, k - (MaxSize - ring.tail))
<1> DEFINE n == SizeOf(ring)
           u == BytesOf(ring, buffer)
           l1 == MaxSize - ring.tail
<1>1. /\ MaxSize \in Nat /\ n \in Nat /\ n <= MaxSize /\ k <= n
      /\ ring.tail \in Nat /\ ring.tail < MaxSize /\ l1 \in Nat
  BY RingFacts
<1>2. /\ u \in Seq(Bytes) /\ Len(u) = n
      /\ \A i \in 1..n : u[i] = buffer[Wrap(ring.tail + i - 1)]
  BY BytesAre
<1>3. l1 = MaxSize - ring.tail
  OBVIOUS
<1> HIDE DEF n, u, l1
<1>4. /\ SubSeq(u, 1, k) \in Seq(Bytes) /\ Len(SubSeq(u, 1, k)) = k
      /\ \A i \in 1..k : SubSeq(u, 1, k)[i] = buffer[Wrap(ring.tail + i - 1)]
  BY <1>1, <1>2
<1>5. ASSUME NEW at \in Nat, NEW j \in Nat, at + j <= MaxSize
      PROVE  /\ Slice(at, j) \in Seq(Bytes) /\ Len(Slice(at, j)) = j
             /\ \A i \in 1..j : Slice(at, j)[i] = buffer[at + i - 1]
  <2>1. \A i \in 1..j : at + i - 1 \in Index
    BY <1>1, <1>5 DEF Index
  <2>2. \A i \in 1..j : buffer[at + i - 1] \in Bytes
    BY <2>1
  <2>3. Slice(at, j) \in Seq(Bytes) /\ Len(Slice(at, j)) = j
    BY <2>2 DEF Slice
  <2>4. \A i \in 1..j : Slice(at, j)[i] = buffer[at + i - 1]
    BY DEF Slice
  <2> QED
    BY <2>3, <2>4
<1>6. ASSUME l1 >= k PROVE SubSeq(u, 1, k) = Slice(ring.tail, k)
  <2>1. ring.tail + k <= MaxSize
    BY <1>1, <1>3, <1>6
  <2>2. /\ Slice(ring.tail, k) \in Seq(Bytes) /\ Len(Slice(ring.tail, k)) = k
        /\ \A i \in 1..k : Slice(ring.tail, k)[i] = buffer[ring.tail + i - 1]
    BY <1>1, <1>5, <2>1
  <2>3. \A i \in 1..k : Wrap(ring.tail + i - 1) = ring.tail + i - 1
    BY <1>1, <2>1 DEF Wrap
  <2> QED
    BY <1>4, <2>2, <2>3, SeqEqual
<1>7. ASSUME l1 <= k PROVE SubSeq(u, 1, k) = Slice(ring.tail, l1) \o Slice(0, k - l1)
  <2> DEFINE x == Slice(ring.tail, l1)
             y == Slice(0, k - l1)
  <2>1. k - l1 \in Nat /\ 0 + (k - l1) <= MaxSize /\ ring.tail + l1 <= MaxSize
    BY <1>1, <1>3, <1>7
  <2>2. /\ x \in Seq(Bytes) /\ Len(x) = l1
        /\ \A i \in 1..l1 : x[i] = buffer[ring.tail + i - 1]
    BY <1>1, <1>5, <2>1
  <2>3. /\ y \in Seq(Bytes) /\ Len(y) = k - l1
        /\ \A i \in 1..k - l1 : y[i] = buffer[0 + i - 1]
    BY <1>1, <1>5, <2>1
  <2> HIDE DEF x, y
  <2>4. x \o y \in Seq(Bytes) /\ Len(x \o y) = k
    <3>1. x \o y \in Seq(Bytes) /\ Len(x \o y) = l1 + (k - l1)
      BY <2>2, <2>3, ConcatProperties, Zenon
    <3> QED
      BY <1>1, <3>1
  <2>5. ASSUME NEW i \in 1..k PROVE (x \o y)[i] = buffer[Wrap(ring.tail + i - 1)]
    <3>1. CASE i <= l1
      <4>1. (x \o y)[i] = x[i] /\ i \in 1..l1
        BY <1>1, <2>1, <2>2, <2>3, <3>1
      <4>2. Wrap(ring.tail + i - 1) = ring.tail + i - 1
        BY <1>1, <1>3, <3>1 DEF Wrap
      <4> QED
        BY <2>2, <4>1, <4>2
    <3>2. CASE ~(i <= l1)
      <4>1. (x \o y)[i] = y[i - l1] /\ i - l1 \in 1..k - l1
        BY <1>1, <2>1, <2>2, <2>3, <3>2
      <4>2. Wrap(ring.tail + i - 1) = 0 + (i - l1) - 1
        BY <1>1, <1>3, <3>2 DEF Wrap
      <4> QED
        BY <2>3, <4>1, <4>2
    <3> QED
      BY <3>1, <3>2
  <2>6. SubSeq(u, 1, k) = x \o y
    BY <1>4, <2>4, <2>5, SeqEqual
  <2> QED
    BY <2>6 DEF x, y
<1> QED
  BY <1>6, <1>7 DEF u, l1

\* advance() on a ring with room.
LEMMA AdvanceIs ==
  ASSUME NEW r, Sound(r), ~r.full, NEW k \in Nat, k <= MaxSize
  PROVE  Advanced(r, advance(r, k), k)
<1>1. /\ MaxSize \in Nat /\ r.head \in Nat /\ r.head < MaxSize /\ r \in Rings
  BY RingFacts DEF Sound
<1>2. (r.head + k) % MaxSize = Wrap(r.head + k)
  BY <1>1, WrapOnce
<1>3. Sound(advance(r, k))
  BY <1>1, AdvanceSound
<1>4. /\ advance(r, k).head = Wrap(r.head + k) /\ advance(r, k).tail = r.tail
      /\ advance(r, k).full = (advance(r, k).head = advance(r, k).tail)
  BY <1>2 DEF advance
<1> QED
  BY <1>3, <1>4 DEF Advanced

\* advance() up to the end of the buffer and then from its start: the ring may
\* be full after the first of the two, if nothing is left for the second.
LEMMA AdvanceTwice ==
  ASSUME NEW r, Sound(r), ~r.full, NEW k \in Nat, SizeOf(r) + k <= MaxSize,
         NEW l1, l1 = MaxSize - r.head, l1 <= k
  PROVE  /\ advance(r, l1).head = 0
         /\ Advanced(r, advance(advance(r, l1), k - l1), k)
<1> DEFINE r1 == advance(r, l1)
           r2 == advance(r1, k - l1)
<1>1. /\ MaxSize \in Nat /\ MaxSize > 0 /\ r.head \in Nat /\ r.head < MaxSize
      /\ r.tail \in Nat /\ r.tail < MaxSize /\ SizeOf(r) \in Nat
  BY RingFacts
<1>2. /\ l1 \in Nat /\ l1 <= MaxSize /\ k - l1 \in Nat /\ k - l1 <= r.head
      /\ Wrap(r.head + l1) = 0 /\ Wrap(r.head + k) = k - l1
  BY <1>1 DEF Wrap
<1>3. Advanced(r, r1, l1)
  BY <1>2, AdvanceIs
<1>4. r1.head = 0 /\ r1.tail = r.tail /\ Sound(r1) /\ (r1.full <=> r1.head = r1.tail)
  BY <1>2, <1>3 DEF Advanced
<1>5. Sound(r2)
  BY <1>2, <1>4, AdvanceSound DEF Sound
<1>6. (k - l1) % MaxSize = k - l1
  BY <1>1, <1>2, WrapOnce DEF Wrap
<1> HIDE DEF r1
<1>7. /\ r2.head = (r1.head + (k - l1)) % MaxSize
      /\ r2.tail = IF r1.full THEN (r1.tail + (k - l1)) % MaxSize ELSE r1.tail
      /\ r2.full = (r2.head = r2.tail)
  BY DEF advance
<1> HIDE DEF r2
<1>8. 0 + (k - l1) = k - l1
  BY <1>2
<1>9. r2.head = k - l1
  BY <1>4, <1>6, <1>7, <1>8
<1>10. r2.tail = r.tail
  <2>1. CASE r1.full
    <3>1. r.tail = 0
      BY <1>4, <2>1
    <3>2. SizeOf(r) = r.head
      <4>1. SizeOf(r) = IF r.head >= r.tail THEN r.head - r.tail ELSE MaxSize + r.head - r.tail
        BY DEF SizeOf
      <4> QED
        BY <1>1, <3>1, <4>1
    <3>3. k - l1 = 0
      BY <1>1, <1>2, <3>2
    <3>4. 0 + 0 = 0 /\ 0 % MaxSize = 0
      BY <1>1
    <3>5. r2.tail = (r1.tail + (k - l1)) % MaxSize
      BY <1>7, <2>1
    <3> QED
      BY <1>4, <3>1, <3>3, <3>4, <3>5
  <2>2. CASE ~r1.full
    BY <1>4, <1>7, <2>2
  <2> QED
    BY <2>1, <2>2
<1>11. Advanced(r, r2, k)
  BY <1>2, <1>5, <1>7, <1>9, <1>10 DEF Advanced
<1> QED
  BY <1>4, <1>11 DEF r1, r2

\* retreat(), in one step or in two.
LEMMA RetreatIs ==
  ASSUME NEW r, Sound(r), NEW k \in Nat, k <= MaxSize
  PROVE  Retreated(r, retreat(r, k), k)
<1>1. /\ MaxSize \in Nat /\ r.tail \in Nat /\ r.tail < MaxSize /\ r \in Rings
  BY RingFacts DEF Sound
<1>2. (r.tail + k) % MaxSize = Wrap(r.tail + k)
  BY <1>1, WrapOnce
<1>3. Sound(retreat(r, k))
  BY <1>1, RetreatSound
<1>4. /\ retreat(r, k).head = r.head /\ retreat(r, k).tail = Wrap(r.tail + k)
      /\ retreat(r, k).full = FALSE
  BY <1>1, <1>2 DEF retreat, Rings
<1> QED
  BY <1>3, <1>4 DEF Retreated

LEMMA RetreatTwice ==
  ASSUME NEW r, Sound(r), NEW k \in Nat, k <= MaxSize,
         NEW l1, l1 = MaxSize - r.tail, l1 <= k
  PROVE  /\ retreat(r, l1).tail = 0
         /\ Retreated(r, retreat(retreat(r, l1), k - l1), k)
<1> DEFINE r1 == retreat(r, l1)
           r2 == retreat(r1, k - l1)
<1>1. /\ MaxSize \in Nat /\ MaxSize > 0 /\ r.tail \in Nat /\ r.tail < MaxSize
  BY RingFacts
<1>2. /\ l1 \in Nat /\ l1 <= MaxSize /\ k - l1 \in Nat /\ k - l1 <= MaxSize
      /\ Wrap(r.tail + l1) = 0 /\ Wrap(r.tail + k) = k - l1 /\ Wrap(0 + (k - l1)) = k - l1
  BY <1>1 DEF Wrap
<1>3. Retreated(r, r1, l1)
  BY <1>2, RetreatIs
<1>4. r1.tail = 0 /\ r1.head = r.head /\ Sound(r1)
  BY <1>2, <1>3 DEF Retreated
<1> HIDE DEF r1
<1>5. Retreated(r1, r2, k - l1)
  BY <1>2, <1>4, RetreatIs
<1> HIDE DEF r2
<1>6. Retreated(r, r2, k)
  BY <1>2, <1>4, <1>5 DEF Retreated
<1> QED
  BY <1>4, <1>6 DEF r1, r2

\* memcpy() in one piece or in two lays the bytes at the head.
LEMMA CopiedIsLaid ==
  ASSUME NEW b \in [Index -> Bytes], NEW h \in Index, NEW s \in Seq(Bytes),
         Len(s) <= MaxSize
  PROVE  /\ MaxSize - h >= Len(s) => Copied(b, h, s) = Laid(b, h, s)
         /\ MaxSize - h <= Len(s) =>
              Copied(Copied(b, h, SubSeq(s, 1, MaxSize - h)), 0,
                     SubSeq(s, MaxSize - h + 1, Len(s))) = Laid(b, h, s)
<1> DEFINE k == Len(s)
           l1 == MaxSize - h
           x == SubSeq(s, 1, l1)
           y == SubSeq(s, l1 + 1, k)
<1>1. /\ MaxSize \in Nat /\ h \in Nat /\ h < MaxSize /\ k \in Nat /\ k <= MaxSize
      /\ l1 \in Nat /\ l1 = MaxSize - h
  BY BufferAssumption DEF Index
<1>2. ASSUME l1 >= k PROVE Copied(b, h, s) = Laid(b, h, s)
  <2>1. \A p \in Index : ~(p + MaxSize < h + k)
    BY <1>1, <1>2 DEF Index
  <2> HIDE DEF k
  <2> QED
    BY <2>1 DEF Copied, Laid, k
<1>3. ASSUME l1 <= k PROVE Copied(Copied(b, h, x), 0, y) = Laid(b, h, s)
  <2>1. Len(x) = l1 /\ \A i \in 1..l1 : x[i] = s[i]
    BY <1>1, <1>3
  <2>2. Len(y) = k - l1 /\ \A i \in 1..k - l1 : y[i] = s[l1 + i]
    BY <1>1, <1>3
  <2> HIDE DEF x, y, l1, k
  <2>3. ASSUME NEW p \in Index
        PROVE  (IF p >= 0 /\ p < 0 + Len(y) THEN y[p - 0 + 1]
                ELSE IF p >= h /\ p < h + Len(x) THEN x[p - h + 1] ELSE b[p]) =
               (IF h <= p /\ p < h + k THEN s[p - h + 1]
                ELSE IF p + MaxSize < h + k THEN s[p + MaxSize - h + 1] ELSE b[p])
    <3>1. p \in Nat /\ p < MaxSize
      BY <1>1 DEF Index
    <3>2. CASE p >= h
      <4>1. ~(p < 0 + Len(y)) /\ p < h + Len(x) /\ p < h + k /\ p - h + 1 \in 1..l1
        BY <1>1, <1>3, <2>1, <2>2, <3>1, <3>2
      <4>2. x[p - h + 1] = s[p - h + 1]
        BY <2>1, <4>1
      <4> QED
        BY <1>1, <3>1, <3>2, <4>1, <4>2
    <3>3. CASE ~(p >= h)
      <4>1. ~(h <= p)
        BY <1>1, <3>1, <3>3
      <4>2. CASE p < k - l1
        <5>1. /\ p >= 0 /\ p < 0 + Len(y) /\ p + MaxSize < h + k
              /\ p - 0 + 1 \in 1..k - l1 /\ l1 + (p - 0 + 1) = p + MaxSize - h + 1
          BY <1>1, <1>3, <2>2, <3>1, <4>2
        <5>2. y[p - 0 + 1] = s[p + MaxSize - h + 1]
          BY <2>2, <5>1
        <5> QED
          BY <4>1, <5>1, <5>2
      <4>3. CASE ~(p < k - l1)
        <5>1. ~(p < 0 + Len(y)) /\ ~(p + MaxSize < h + k)
          BY <1>1, <1>3, <2>2, <3>1, <4>3
        <5> QED
          BY <3>3, <4>1, <5>1
      <4> QED
        BY <4>2, <4>3
    <3> QED
      BY <3>2, <3>3
  <2> QED
    BY <2>3 DEF Copied, Laid, k
<1> QED
  BY <1>2, <1>3

----------------------------------------------------------------------------
(* The refinement                                                          *)

\* Putting bytes that fit is Put() of the queue, getting bytes that are there
\* is Get().
LEMMA PutRefines ==
  ASSUME RingOK, NEW s \in Seq(Bytes), Len(s) \in Lengths,
         SizeOf(ring) + Len(s) <= MaxSize, Advanced(ring, ring', Len(s)),
         buffer' = Laid(buffer, ring.head, s), buffer' \in [Index -> Bytes],
         call' = Call("put", s, TRUE)
  PROVE  Queue!Next
<1>1. Sound(ring) /\ buffer \in [Index -> Bytes]
  BY DEF RingOK, Sound, Rings
<1>2. Contents = BytesOf(ring, buffer) /\ Contents' = BytesOf(ring', buffer')
  BY DEF Contents, BytesOf, size, SizeOf
<1>3. Len(s) \in Nat /\ Len(s) > 0 /\ Len(s) <= MaxSize + 1 /\ MaxSize \in Nat
  BY BufferAssumption
<1>4. BytesOf(ring', Laid(buffer, ring.head, s)) = BytesOf(ring, buffer) \o s
  BY <1>1, <1>3, PutAppends
<1>5. Contents' = Contents \o s /\ Len(Contents) = SizeOf(ring)
  BY <1>1, <1>2, <1>4, BytesAre
<1>6. Queue!Put(s)
  BY <1>5 DEF Queue!Put, Queue!Call, Call
<1>7. s \in Queue!BoundedSeq(Bytes, MaxSize + 1)
  <2>1. s \in [1..Len(s) -> Bytes] /\ Len(s) \in 0..MaxSize + 1
    BY <1>3
  <2> QED
    BY <2>1, Zenon DEF Queue!BoundedSeq, Queue!SeqOf
<1> QED
  BY <1>6, <1>7 DEF Queue!Next

LEMMA GetRefines ==
  ASSUME RingOK, NEW k \in Lengths, k <= SizeOf(ring), Retreated(ring, ring', k),
         buffer' = buffer,
         call' = Call("get", k, SubSeq(BytesOf(ring, buffer), 1, k))
  PROVE  Queue!Next
<1>1. Sound(ring) /\ buffer \in [Index -> Bytes]
  BY DEF RingOK, Sound, Rings
<1>2. Contents = BytesOf(ring, buffer) /\ Contents' = BytesOf(ring', buffer')
  BY DEF Contents, BytesOf, size, SizeOf
<1>3. k \in Nat /\ k > 0
  BY BufferAssumption
<1>4. /\ Contents' = SubSeq(Contents, k + 1, Len(Contents))
      /\ Len(Contents) = SizeOf(ring)
  BY <1>1, <1>2, <1>3, GetRemoves, BytesAre
<1>5. Queue!Get(k)
  BY <1>2, <1>4 DEF Queue!Get, Queue!Call, Call
<1> QED
  BY <1>5 DEF Queue!Next

\* Every step of the ring is a step of the queue, or leaves it alone.
LEMMA QueueStep == RingOK /\ RingOK' /\ [Next]_vars => [Queue!Next]_(Queue!vars)
<1> SUFFICES ASSUME RingOK, RingOK', [Next]_vars PROVE [Queue!Next]_(Queue!vars)
  OBVIOUS
<1>1. Sound(ring) /\ buffer \in [Index -> Bytes] /\ buffer' \in [Index -> Bytes]
  BY DEF RingOK, Sound, Rings
<1>2. /\ MaxSize \in Nat /\ MaxSize > 0
      /\ ring.head \in Nat /\ ring.head < MaxSize /\ ring.tail \in Nat /\ ring.tail < MaxSize
      /\ SizeOf(ring) \in Nat /\ SizeOf(ring) <= MaxSize
      /\ SizeOf(ring) = MaxSize <=> ring.full
      /\ ring.head \in Index
  <2>1. ring.head \in Index
    BY <1>1 DEF Sound, Rings
  <2> QED
    BY <1>1, <2>1, RingFacts
<1>3. /\ Contents = BytesOf(ring, buffer) /\ Contents' = BytesOf(ring', buffer')
      /\ size = SizeOf(ring) /\ Len(Contents) = size
  <2>1. /\ Contents = BytesOf(ring, buffer) /\ Contents' = BytesOf(ring', buffer')
        /\ size = SizeOf(ring)
    BY DEF Contents, BytesOf, size, SizeOf
  <2> QED
    BY <1>1, <2>1, BytesAre
<1>4. CASE reset
  <2>1. Sound(Emptied) /\ ring' = Emptied /\ buffer' = buffer
    BY <1>2, <1>4 DEF reset, Emptied, Sound, Rings, Index
  <2>2. SizeOf(Emptied) = 0
    BY DEF SizeOf, Emptied
  <2>3. Contents' \in Seq(Bytes) /\ Len(Contents') = 0
    BY <1>1, <1>3, <2>1, <2>2, BytesAre
  <2>4. Contents' = <<>>
    BY <2>3, EmptySeq
  <2> QED
    BY <1>4, <2>4 DEF reset, Queue!Next, Queue!Reset, Queue!Call, Call
<1>5. ASSUME NEW b \in Bytes, put(b) PROVE Queue!Next
  <2> DEFINE s == <<b>>
  <2>1. /\ ~ring.full /\ ring' = advance(ring, 1) /\ call' = Call("put", s, TRUE)
        /\ buffer' = [buffer EXCEPT ![ring.head] = b]
    BY <1>5 DEF put
  <2>2. s \in Seq(Bytes) /\ Len(s) = 1 /\ s[1] = b
    OBVIOUS
  <2> HIDE DEF s
  <2>3. Len(s) \in Lengths /\ SizeOf(ring) + Len(s) <= MaxSize
    <3>1. SizeOf(ring) # MaxSize
      BY <1>2, <2>1
    <3> QED
      BY <1>2, <2>2, <3>1, BufferAssumption
  <2>4. Advanced(ring, ring', Len(s))
    <3>1. 1 \in Nat /\ 1 <= MaxSize
      BY <1>2
    <3> QED
      BY <1>1, <2>1, <2>2, <3>1, AdvanceIs
  <2>5. buffer' = Laid(buffer, ring.head, s)
    <3>1. ASSUME NEW p \in Index
          PROVE  [buffer EXCEPT ![ring.head] = b][p] =
                   (IF ring.head <= p /\ p < ring.head + Len(s) THEN s[p - ring.head + 1]
                    ELSE IF p + MaxSize < ring.head + Len(s) THEN s[p + MaxSize - ring.head + 1]
                    ELSE buffer[p])
      <4>1. p \in Nat /\ p < MaxSize /\ ~(p + MaxSize < ring.head + 1)
        BY <1>2 DEF Index
      <4>2. CASE p = ring.head
        <5>1. ring.head <= p /\ p < ring.head + 1 /\ p - ring.head + 1 = 1
          BY <1>2, <4>2
        <5> QED
          BY <1>1, <2>2, <4>2, <5>1
      <4>3. CASE p # ring.head
        <5>1. ~(ring.head <= p /\ p < ring.head + 1)
          BY <1>2, <4>1, <4>3
        <5> QED
          BY <1>1, <2>2, <4>1, <4>3, <5>1
      <4> QED
        BY <4>2, <4>3
    <3>2. [buffer EXCEPT ![ring.head] = b] \in [Index -> Bytes]
      BY <1>1
    <3> QED
      BY <2>1, <3>1, <3>2 DEF Laid
  <2> QED
    BY <1>1, <2>1, <2>2, <2>3, <2>4, <2>5, PutRefines
<1>6. ASSUME NEW s \in Blocks, putBlock(s) PROVE Queue!Next
  <2>1. s \in Seq(Bytes) /\ Len(s) \in Lengths /\ Len(s) \in Nat /\ Len(s) > 0
    BY BlockIsSeq, BufferAssumption DEF Blocks
  <2>2. SizeOf(ring) + Len(s) <= MaxSize /\ Len(s) <= MaxSize /\ call' = Call("put", s, TRUE)
    BY <1>2, <1>3, <1>6, <2>1 DEF putBlock, capacity
  <2>3. ~ring.full
    BY <1>2, <2>1, <2>2
  <2>4. CASE MaxSize - ring.head > Len(s)
    <3>1. buffer' = Copied(buffer, ring.head, s) /\ ring' = advance(ring, Len(s))
      BY <1>2, <1>6, <2>1, <2>4 DEF putBlock
    <3>2. buffer' = Laid(buffer, ring.head, s)
      BY <1>1, <1>2, <2>1, <2>2, <2>4, <3>1, CopiedIsLaid
    <3>3. Advanced(ring, ring', Len(s))
      BY <1>1, <2>1, <2>2, <2>3, <3>1, AdvanceIs
    <3> QED
      BY <1>1, <2>1, <2>2, <3>2, <3>3, PutRefines
  <2>5. CASE MaxSize - ring.head <= Len(s)
    <3> DEFINE l1 == MaxSize - ring.head
    <3>1. /\ buffer' = Copied(Copied(buffer, ring.head, SubSeq(s, 1, l1)),
                              advance(ring, l1).head, SubSeq(s, l1 + 1, Len(s)))
          /\ ring' = advance(advance(ring, l1), Len(s) - l1)
      BY <1>2, <1>6, <2>1, <2>5 DEF putBlock
    <3>2. advance(ring, l1).head = 0 /\ Advanced(ring, ring', Len(s))
      BY <1>1, <2>1, <2>2, <2>3, <2>5, <3>1, AdvanceTwice
    <3>3. buffer' = Laid(buffer, ring.head, s)
      BY <1>1, <1>2, <2>1, <2>2, <2>5, <3>1, <3>2, CopiedIsLaid
    <3> QED
      BY <1>1, <2>1, <2>2, <3>2, <3>3, PutRefines
  <2> QED
    BY <1>2, <2>1, <2>4, <2>5
<1>7. ASSUME NEW s \in Blocks, putRefused(s) PROVE Queue!Next
  <2>1. s \in Queue!BoundedSeq(Bytes, MaxSize + 1) /\ Len(s) \in Lengths /\ Len(s) \in Nat
    BY BlockIsSeq DEF Blocks, BoundedSeq, SeqOf, Queue!BoundedSeq, Queue!SeqOf
  <2>2. ~(Len(Contents) + Len(s) <= MaxSize)
    BY <1>2, <1>3, <1>7, <2>1 DEF putRefused, capacity
  <2>3. Contents' = Contents /\ call' = Call("put", s, FALSE)
    BY <1>3, <1>7 DEF putRefused
  <2>4. Queue!Put(s)
    BY <2>2, <2>3 DEF Queue!Put, Queue!Call, Call
  <2> QED
    BY <2>1, <2>4 DEF Queue!Next
<1>8. CASE get
  <2>1. /\ ring' = retreat(ring, 1) /\ buffer' = buffer
        /\ call' = Call("get", 1, <<buffer[ring.tail]>>)
    BY <1>8 DEF get
  <2>2. 1 \in Nat /\ 1 > 0 /\ 1 <= SizeOf(ring) /\ 1 <= MaxSize /\ 1 \in Lengths
    <3>1. SizeOf(ring) # 0
      <4>1. ~(~ring.full /\ ring.head = ring.tail)
        BY <1>8 DEF get, empty
      <4>2. CASE ring.full
        BY <1>2, <4>2
      <4>3. CASE ~ring.full
        <5>1. SizeOf(ring) = IF ring.head >= ring.tail THEN ring.head - ring.tail
                             ELSE MaxSize + ring.head - ring.tail
          BY <4>3 DEF SizeOf
        <5>2. ring.head # ring.tail
          BY <4>1, <4>3
        <5> QED
          BY <1>2, <5>1, <5>2
      <4> QED
        BY <4>2, <4>3
    <3> QED
      BY <1>2, <3>1, BufferAssumption
  <2>3. Retreated(ring, ring', 1)
    BY <1>1, <2>1, <2>2, RetreatIs
  <2>4. SubSeq(BytesOf(ring, buffer), 1, 1) = <<buffer[ring.tail]>>
    <3>1. SubSeq(BytesOf(ring, buffer), 1, 1) = Slice(ring.tail, 1)
      <4>1. MaxSize - ring.tail >= 1
        BY <1>2
      <4> QED
        BY <1>1, <2>2, <4>1, GetAnswers
    <3>2. Slice(ring.tail, 1) = <<buffer[ring.tail]>>
      <4>1. ring.tail + 1 - 1 = ring.tail
        BY <1>2
      <4> QED
        BY <4>1 DEF Slice
    <3> QED
      BY <3>1, <3>2
  <2> QED
    BY <2>1, <2>2, <2>3, <2>4, GetRefines
<1>9. ASSUME NEW n \in Lengths, getBlock(n) PROVE Queue!Next
  <2>1. n \in Nat /\ n > 0 /\ n <= SizeOf(ring) /\ n <= MaxSize /\ buffer' = buffer
    BY <1>2, <1>3, <1>9, BufferAssumption DEF getBlock
  <2>2. CASE MaxSize - ring.tail > n
    <3>1. call' = Call("get", n, Slice(ring.tail, n)) /\ ring' = retreat(ring, n)
      BY <1>2, <1>9, <2>1, <2>2 DEF getBlock
    <3>2. SubSeq(BytesOf(ring, buffer), 1, n) = Slice(ring.tail, n)
      BY <1>1, <1>2, <2>1, <2>2, GetAnswers
    <3>3. Retreated(ring, ring', n)
      BY <1>1, <2>1, <3>1, RetreatIs
    <3> QED
      BY <2>1, <3>1, <3>2, <3>3, GetRefines
  <2>3. CASE MaxSize - ring.tail <= n
    <3> DEFINE l1 == MaxSize - ring.tail
    <3>1. /\ call' = Call("get", n, Slice(ring.tail, l1) \o Slice(retreat(ring, l1).tail, n - l1))
          /\ ring' = retreat(retreat(ring, l1), n - l1)
      BY <1>2, <1>9, <2>1, <2>3 DEF getBlock
    <3>2. retreat(ring, l1).tail = 0 /\ Retreated(ring, ring', n)
      BY <1>1, <2>1, <2>3, <3>1, RetreatTwice
    <3>3. SubSeq(BytesOf(ring, buffer), 1, n) = Slice(ring.tail, l1) \o Slice(0, n - l1)
      BY <1>1, <2>1, <2>3, GetAnswers
    <3> QED
      BY <2>1, <3>1, <3>2, <3>3, GetRefines
  <2> QED
    BY <1>2, <2>1, <2>2, <2>3
<1>10. ASSUME NEW n \in Lengths, getRefused(n) PROVE Queue!Next
  <2>1. ~(n <= Len(Contents))
    BY <1>2, <1>3, <1>10, BufferAssumption DEF getRefused
  <2>2. Contents' = Contents /\ call' = Call("get", n, FALSE)
    BY <1>3, <1>10 DEF getRefused
  <2>3. Queue!Get(n)
    BY <2>1, <2>2 DEF Queue!Get, Queue!Call, Call
  <2> QED
    BY <2>3 DEF Queue!Next
<1>11. CASE UNCHANGED vars
  <2>1. Contents' = Contents /\ call' = call
    BY <1>3, <1>11 DEF vars
  <2> QED
    BY <2>1 DEF Queue!vars
<1> QED
  BY <1>4, <1>5, <1>6, <1>7, <1>8, <1>9, <1>10, <1>11 DEF Next

(***************************************************************************)
(* The ring implements the queue: bytes leave it in the order in which     *)
(* they came, none lost, doubled or invented, whatever the size of the     *)
(* ring, wherever head and tail stand and however the blocks wrap.         *)
(***************************************************************************)
THEOREM RingImplementsQueue == Spec => QueueSpec
<1>1. Init => Queue!Init
  <2> SUFFICES ASSUME Init PROVE Queue!Init
    OBVIOUS
  <2>1. SizeOf(ring) = 0 /\ Sound(ring) /\ buffer \in [Index -> Bytes]
    BY BufferAssumption DEF Init, Emptied, SizeOf, Sound, Rings, Index
  <2>2. Contents = BytesOf(ring, buffer)
    BY DEF Contents, BytesOf, size, SizeOf
  <2>3. Contents = <<>>
    BY <2>1, <2>2, BytesAre, EmptySeq
  <2> QED
    BY <2>3 DEF Init, Queue!Init, Queue!Call, Call
<1>2. RingOK /\ RingOK' /\ [Next]_vars => [Queue!Next]_(Queue!vars)
  BY QueueStep
<1> QED
  BY <1>1, <1>2, RingCorrect, PTL DEF Spec, QueueSpec, Queue!Spec
=============================================================================
