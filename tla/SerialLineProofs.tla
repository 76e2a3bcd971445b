-------------------------- MODULE SerialLineProofs --------------------------
(***************************************************************************)
(* Proofs about SerialLine, for any texts, prefixes and bounds: what is on *)
(* the line is the rest of the frames the modem printed (Stream), readLine *)
(* stands in one of them or between two (Passed, Between), and from there  *)
(* one inductive invariant (SerialInv), one lemma per action, the          *)
(* theorems and the refinement of LineQueue.                               *)
(***************************************************************************)
EXTENDS SerialLine, SequenceTheorems, TLAPS

----------------------------------------------------------------------------
(* The bytes on the line                                                   *)

Bytes == [c : Letters \cup {"CR", "LF", "NUL"}, id : Nat, k : Nat, err : BOOLEAN]

\* The last byte of the frame of a line in s, or a NUL behind it.
Ends(b, s) == b.k = 0 \/ b.k = Len(s[b.id]) + 4

\* A byte is a NUL, or the k-th of the frame of a line that was printed.
Placed(b, s) ==
  /\ b.id <= Len(s)
  /\ b.k = 0 => b.c = "NUL"
  /\ b.k # 0 =>
       /\ b.id >= 1 /\ b.k <= Len(s[b.id]) + 4
       /\ b.k \in {1, Len(s[b.id]) + 3} => b.c = "CR"
       /\ b.k \in {2, Len(s[b.id]) + 4} => b.c = "LF"
       /\ b.k \in 3..Len(s[b.id]) + 2 => b.c = s[b.id][b.k - 2]

\* The byte that comes behind b.
Adjoins(b, next, s) ==
  IF Ends(b, s) THEN (next.k = 0 /\ next.id = b.id) \/ (next.k = 1 /\ next.id = b.id + 1)
  ELSE next.id = b.id /\ next.k = b.k + 1

\* u is the rest of the bytes of the lines s.
Stream(u, s) ==
  /\ \A i \in 1..Len(u) : Placed(u[i], s)
  /\ \A i \in 1..Len(u) : i + 1 <= Len(u) => Adjoins(u[i], u[i + 1], s)
  /\ u # <<>> => Ends(u[Len(u)], s) /\ u[Len(u)].id = Len(s)

\* The reader is between two lines; the line it is in, or has passed last.
Between(u) == u = <<>> \/ Head(u).k <= 1
Passed(u, s) ==
  IF u = <<>> THEN Len(s) ELSE IF Head(u).k = 1 THEN Head(u).id - 1 ELSE Head(u).id

LEMMA TextFacts ==
  ASSUME NEW s \in Seq(Texts), NEW i \in 1..Len(s)
  PROVE  /\ s[i] \in Texts /\ Len(s[i]) \in Nat /\ Len(s[i]) >= 1
         /\ \A k \in 1..Len(s[i]) : s[i][k] \in Letters
<1>1. s[i] \in Texts
  OBVIOUS
<1>2. s[i] \in Seq(Letters) /\ s[i] # <<>>
  BY <1>1, SerialAssumption
<1> QED BY <1>1, <1>2

\* What a byte in its place can be, by its character.
LEMMA PlacedIs ==
  ASSUME NEW s \in Seq(Texts), NEW b \in Bytes, Placed(b, s)
  PROVE  /\ b.k = 0 => b.c = "NUL" /\ Ends(b, s)
         /\ b.k # 0 => /\ b.id \in 1..Len(s) /\ b.k \in 1..Len(s[b.id]) + 4
                       /\ s[b.id] \in Texts /\ Len(s[b.id]) \in Nat /\ Len(s[b.id]) >= 1
         /\ b.c \notin {"CR", "LF", "NUL"} =>
              /\ b.k \in 3..Len(s[b.id]) + 2 /\ b.c = s[b.id][b.k - 2]
              /\ ~Ends(b, s)
         /\ b.k # 0 /\ b.k \in 3..Len(s[b.id]) + 2 => b.c \notin {"CR", "LF", "NUL"}
         /\ b.c = "LF" => b.k # 0 /\ b.k \in {2, Len(s[b.id]) + 4}
         /\ b.k # 0 /\ Ends(b, s) => b.k = Len(s[b.id]) + 4 /\ b.c = "LF"
         /\ b.k \in {1, 2, 3} => ~Ends(b, s)
         /\ b.k = 1 => b.c = "CR"
<1>0. b.k \in Nat /\ b.id \in Nat
  BY DEF Bytes
<1>1. CASE b.k = 0
  BY <1>1 DEF Placed, Ends
<1>2. CASE b.k # 0
  <2>1. b.id \in 1..Len(s)
    BY <1>0, <1>2 DEF Placed
  <2>2. /\ s[b.id] \in Texts /\ Len(s[b.id]) \in Nat /\ Len(s[b.id]) >= 1
        /\ \A k \in 1..Len(s[b.id]) : s[b.id][k] \in Letters
    BY <2>1, TextFacts
  <2> DEFINE n == Len(s[b.id])
  <2>3. /\ n \in Nat /\ n >= 1 /\ b.k \in 1..n + 4
        /\ b.k \in {1, n + 3} => b.c = "CR"
        /\ b.k \in {2, n + 4} => b.c = "LF"
        /\ b.k \in 3..n + 2 => b.c = s[b.id][b.k - 2]
    BY <1>0, <1>2, <2>2 DEF Placed
  <2>4. Ends(b, s) <=> b.k = n + 4
    BY <1>2 DEF Ends
  <2>5. b.k \in 3..n + 2 => b.k - 2 \in 1..n
    BY <1>0, <2>3
  <2>6. b.k \in 3..n + 2 => b.c \in Letters
    BY <2>2, <2>3, <2>5
  <2>7. b.k \in {1, 2, n + 3, n + 4} \/ b.k \in 3..n + 2
    BY <1>0, <2>3
  <2>a. \A c \in Letters : c \notin {"CR", "LF", "NUL"}
    BY SerialAssumption
  <2> HIDE DEF n
  <2>8. /\ b.c \notin {"CR", "LF", "NUL"} => b.k \in 3..n + 2 /\ b.k # n + 4
        /\ b.k \in 3..n + 2 => b.c \notin {"CR", "LF", "NUL"}
        /\ b.c = "LF" => b.k \in {2, n + 4}
        /\ b.k \in {1, 2, 3} => b.k # n + 4
    BY <1>0, <2>3, <2>6, <2>7, <2>a
  <2>9. n = Len(s[b.id])
    BY DEF n
  <2> QED BY <1>2, <2>1, <2>2, <2>3, <2>4, <2>8, <2>9
<1> QED BY <1>1, <1>2

\* readRaw() takes a byte: where the reader stands then.
LEMMA Consume ==
  ASSUME NEW s \in Seq(Texts), NEW u \in Seq(Bytes), Stream(u, s), u # <<>>
  PROVE  /\ Head(u) \in Bytes /\ Placed(Head(u), s)
         /\ Tail(u) \in Seq(Bytes) /\ Stream(Tail(u), s)
         /\ Passed(Tail(u), s) = Head(u).id
         /\ Ends(Head(u), s) => Between(Tail(u))
         /\ ~Ends(Head(u), s) => /\ Tail(u) # <<>> /\ Head(Tail(u)).k = Head(u).k + 1
                                 /\ Head(u).k >= 1 /\ ~Between(Tail(u))
         /\ \A i \in 1..Len(Tail(u)) : Tail(u)[i] = u[i + 1] /\ i + 1 \in 1..Len(u)
<1> DEFINE h == Head(u)
           v == Tail(u)
<1>1. Len(u) \in Nat /\ Len(u) >= 1 /\ h = u[1] /\ h \in Bytes
  OBVIOUS
<1>2. v \in Seq(Bytes) /\ Len(v) = Len(u) - 1 /\ \A i \in 1..Len(v) : v[i] = u[i + 1]
  OBVIOUS
<1>3. \A i \in 1..Len(v) : i + 1 \in 1..Len(u)
  BY <1>1, <1>2
<1>4. Placed(h, s) /\ h.k \in Nat /\ h.id \in Nat
  BY <1>1 DEF Stream, Bytes
<1> HIDE DEF h, v
<1>a. Len(v) \in Nat /\ (v # <<>> => Len(v) >= 1 /\ Head(v) = v[1]) /\ (v = <<>> => Len(v) = 0)
  BY <1>2
<1>5. Stream(v, s)
  <2>1. \A i \in 1..Len(v) : Placed(v[i], s)
    BY <1>2, <1>3 DEF Stream
  <2>2. \A i \in 1..Len(v) : i + 1 <= Len(v) => Adjoins(v[i], v[i + 1], s)
    <3>1. SUFFICES ASSUME NEW i \in 1..Len(v), i + 1 <= Len(v)
                   PROVE  Adjoins(v[i], v[i + 1], s)
      OBVIOUS
    <3>2. i + 1 \in 1..Len(v) /\ i + 1 \in 1..Len(u) /\ (i + 1) + 1 <= Len(u)
      BY <1>1, <1>2, <1>a, <3>1
    <3>3. v[i] = u[i + 1] /\ v[i + 1] = u[(i + 1) + 1]
      BY <1>2, <3>2
    <3> QED BY <3>2, <3>3 DEF Stream
  <2>3. v # <<>> => v[Len(v)] = u[Len(u)]
    <3>1. SUFFICES ASSUME v # <<>> PROVE v[Len(v)] = u[Len(u)]
      OBVIOUS
    <3>2. Len(v) \in 1..Len(v) /\ Len(v) + 1 = Len(u)
      BY <1>1, <1>2, <1>a, <3>1
    <3> QED BY <1>2, <3>2
  <2> QED BY <2>1, <2>2, <2>3 DEF Stream
<1>6. CASE v = <<>>
  <2>1. Len(u) = 1
    BY <1>1, <1>2, <1>a, <1>6
  <2>2. Ends(h, s) /\ h.id = Len(s)
    BY <1>1, <2>1 DEF Stream
  <2> QED BY <1>1, <1>2, <1>3, <1>4, <1>5, <1>6, <2>2 DEF Passed, Between, h, v
<1>7. CASE v # <<>>
  <2>1. 1 \in 1..Len(u) /\ 1 + 1 <= Len(u) /\ Head(v) = u[2] /\ 2 \in 1..Len(u)
    BY <1>1, <1>2, <1>a, <1>7
  <2>2. Adjoins(h, Head(v), s)
    BY <1>1, <2>1 DEF Stream
  <2>3. Head(v) \in Bytes
    BY <2>1
  <2>4. Head(v).k \in Nat
    BY <2>3 DEF Bytes
  <2>5. Ends(h, s) => Between(v) /\ Passed(v, s) = h.id
    BY <1>4, <1>7, <2>2, <2>4 DEF Adjoins, Between, Passed
  <2>6. ~Ends(h, s) => /\ Head(v).k = h.k + 1 /\ h.k >= 1 /\ ~Between(v)
                       /\ Passed(v, s) = h.id
    <3>1. SUFFICES ASSUME ~Ends(h, s)
                   PROVE  /\ Head(v).k = h.k + 1 /\ h.k >= 1 /\ ~Between(v)
                          /\ Passed(v, s) = h.id
      OBVIOUS
    <3>2. h.k # 0 /\ Head(v).id = h.id /\ Head(v).k = h.k + 1
      BY <2>2, <3>1 DEF Ends, Adjoins
    <3> QED BY <1>4, <1>7, <3>2 DEF Between, Passed
  <2> QED BY <1>1, <1>2, <1>3, <1>4, <1>5, <1>7, <2>5, <2>6 DEF h, v
<1> QED BY <1>6, <1>7

\* The frame of a line.
LEMMA FrameIs ==
  ASSUME NEW t \in Texts, NEW id \in Nat
  PROVE  /\ Frame(t, id) \in Seq(Bytes) /\ Len(Frame(t, id)) = Len(t) + 4
         /\ Len(t) \in Nat /\ Len(t) >= 1
         /\ \A k \in 1..Len(t) + 4 :
              /\ Frame(t, id)[k].id = id /\ Frame(t, id)[k].k = k /\ ~Frame(t, id)[k].err
              /\ k \in {1, Len(t) + 3} => Frame(t, id)[k].c = "CR"
              /\ k \in {2, Len(t) + 4} => Frame(t, id)[k].c = "LF"
              /\ k \in 3..Len(t) + 2 => Frame(t, id)[k].c = t[k - 2]
<1> DEFINE crlf == <<"CR", "LF">>
           g == crlf \o t
           f == g \o crlf
           n == Len(t)
           C == Letters \cup {"CR", "LF", "NUL"}
<1>a. "CR" \in C /\ "LF" \in C /\ Letters \subseteq C
  OBVIOUS
<1>b. t \in Seq(Letters) /\ t # <<>>
  BY SerialAssumption
<1>c. Bytes = [c : C, id : Nat, k : Nat, err : BOOLEAN]
  BY DEF Bytes
<1> HIDE DEF C
<1>1. t \in Seq(C) /\ t # <<>>
  BY <1>a, <1>b
<1>2. n \in Nat /\ n >= 1
  BY <1>1
<1>3. crlf \in Seq(C) /\ Len(crlf) = 2 /\ crlf[1] = "CR" /\ crlf[2] = "LF"
  BY <1>a
<1>4. Frame(t, id) = [k \in DOMAIN f |-> Byte(f[k], id, k)]
  BY DEF Frame
<1> HIDE DEF crlf, n
<1>d. /\ g \in Seq(C) /\ Len(g) = Len(crlf) + Len(t)
      /\ \A k \in 1..Len(crlf) + Len(t) :
           g[k] = IF k <= Len(crlf) THEN crlf[k] ELSE t[k - Len(crlf)]
  BY <1>1, <1>3, ConcatProperties, Zenon
<1>5. /\ g \in Seq(C) /\ Len(g) = n + 2
      /\ \A k \in 1..n + 2 : g[k] = IF k <= 2 THEN crlf[k] ELSE t[k - 2]
  BY <1>2, <1>3, <1>d DEF n
<1> HIDE DEF g
<1>e. /\ f \in Seq(C) /\ Len(f) = Len(g) + Len(crlf)
      /\ \A k \in 1..Len(g) + Len(crlf) :
           f[k] = IF k <= Len(g) THEN g[k] ELSE crlf[k - Len(g)]
  BY <1>3, <1>5, ConcatProperties, Zenon
<1>6. /\ f \in Seq(C) /\ Len(f) = n + 4
      /\ \A k \in 1..n + 4 : f[k] = IF k <= n + 2 THEN g[k] ELSE crlf[k - (n + 2)]
  BY <1>2, <1>3, <1>5, <1>e
<1> HIDE DEF f
<1>7. DOMAIN f = 1..n + 4
  BY <1>6
<1>8. /\ \A k \in 1..n + 4 : k \in {1, n + 3} => f[k] = "CR"
      /\ \A k \in 1..n + 4 : k \in {2, n + 4} => f[k] = "LF"
      /\ \A k \in 1..n + 4 : k \in 3..n + 2 => f[k] = t[k - 2]
      /\ \A k \in 1..n + 4 : f[k] \in C
  BY <1>2, <1>3, <1>5, <1>6
<1> DEFINE F == Frame(t, id)
<1>9. F = [k \in 1..n + 4 |-> Byte(f[k], id, k)]
  BY <1>4, <1>7
<1>10. \A k \in 1..n + 4 :
         /\ Byte(f[k], id, k) \in Bytes /\ Byte(f[k], id, k).id = id
         /\ Byte(f[k], id, k).k = k /\ ~Byte(f[k], id, k).err
         /\ Byte(f[k], id, k).c = f[k]
  BY <1>2, <1>8, <1>c DEF Byte
<1> HIDE DEF F
<1>11. F \in Seq(Bytes) /\ Len(F) = n + 4
  BY <1>2, <1>9, <1>10
<1>12. \A k \in 1..n + 4 : /\ F[k].id = id /\ F[k].k = k /\ ~F[k].err
                           /\ F[k].c = f[k]
  BY <1>9, <1>10
<1> QED BY <1>2, <1>8, <1>11, <1>12 DEF F, n

\* A line printed later changes nothing for the bytes before it.
LEMMA PlacedLater ==
  ASSUME NEW s \in Seq(Texts), NEW t \in Texts, NEW b \in Bytes, Placed(b, s)
  PROVE  /\ Placed(b, Append(s, t))
         /\ Ends(b, Append(s, t)) <=> Ends(b, s)
<1>1. b.k \in Nat /\ b.id \in Nat
  BY DEF Bytes
<1>2. \A i \in 1..Len(s) : Append(s, t)[i] = s[i]
  OBVIOUS
<1>3. Len(Append(s, t)) = Len(s) + 1 /\ Len(s) \in Nat
  OBVIOUS
<1>4. b.k # 0 => b.id \in 1..Len(s)
  BY <1>1, <1>3 DEF Placed
<1>5. b.k # 0 => Append(s, t)[b.id] = s[b.id]
  BY <1>2, <1>4
<1> QED BY <1>1, <1>3, <1>5 DEF Placed, Ends

\* modemPrints: the frame of a new line behind the rest of the bytes.
LEMMA PrintStream ==
  ASSUME NEW s \in Seq(Texts), NEW u \in Seq(Bytes), Stream(u, s), NEW t \in Texts
  PROVE  LET v == u \o Frame(t, Len(s) + 1)
             r == Append(s, t)
         IN  /\ v \in Seq(Bytes) /\ r \in Seq(Texts) /\ Stream(v, r)
             /\ Between(v) <=> Between(u)
             /\ Passed(v, r) = Passed(u, s)
             /\ ~Between(u) => v # <<>> /\ Head(v) = Head(u)
             /\ \A i \in 1..Len(v) : v[i].err => i \in 1..Len(u) /\ v[i] = u[i]
<1> DEFINE id == Len(s) + 1
           F == Frame(t, id)
           v == u \o F
           r == Append(s, t)
           m == Len(u)
           n == Len(t)
<1>1. id \in Nat /\ m \in Nat
  OBVIOUS
<1>2. /\ F \in Seq(Bytes) /\ Len(F) = n + 4 /\ n \in Nat /\ n >= 1
      /\ \A k \in 1..n + 4 :
           /\ F[k].id = id /\ F[k].k = k /\ ~F[k].err
           /\ k \in {1, n + 3} => F[k].c = "CR"
           /\ k \in {2, n + 4} => F[k].c = "LF"
           /\ k \in 3..n + 2 => F[k].c = t[k - 2]
  BY <1>1, FrameIs
<1>3. r \in Seq(Texts) /\ Len(r) = id /\ r[id] = t
  OBVIOUS
<1> HIDE DEF F
<1>b. F \in Seq(Bytes)
  BY <1>2
<1>a. /\ v \in Seq(Bytes) /\ Len(v) = Len(u) + Len(F)
      /\ \A i \in 1..Len(u) + Len(F) : v[i] = IF i <= Len(u) THEN u[i] ELSE F[i - Len(u)]
  BY <1>b, ConcatProperties, Zenon
<1>4. /\ v \in Seq(Bytes) /\ Len(v) = m + (n + 4)
      /\ \A i \in 1..m + (n + 4) : v[i] = IF i <= m THEN u[i] ELSE F[i - m]
  BY <1>1, <1>2, <1>a
<1> HIDE DEF v, r, n, id
<1>5. \A i \in 1..Len(v) : \/ i \in 1..m /\ v[i] = u[i]
                           \/ i - m \in 1..n + 4 /\ v[i] = F[i - m]
  BY <1>1, <1>2, <1>4
<1>6. \A k \in 1..n + 4 : Placed(F[k], r) /\ (Ends(F[k], r) <=> k = n + 4)
  <2>1. SUFFICES ASSUME NEW k \in 1..n + 4
                 PROVE  Placed(F[k], r) /\ (Ends(F[k], r) <=> k = n + 4)
    OBVIOUS
  <2>2. F[k].id = id /\ F[k].k = k /\ r[F[k].id] = t /\ Len(r[F[k].id]) = n
    BY <1>2, <1>3 DEF n
  <2>3. /\ k \in {1, n + 3} => F[k].c = "CR"
        /\ k \in {2, n + 4} => F[k].c = "LF"
        /\ k \in 3..n + 2 => F[k].c = t[k - 2]
    BY <1>2
  <2>4. id \in Nat /\ id >= 1 /\ k \in Nat /\ k # 0
    BY <1>1, <1>2 DEF id
  <2> QED BY <1>2, <1>3, <2>2, <2>3, <2>4 DEF Placed, Ends
<1>7. \A i \in 1..m : Placed(u[i], r) /\ (Ends(u[i], r) <=> Ends(u[i], s))
  <2>1. \A i \in 1..m : u[i] \in Bytes /\ Placed(u[i], s)
    BY DEF Stream
  <2> QED BY <2>1, PlacedLater DEF r
<1>8. \A i \in 1..Len(v) : Placed(v[i], r)
  BY <1>5, <1>6, <1>7
<1>9. \A i \in 1..Len(v) : i + 1 <= Len(v) => Adjoins(v[i], v[i + 1], r)
  <2>1. SUFFICES ASSUME NEW i \in 1..Len(v), i + 1 <= Len(v)
                 PROVE  Adjoins(v[i], v[i + 1], r)
    OBVIOUS
  <2>2. CASE i + 1 <= m
    <3>1. i \in 1..m /\ v[i] = u[i] /\ v[i + 1] = u[i + 1]
      BY <1>1, <1>2, <1>4, <2>1, <2>2
    <3>2. Adjoins(u[i], u[i + 1], s)
      BY <2>2, <3>1 DEF Stream
    <3> QED BY <1>7, <3>1, <3>2 DEF Adjoins
  <2>3. CASE i = m
    <3>1. v[i] = u[m] /\ v[i + 1] = F[1] /\ m \in 1..m /\ u # <<>>
      BY <1>1, <1>2, <1>4, <2>1, <2>3
    <3>2. Ends(u[m], r) /\ u[m].id = Len(s)
      BY <1>7, <3>1 DEF Stream
    <3>3. F[1].k = 1 /\ F[1].id = Len(s) + 1
      BY <1>2 DEF id
    <3> QED BY <3>1, <3>2, <3>3 DEF Adjoins
  <2>4. CASE i > m
    <3> DEFINE k == i - m
    <3>1. k \in 1..n + 4 /\ k + 1 \in 1..n + 4 /\ k # n + 4
      BY <1>1, <1>2, <1>4, <2>1, <2>4
    <3>2. v[i] = F[k] /\ v[i + 1] = F[k + 1]
      <4>1. i + 1 - m = k + 1 /\ ~(i <= m) /\ ~(i + 1 <= m) /\ i \in 1..m + (n + 4)
            /\ i + 1 \in 1..m + (n + 4)
        BY <1>1, <1>2, <1>4, <2>1, <2>4
      <4> QED BY <1>4, <4>1
    <3> HIDE DEF k
    <3>3. ~Ends(F[k], r) /\ F[k].id = id /\ F[k].k = k /\ F[k + 1].id = id /\ F[k + 1].k = k + 1
      BY <1>2, <1>6, <3>1
    <3> QED BY <3>2, <3>3 DEF Adjoins
  <2> QED BY <1>1, <1>4, <2>1, <2>2, <2>3, <2>4
<1>10. Ends(v[Len(v)], r) /\ v[Len(v)].id = Len(r)
  <2>1. v[Len(v)] = F[n + 4]
    BY <1>1, <1>2, <1>4
  <2> QED BY <1>2, <1>3, <1>6, <2>1
<1>11. Stream(v, r)
  BY <1>8, <1>9, <1>10 DEF Stream
<1>12. v # <<>> /\ Head(v) = IF u = <<>> THEN F[1] ELSE Head(u)
  <2>1. Head(v) = v[1] /\ v # <<>> /\ 1 \in 1..m + (n + 4)
    BY <1>1, <1>2, <1>4
  <2>2. CASE u = <<>>
    <3>1. m = 0
      BY <2>2
    <3> QED BY <1>4, <2>1, <2>2, <3>1
  <2>3. CASE u # <<>>
    <3>1. m >= 1 /\ Head(u) = u[1]
      BY <2>3
    <3> QED BY <1>1, <1>4, <2>1, <2>3, <3>1
  <2> QED BY <2>2, <2>3
<1>13. F[1].k = 1 /\ F[1].id - 1 = Len(s)
  BY <1>1, <1>2 DEF id
<1>14. /\ Between(v) <=> Between(u)
       /\ Passed(v, r) = Passed(u, s)
       /\ ~Between(u) => v # <<>> /\ Head(v) = Head(u)
  BY <1>12, <1>13 DEF Between, Passed
<1>15. \A i \in 1..Len(v) : v[i].err => i \in 1..Len(u) /\ v[i] = u[i]
  BY <1>2, <1>5
<1> QED BY <1>3, <1>4, <1>11, <1>14, <1>15 DEF v, r, F, id

\* nulByte: a NUL behind the rest of the bytes.
LEMMA NulStream ==
  ASSUME NEW s \in Seq(Texts), NEW u \in Seq(Bytes), Stream(u, s)
  PROVE  LET v == Append(u, Byte("NUL", Len(s), 0))
         IN  /\ v \in Seq(Bytes) /\ Stream(v, s)
             /\ Between(v) <=> Between(u)
             /\ Passed(v, s) = Passed(u, s)
             /\ ~Between(u) => v # <<>> /\ Head(v) = Head(u)
             /\ \A i \in 1..Len(v) : v[i].err => i \in 1..Len(u) /\ v[i] = u[i]
<1> DEFINE b == Byte("NUL", Len(s), 0)
           v == Append(u, b)
           m == Len(u)
<1>1. m \in Nat /\ Len(s) \in Nat
  OBVIOUS
<1>2. b \in Bytes /\ b.k = 0 /\ b.id = Len(s) /\ b.c = "NUL" /\ ~b.err
  BY <1>1 DEF Byte, Bytes
<1> HIDE DEF b
<1>3. /\ v \in Seq(Bytes) /\ Len(v) = m + 1 /\ v[m + 1] = b
      /\ \A i \in 1..m : v[i] = u[i]
  BY <1>2
<1>4. Placed(b, s) /\ Ends(b, s)
  BY <1>1, <1>2 DEF Placed, Ends
<1> HIDE DEF v
<1>5. \A i \in 1..Len(v) : (i \in 1..m /\ v[i] = u[i]) \/ (i = m + 1 /\ v[i] = b)
  BY <1>1, <1>3
<1>6. \A i \in 1..Len(v) : Placed(v[i], s)
  BY <1>4, <1>5 DEF Stream
<1>7. \A i \in 1..Len(v) : i + 1 <= Len(v) => Adjoins(v[i], v[i + 1], s)
  <2>1. SUFFICES ASSUME NEW i \in 1..Len(v), i + 1 <= Len(v)
                 PROVE  Adjoins(v[i], v[i + 1], s)
    OBVIOUS
  <2>2. CASE i + 1 <= m
    <3>1. i \in 1..m /\ v[i] = u[i] /\ v[i + 1] = u[i + 1]
      BY <1>1, <1>3, <2>1, <2>2
    <3> QED BY <2>2, <3>1 DEF Stream
  <2>3. CASE i = m
    <3>1. v[i] = u[m] /\ v[i + 1] = b /\ m \in 1..m /\ u # <<>>
      BY <1>1, <1>3, <2>1, <2>3
    <3> QED BY <1>2, <3>1 DEF Stream, Adjoins
  <2> QED BY <1>1, <1>3, <2>1, <2>2, <2>3
<1>8. Stream(v, s)
  BY <1>1, <1>2, <1>3, <1>4, <1>6, <1>7 DEF Stream
<1>9. v # <<>> /\ Head(v) = IF u = <<>> THEN b ELSE Head(u)
  <2>1. Head(v) = v[1] /\ v # <<>>
    BY <1>1, <1>3
  <2>2. CASE u = <<>>
    BY <1>3, <2>1, <2>2
  <2>3. CASE u # <<>>
    <3>1. m >= 1 /\ Head(u) = u[1]
      BY <2>3
    <3> QED BY <1>1, <1>3, <2>1, <2>3, <3>1
  <2> QED BY <2>2, <2>3
<1>10. /\ Between(v) <=> Between(u)
       /\ Passed(v, s) = Passed(u, s)
       /\ ~Between(u) => v # <<>> /\ Head(v) = Head(u)
  BY <1>2, <1>9 DEF Between, Passed
<1>11. \A i \in 1..Len(v) : v[i].err => i \in 1..Len(u) /\ v[i] = u[i]
  BY <1>2, <1>5
<1> QED BY <1>3, <1>8, <1>10, <1>11 DEF v, b

\* byteSpoilt: the bytes stay where they are.
LEMMA SpoilStream ==
  ASSUME NEW s \in Seq(Texts), NEW u \in Seq(Bytes), Stream(u, s), NEW j \in 1..Len(u)
  PROVE  LET v == [u EXCEPT ![j].err = TRUE]
         IN  /\ v \in Seq(Bytes) /\ Stream(v, s)
             /\ Between(v) <=> Between(u)
             /\ Passed(v, s) = Passed(u, s)
             /\ ~Between(u) => v # <<>> /\ Head(v).k = Head(u).k
             /\ Len(v) = Len(u) /\ \A i \in 1..Len(u) : i # j => v[i] = u[i]
<1> DEFINE b == [u[j] EXCEPT !.err = TRUE]
           v == [u EXCEPT ![j] = b]
<1>1. u[j] \in Bytes /\ Len(u) \in Nat
  OBVIOUS
<1>2. b \in Bytes /\ b.c = u[j].c /\ b.k = u[j].k /\ b.id = u[j].id
  BY <1>1 DEF Bytes
<1> HIDE DEF b
<1>3. /\ v \in Seq(Bytes) /\ Len(v) = Len(u) /\ v[j] = b
      /\ \A i \in 1..Len(u) : i # j => v[i] = u[i]
  BY <1>2
<1>4. [u EXCEPT ![j].err = TRUE] = v
  BY DEF b
<1> HIDE DEF v
<1>5. \A i \in 1..Len(u) : v[i].c = u[i].c /\ v[i].k = u[i].k /\ v[i].id = u[i].id
  BY <1>2, <1>3
<1>6. /\ \A i \in 1..Len(u) : Placed(u[i], s) => Placed(v[i], s)
      /\ \A i \in 1..Len(u) : Ends(u[i], s) <=> Ends(v[i], s)
  BY <1>5 DEF Placed, Ends
<1>7. \A i \in 1..Len(u) : i + 1 <= Len(u) => Adjoins(v[i], v[i + 1], s)
  <2>1. SUFFICES ASSUME NEW i \in 1..Len(u), i + 1 <= Len(u)
                 PROVE  Adjoins(v[i], v[i + 1], s)
    OBVIOUS
  <2>2. i + 1 \in 1..Len(u) /\ Adjoins(u[i], u[i + 1], s)
    BY <1>1, <2>1 DEF Stream
  <2> QED BY <1>5, <1>6, <2>2 DEF Adjoins
<1>8. Len(u) \in 1..Len(u) /\ u # <<>> /\ v # <<>> /\ 1 \in 1..Len(u)
  BY <1>1, <1>3
<1>9. Stream(v, s)
  BY <1>3, <1>5, <1>6, <1>7, <1>8 DEF Stream
<1>10. Head(v).k = Head(u).k /\ Head(v).id = Head(u).id
  BY <1>3, <1>5, <1>8
<1>11. /\ Between(v) <=> Between(u)
       /\ Passed(v, s) = Passed(u, s)
  BY <1>8, <1>10 DEF Between, Passed
<1> QED BY <1>3, <1>4, <1>8, <1>9, <1>10, <1>11

----------------------------------------------------------------------------
(* The inductive invariant                                                 *)

Entry == [line : Nat, text : Seq(Letters \cup {"CR", "LF", "NUL"})]
Last(g) == IF g = <<>> THEN 0 ELSE g[Len(g)].line

\* The locals of readLine() and where it stands in it.
ReaderType ==
  /\ rl \in [at : {"idle", "waitForTx", "reading", "returned"},
             mode : {"", "Normal", "Simple", "Ignore"},
             status : {"", "line_empty", "line_data", "line_complete"},
             line : Seq(Bytes), n : Nat]
  /\ rl.n = Len(rl.line)
  /\ \A i \in 1..Len(rl.line) : rl.line[i].c \notin {"CR", "LF", "NUL"}
  /\ rl.at \in {"idle", "waitForTx"} => rl.line = <<>>
  /\ rl.status = "line_empty" => rl.line = <<>>
  /\ rl.status = "line_complete" => rl.at = "returned" /\ rl.line # <<>>
  /\ rl.at = "reading" => rl.status \in {"line_empty", "line_data"}
  /\ rl.at = "waitForTx" => rl.status = IF rl.mode = "Simple" THEN "line_data" ELSE "line_empty"

TypeInv ==
  /\ wired \subseteq Functions
  /\ serial_error \in {"NoError", "ReadTimeout", "NoReadFunction", "NoWriteFunction"}
  /\ sent \in Seq(Texts) /\ got \in Seq(Entry) /\ disturbed \in BOOLEAN
  /\ ReaderType

\* The bytes on the line are those of the lines printed; while no byte was
\* spoilt none has an error, and of one spoilt byte there is one.
WireInv ==
  /\ uart \in Seq(Bytes) /\ Stream(uart, sent)
  /\ bad \in Nat /\ bad <= MaxBad /\ (~disturbed => bad = 0)
  /\ bad = 0 => \A i \in 1..Len(uart) : ~uart[i].err
  /\ MaxBad <= 1 => \A i, j \in 1..Len(uart) : uart[i].err /\ uart[j].err => i = j

\* The line is made of bytes of one frame, in their order.
LineOf(line, s) ==
  /\ line[1].id \in 1..Len(s)
  /\ \A i \in 1..Len(line) :
       /\ line[i].id = line[1].id
       /\ line[i].k \in i + 2..Len(s[line[1].id]) + 2
       /\ line[i].c = s[line[1].id][line[i].k - 2]
  /\ \A i, j \in 1..Len(line) : i < j => line[i].k < line[j].k

\* The reader is still in the frame of its line, or the linefeed at the end of
\* it was the byte that is lost; then the next linefeed comes before any text.
LineInv ==
  MaxBad <= 1 /\ rl.at = "reading" /\ rl.line # <<>> =>
    /\ LineOf(rl.line, sent) /\ rl.line[1].id <= Passed(uart, sent)
    /\ \/ /\ ~Between(uart) /\ Passed(uart, sent) = rl.line[1].id
          /\ Head(uart).k > rl.line[Len(rl.line)].k
       \/ /\ bad = 1 /\ \A i \in 1..Len(uart) : ~uart[i].err
          /\ Between(uart) \/ Head(uart).k = 2

\* The line is the text of a frame up to where the reader stands.
Whole(line, u, s) ==
  /\ line[1].id \in 1..Len(s)
  /\ \A i \in 1..Len(line) :
       i <= Len(s[line[1].id]) /\ line[i].c = s[line[1].id][i]
  /\ ~Between(u) /\ Passed(u, s) = line[1].id
  /\ \/ Head(u).k = Len(line) + 3
     \/ Len(line) = Len(s[line[1].id]) /\ Head(u).k = Len(line) + 4

\* With no byte spoilt, a reader that waits for the first linefeed, or that
\* started between two lines, reads whole lines.
WholeInv ==
  /\ /\ rl.at = "reading" /\ rl.status = "line_data"
     /\ bad = 0 /\ (~disturbed \/ rl.mode # "Simple")
     => IF rl.line = <<>> THEN Between(uart) \/ Head(uart).k <= 3
        ELSE Whole(rl.line, uart, sent)
  /\ rl.status = "line_complete" /\ rl.mode # "Simple" /\ bad = 0 =>
       /\ rl.line[1].id \in 1..Len(sent)
       /\ Chars(rl.line) = sent[rl.line[1].id]

\* Lines are delivered in their order, and while nothing went wrong every one.
OrderInv ==
  /\ MaxBad <= 1 => Last(got) <= Passed(uart, sent)
  /\ MaxBad <= 1 /\ rl.at = "reading" /\ rl.line # <<>> => Last(got) <= rl.line[1].id
  /\ ~disturbed =>
       /\ Passed(uart, sent) = IF Between(uart) THEN Last(got) ELSE Last(got) + 1
       /\ rl.at # "reading" => Between(uart)
       /\ rl.at = "reading" /\ rl.status = "line_empty" =>
            Between(uart) \/ Head(uart).k = 2

SerialInv == TypeInv /\ WireInv /\ LineInv /\ WholeInv /\ OrderInv

----------------------------------------------------------------------------
(* The modem and the wire                                                  *)

\* What stands behind the reader's place does not matter to it.
LEMMA Behind ==
  ASSUME SerialInv, rl' = rl, got' = got,
         \A i \in 1..Len(sent) : i \in 1..Len(sent') /\ sent'[i] = sent[i],
         Between(uart') <=> Between(uart),
         Passed(uart', sent') = Passed(uart, sent),
         ~Between(uart) => Head(uart').k = Head(uart).k,
         \/ /\ bad' = bad /\ disturbed' = disturbed
            /\ (\A i \in 1..Len(uart) : ~uart[i].err) => \A i \in 1..Len(uart') : ~uart'[i].err
         \/ bad' # 0 /\ disturbed' = TRUE /\ (MaxBad <= 1 => bad = 0)
  PROVE  LineInv' /\ WholeInv' /\ OrderInv'
<1>0. LineInv /\ WholeInv /\ OrderInv
  BY DEF SerialInv
<1>1. LineInv'
  <2>1. SUFFICES ASSUME MaxBad <= 1, rl.at = "reading", rl.line # <<>>
                 PROVE  /\ LineOf(rl.line, sent') /\ rl.line[1].id <= Passed(uart', sent')
                        /\ \/ /\ ~Between(uart') /\ Passed(uart', sent') = rl.line[1].id
                              /\ Head(uart').k > rl.line[Len(rl.line)].k
                           \/ /\ bad' = 1 /\ \A i \in 1..Len(uart') : ~uart'[i].err
                              /\ Between(uart') \/ Head(uart').k = 2
    BY DEF LineInv
  <2>2. /\ LineOf(rl.line, sent) /\ rl.line[1].id <= Passed(uart, sent)
        /\ \/ /\ ~Between(uart) /\ Passed(uart, sent) = rl.line[1].id
              /\ Head(uart).k > rl.line[Len(rl.line)].k
           \/ /\ bad = 1 /\ \A i \in 1..Len(uart) : ~uart[i].err
              /\ Between(uart) \/ Head(uart).k = 2
    BY <1>0, <2>1 DEF LineInv
  <2>3. LineOf(rl.line, sent')
    BY <2>2 DEF LineOf
  <2> QED BY <2>1, <2>2, <2>3
<1>2. WholeInv'
  <2>1. /\ rl.at = "reading" /\ rl.status = "line_data"
        /\ bad' = 0 /\ (~disturbed' \/ rl.mode # "Simple")
        => IF rl.line = <<>> THEN Between(uart') \/ Head(uart').k <= 3
           ELSE Whole(rl.line, uart', sent')
    <3>1. SUFFICES ASSUME rl.at = "reading", rl.status = "line_data",
                          bad' = 0, ~disturbed' \/ rl.mode # "Simple"
                   PROVE  IF rl.line = <<>> THEN Between(uart') \/ Head(uart').k <= 3
                          ELSE Whole(rl.line, uart', sent')
      OBVIOUS
    <3>2. IF rl.line = <<>> THEN Between(uart) \/ Head(uart).k <= 3
          ELSE Whole(rl.line, uart, sent)
      BY <1>0, <3>1 DEF WholeInv
    <3>3. rl.line # <<>> => Whole(rl.line, uart', sent')
      BY <3>2 DEF Whole
    <3> QED BY <3>2, <3>3
  <2>2. rl.status = "line_complete" /\ rl.mode # "Simple" /\ bad' = 0 =>
          /\ rl.line[1].id \in 1..Len(sent')
          /\ Chars(rl.line) = sent'[rl.line[1].id]
    BY <1>0 DEF WholeInv
  <2> QED BY <2>1, <2>2 DEF WholeInv, Chars
<1>3. OrderInv'
  BY <1>0 DEF OrderInv, Last
<1> QED BY <1>1, <1>2, <1>3

LEMMA PrintStep ==
  ASSUME SerialInv, modemPrints
  PROVE  SerialInv'
<1>0. TypeInv /\ WireInv
  BY DEF SerialInv
<1>1. PICK t \in Texts : sent' = Append(sent, t) /\ uart' = uart \o Frame(t, Len(sent'))
  BY DEF modemPrints
<1>2. /\ wired' = wired /\ serial_error' = serial_error /\ rl' = rl /\ got' = got
      /\ disturbed' = disturbed /\ bad' = bad
  BY DEF modemPrints
<1>3. sent \in Seq(Texts) /\ uart \in Seq(Bytes) /\ Stream(uart, sent)
  BY <1>0 DEF TypeInv, WireInv
<1>4. Len(sent') = Len(sent) + 1 /\ Len(sent) \in Nat
  BY <1>1, <1>3
<1>5. /\ uart' \in Seq(Bytes) /\ sent' \in Seq(Texts) /\ Stream(uart', sent')
      /\ Between(uart') <=> Between(uart)
      /\ Passed(uart', sent') = Passed(uart, sent)
      /\ ~Between(uart) => uart' # <<>> /\ Head(uart') = Head(uart)
      /\ \A i \in 1..Len(uart') : uart'[i].err => i \in 1..Len(uart) /\ uart'[i] = uart[i]
  BY <1>1, <1>3, <1>4, PrintStream
<1>6. \A i \in 1..Len(sent) : i \in 1..Len(sent') /\ sent'[i] = sent[i]
  BY <1>1, <1>3, <1>4
<1>7. TypeInv'
  BY <1>0, <1>2, <1>5 DEF TypeInv, ReaderType
<1>8. WireInv'
  BY <1>0, <1>2, <1>5 DEF WireInv
<1>9. LineInv' /\ WholeInv' /\ OrderInv'
  BY <1>2, <1>5, <1>6, Behind
<1> QED BY <1>7, <1>8, <1>9 DEF SerialInv

LEMMA NulStep ==
  ASSUME SerialInv, nulByte
  PROVE  SerialInv'
<1>0. TypeInv /\ WireInv
  BY DEF SerialInv
<1>1. /\ uart' = Append(uart, Byte("NUL", Len(sent), 0)) /\ sent' = sent
      /\ wired' = wired /\ serial_error' = serial_error /\ rl' = rl /\ got' = got
      /\ disturbed' = disturbed /\ bad' = bad
  BY DEF nulByte
<1>2. sent \in Seq(Texts) /\ uart \in Seq(Bytes) /\ Stream(uart, sent)
  BY <1>0 DEF TypeInv, WireInv
<1>3. /\ uart' \in Seq(Bytes) /\ Stream(uart', sent)
      /\ Between(uart') <=> Between(uart)
      /\ Passed(uart', sent) = Passed(uart, sent)
      /\ ~Between(uart) => uart' # <<>> /\ Head(uart') = Head(uart)
      /\ \A i \in 1..Len(uart') : uart'[i].err => i \in 1..Len(uart) /\ uart'[i] = uart[i]
  BY <1>1, <1>2, NulStream
<1>4. TypeInv'
  BY <1>0, <1>1 DEF TypeInv, ReaderType
<1>5. WireInv'
  BY <1>0, <1>1, <1>3 DEF WireInv
<1>6. LineInv' /\ WholeInv' /\ OrderInv'
  BY <1>1, <1>3, Behind
<1> QED BY <1>4, <1>5, <1>6 DEF SerialInv

LEMMA SpoilStep ==
  ASSUME SerialInv, byteSpoilt
  PROVE  SerialInv'
<1>0. TypeInv /\ WireInv
  BY DEF SerialInv
<1>1. PICK j \in DOMAIN uart : uart' = [uart EXCEPT ![j].err = TRUE]
  BY DEF byteSpoilt
<1>2. /\ bad < MaxBad /\ bad' = bad + 1 /\ disturbed' = TRUE /\ sent' = sent
      /\ wired' = wired /\ serial_error' = serial_error /\ rl' = rl /\ got' = got
  BY DEF byteSpoilt
<1>3. sent \in Seq(Texts) /\ uart \in Seq(Bytes) /\ Stream(uart, sent) /\ j \in 1..Len(uart)
  BY <1>0, <1>1 DEF TypeInv, WireInv
<1>4. /\ uart' \in Seq(Bytes) /\ Stream(uart', sent)
      /\ Between(uart') <=> Between(uart)
      /\ Passed(uart', sent) = Passed(uart, sent)
      /\ ~Between(uart) => uart' # <<>> /\ Head(uart').k = Head(uart).k
      /\ Len(uart') = Len(uart) /\ \A i \in 1..Len(uart) : i # j => uart'[i] = uart[i]
  BY <1>1, <1>3, SpoilStream
<1>5. TypeInv'
  BY <1>0, <1>2 DEF TypeInv, ReaderType
<1>6. bad \in Nat /\ MaxBad \in Nat /\ bad' \in Nat /\ bad' # 0 /\ bad' <= MaxBad
      /\ (MaxBad <= 1 => bad = 0)
  BY <1>0, <1>2, SerialAssumption DEF WireInv
<1>7. WireInv'
  BY <1>0, <1>2, <1>4, <1>6 DEF WireInv
<1>8. LineInv' /\ WholeInv' /\ OrderInv'
  BY <1>2, <1>4, <1>6, Behind
<1> QED BY <1>5, <1>7, <1>8 DEF SerialInv

----------------------------------------------------------------------------
(* The calls around readLine()                                             *)

\* configSet...(), clearError(), the filters and write() leave the bytes and
\* the reader alone.
LEMMA CallStep ==
  ASSUME SerialInv, UNCHANGED <<uart, rl, sent, got, disturbed, bad>>,
         wired' \subseteq Functions,
         serial_error' \in {serial_error, "NoError", "NoReadFunction", "NoWriteFunction"}
  PROVE  SerialInv'
<1>1. TypeInv'
  BY DEF SerialInv, TypeInv, ReaderType
<1>2. WireInv'
  BY DEF SerialInv, WireInv
<1>3. LineInv' /\ WholeInv' /\ OrderInv'
  BY Behind
<1> QED BY <1>1, <1>2, <1>3 DEF SerialInv

\* The reader is not in the loop: nothing is claimed of its line.
LEMMA OutsideStep ==
  ASSUME SerialInv, UNCHANGED <<uart, sent, got, disturbed, bad, wired>>,
         serial_error' = serial_error,
         ReaderType', rl.at # "reading", rl'.at # "reading", rl'.status # "line_complete"
  PROVE  SerialInv'
<1>1. TypeInv'
  BY DEF SerialInv, TypeInv
<1>2. WireInv'
  BY DEF SerialInv, WireInv
<1>3. LineInv' /\ WholeInv'
  BY DEF LineInv, WholeInv
<1>4. OrderInv'
  BY DEF SerialInv, OrderInv
<1> QED BY <1>1, <1>2, <1>3, <1>4 DEF SerialInv

LEMMA EmptyLine ==
  <<>> \in Seq(Bytes) /\ Len(<<>>) = 0 /\ \A i \in 1..0 : FALSE
OBVIOUS

LEMMA ReadLineStep ==
  ASSUME SerialInv, NEW mode \in {"Normal", "Simple", "Ignore"}, readLine(mode)
  PROVE  SerialInv'
<1>1. CASE {"readStatus", "readByte"} \subseteq wired
  <2>1. /\ rl' = [at |-> "waitForTx", mode |-> mode, line |-> <<>>, n |-> 0,
                  status |-> IF mode = "Simple" THEN "line_data" ELSE "line_empty"]
        /\ rl.at = "idle" /\ UNCHANGED <<uart, sent, got, disturbed, bad, wired, serial_error>>
    BY <1>1 DEF readLine, Idle
  <2>2. /\ rl'.at = "waitForTx" /\ rl'.mode = mode /\ rl'.line = <<>> /\ rl'.n = 0
        /\ rl'.status = IF rl'.mode = "Simple" THEN "line_data" ELSE "line_empty"
        /\ rl' \in [at : {"idle", "waitForTx", "reading", "returned"},
                    mode : {"", "Normal", "Simple", "Ignore"},
                    status : {"", "line_empty", "line_data", "line_complete"},
                    line : Seq(Bytes), n : Nat]
    <3>1. mode \in {"", "Normal", "Simple", "Ignore"}
      OBVIOUS
    <3>2. (IF mode = "Simple" THEN "line_data" ELSE "line_empty")
             \in {"", "line_empty", "line_data", "line_complete"}
      OBVIOUS
    <3> QED BY <2>1, <3>1, <3>2, EmptyLine
  <2>3. ReaderType'
    BY <2>2, EmptyLine DEF ReaderType
  <2> QED BY <2>1, <2>2, <2>3, OutsideStep
<1>2. CASE ~({"readStatus", "readByte"} \subseteq wired)
  <2>1. /\ serial_error' = "NoReadFunction" /\ wired \subseteq Functions
        /\ UNCHANGED <<uart, rl, sent, got, disturbed, bad, wired>>
    BY <1>2 DEF readLine, SerialInv, TypeInv
  <2> QED BY <2>1, CallStep
<1> QED BY <1>1, <1>2

LEMMA ReturnStep ==
  ASSUME SerialInv, Return
  PROVE  SerialInv'
<1>1. /\ rl' = NoRead /\ rl.at = "returned"
      /\ UNCHANGED <<uart, sent, got, disturbed, bad, wired, serial_error>>
  BY DEF Return
<1>2. /\ rl'.at = "idle" /\ rl'.line = <<>> /\ rl'.n = 0 /\ rl'.status = ""
      /\ rl' \in [at : {"idle", "waitForTx", "reading", "returned"},
                  mode : {"", "Normal", "Simple", "Ignore"},
                  status : {"", "line_empty", "line_data", "line_complete"},
                  line : Seq(Bytes), n : Nat]
  BY <1>1, EmptyLine DEF NoRead
<1>3. ReaderType'
  BY <1>2, EmptyLine DEF ReaderType
<1> QED BY <1>1, <1>2, <1>3, OutsideStep

LEMMA WaitForTxStep ==
  ASSUME SerialInv, waitForTx
  PROVE  SerialInv'
<1>0. TypeInv /\ ReaderType /\ OrderInv /\ WireInv
  BY DEF SerialInv, TypeInv
<1>1. /\ rl' = [rl EXCEPT !.at = "reading"] /\ rl.at = "waitForTx"
      /\ UNCHANGED <<uart, sent, got, disturbed, bad, wired, serial_error>>
  BY DEF waitForTx
<1>2. /\ rl'.at = "reading" /\ rl'.mode = rl.mode /\ rl'.status = rl.status
      /\ rl'.line = rl.line /\ rl'.n = rl.n /\ rl.line = <<>>
      /\ rl.status = IF rl.mode = "Simple" THEN "line_data" ELSE "line_empty"
  BY <1>0, <1>1 DEF ReaderType
<1>3. ReaderType'
  BY <1>0, <1>1, <1>2 DEF ReaderType
<1>4. TypeInv'
  BY <1>0, <1>1, <1>3 DEF TypeInv
<1>5. WireInv'
  BY <1>0, <1>1 DEF WireInv
<1>6. LineInv'
  BY <1>2 DEF LineInv
<1>7. WholeInv'
  BY <1>0, <1>1, <1>2 DEF WholeInv, OrderInv
<1>8. OrderInv'
  BY <1>0, <1>1, <1>2 DEF OrderInv
<1> QED BY <1>4, <1>5, <1>6, <1>7, <1>8 DEF SerialInv

----------------------------------------------------------------------------
(* readLine() takes a byte                                                 *)

LEMMA Took ==
  ASSUME SerialInv, readRaw
  PROVE  /\ WireInv' /\ rl.at = "reading"
         /\ UNCHANGED <<wired, serial_error, sent, disturbed, bad>>
         /\ uartInChar \in Bytes /\ Placed(uartInChar, sent)
         /\ uartInChar.k \in Nat /\ uartInChar.id \in Nat
         /\ Passed(uart', sent) = uartInChar.id
         /\ Passed(uart, sent) = IF uartInChar.k = 1 THEN uartInChar.id - 1 ELSE uartInChar.id
         /\ Between(uart) <=> uartInChar.k <= 1
         /\ Head(uart).k = uartInChar.k
         /\ Ends(uartInChar, sent) => Between(uart')
         /\ ~Ends(uartInChar, sent) =>
              Head(uart').k = uartInChar.k + 1 /\ uartInChar.k >= 1 /\ ~Between(uart')
         /\ bad = 0 => ~uartInChar.err
         /\ MaxBad <= 1 /\ uartInChar.err => \A i \in 1..Len(uart') : ~uart'[i].err
         /\ (\A i \in 1..Len(uart) : ~uart[i].err) =>
              ~uartInChar.err /\ \A i \in 1..Len(uart') : ~uart'[i].err
<1>0. TypeInv /\ WireInv
  BY DEF SerialInv
<1>1. /\ uart # <<>> /\ uart' = Tail(uart) /\ rl.at = "reading" /\ uartInChar = Head(uart)
      /\ UNCHANGED <<wired, serial_error, sent, disturbed, bad>>
  BY DEF readRaw, uartInChar
<1>2. sent \in Seq(Texts) /\ uart \in Seq(Bytes) /\ Stream(uart, sent)
  BY <1>0 DEF TypeInv, WireInv
<1>3. /\ uartInChar \in Bytes /\ Placed(uartInChar, sent)
      /\ uart' \in Seq(Bytes) /\ Stream(uart', sent)
      /\ Passed(uart', sent) = uartInChar.id
      /\ Ends(uartInChar, sent) => Between(uart')
      /\ ~Ends(uartInChar, sent) => /\ Head(uart').k = uartInChar.k + 1
                                    /\ uartInChar.k >= 1 /\ ~Between(uart')
      /\ \A i \in 1..Len(uart') : uart'[i] = uart[i + 1] /\ i + 1 \in 1..Len(uart)
  BY <1>1, <1>2, Consume
<1>4. uartInChar.k \in Nat /\ uartInChar.id \in Nat
  BY <1>3 DEF Bytes
<1>5. 1 \in 1..Len(uart) /\ uartInChar = uart[1] /\ Len(uart') \in Nat
  BY <1>1, <1>2, <1>3
<1>6. \A i \in 1..Len(uart') : i + 1 # 1
  BY <1>5
<1>7. /\ bad = 0 => \A i \in 1..Len(uart) : ~uart[i].err
      /\ MaxBad <= 1 => \A i, j \in 1..Len(uart) : uart[i].err /\ uart[j].err => i = j
  BY <1>0 DEF WireInv
<1>8. /\ (\A i \in 1..Len(uart) : ~uart[i].err) =>
           ~uartInChar.err /\ \A i \in 1..Len(uart') : ~uart'[i].err
      /\ MaxBad <= 1 /\ uartInChar.err => \A i \in 1..Len(uart') : ~uart'[i].err
  BY <1>3, <1>5, <1>6, <1>7
<1>9. MaxBad <= 1 => \A i, j \in 1..Len(uart') : uart'[i].err /\ uart'[j].err => i = j
  <2>1. SUFFICES ASSUME MaxBad <= 1, NEW i \in 1..Len(uart'), NEW j \in 1..Len(uart'),
                        uart'[i].err, uart'[j].err
                 PROVE  i = j
    OBVIOUS
  <2>2. i + 1 \in 1..Len(uart) /\ j + 1 \in 1..Len(uart) /\ uart[i + 1].err /\ uart[j + 1].err
    BY <1>3, <2>1
  <2>3. i + 1 = j + 1
    BY <1>7, <2>1, <2>2
  <2> QED BY <1>5, <2>3
<1>10. WireInv'
  BY <1>0, <1>1, <1>3, <1>7, <1>8, <1>9 DEF WireInv
<1>11. /\ Passed(uart, sent) = IF uartInChar.k = 1 THEN uartInChar.id - 1 ELSE uartInChar.id
       /\ Between(uart) <=> uartInChar.k <= 1
  BY <1>1 DEF Passed, Between
<1> QED BY <1>1, <1>3, <1>4, <1>7, <1>8, <1>10, <1>11

LEMMA LastType ==
  ASSUME NEW g \in Seq(Entry)
  PROVE  Last(g) \in Nat
<1>1. g # <<>> => g[Len(g)] \in Entry
  OBVIOUS
<1> QED BY <1>1 DEF Last, Entry

LEMMA LineFacts ==
  ASSUME ReaderType
  PROVE  /\ rl.line \in Seq(Bytes) /\ rl.n = Len(rl.line) /\ rl.n \in Nat
         /\ rl.line = <<>> <=> rl.n = 0
         /\ rl.line # <<>> =>
              /\ rl.n >= 1 /\ 1 \in 1..Len(rl.line) /\ Len(rl.line) \in 1..Len(rl.line)
              /\ rl.line[1] \in Bytes /\ rl.line[Len(rl.line)] \in Bytes
              /\ rl.line[1].id \in Nat /\ rl.line[Len(rl.line)].k \in Nat
         /\ rl.at = "reading" => rl.status \in {"line_empty", "line_data"}
         /\ rl.at = "reading" /\ rl.line # <<>> => rl.status = "line_data"
<1>1. rl.line \in Seq(Bytes) /\ rl.n = Len(rl.line)
  BY DEF ReaderType
<1>2. rl.line # <<>> => /\ Len(rl.line) >= 1 /\ Len(rl.line) \in Nat
                        /\ rl.line[1] \in Bytes /\ rl.line[Len(rl.line)] \in Bytes
  BY <1>1
<1>3. rl.line = <<>> => Len(rl.line) = 0
  OBVIOUS
<1>4. \A b \in Bytes : b.id \in Nat /\ b.k \in Nat
  BY DEF Bytes
<1>5. /\ rl.at = "reading" => rl.status \in {"line_empty", "line_data"}
      /\ rl.at = "reading" /\ rl.line # <<>> => rl.status = "line_data"
  BY DEF ReaderType
<1> QED BY <1>1, <1>2, <1>3, <1>4, <1>5

LEMMA DropByteStep ==
  ASSUME SerialInv, dropByte
  PROVE  SerialInv'
<1> DEFINE h == uartInChar
           s == sent
           L == Len(s[h.id])
<1>0. TypeInv /\ WireInv /\ LineInv /\ WholeInv /\ OrderInv /\ ReaderType
  BY DEF SerialInv, TypeInv
<1>1. /\ readRaw /\ rl' = rl /\ got' = got
      /\ \/ h.err \/ h.c \in {"CR", "NUL"}
         \/ h.c \notin {"CR", "LF", "NUL"} /\ rl.status = "line_empty"
         \/ h.c = "LF" /\ rl.status = "line_data" /\ rl.n = 0
  BY DEF dropByte, IsText
<1>2. /\ WireInv' /\ rl.at = "reading"
      /\ UNCHANGED <<wired, serial_error, sent, disturbed, bad>>
      /\ h \in Bytes /\ Placed(h, s) /\ h.k \in Nat /\ h.id \in Nat
      /\ Passed(uart', s) = h.id
      /\ Passed(uart, s) = IF h.k = 1 THEN h.id - 1 ELSE h.id
      /\ Between(uart) <=> h.k <= 1
      /\ Head(uart).k = h.k
      /\ Ends(h, s) => Between(uart')
      /\ ~Ends(h, s) => Head(uart').k = h.k + 1 /\ h.k >= 1 /\ ~Between(uart')
      /\ bad = 0 => ~h.err
      /\ MaxBad <= 1 /\ h.err => \A i \in 1..Len(uart') : ~uart'[i].err
      /\ (\A i \in 1..Len(uart) : ~uart[i].err) =>
           ~h.err /\ \A i \in 1..Len(uart') : ~uart'[i].err
  BY <1>1, Took
<1>3. sent \in Seq(Texts)
  BY <1>0 DEF TypeInv
<1>4. /\ h.k = 0 => h.c = "NUL" /\ Ends(h, s)
      /\ h.k # 0 => h.id \in 1..Len(s) /\ h.k \in 1..L + 4 /\ L \in Nat /\ L >= 1
      /\ h.k # 0 /\ h.k \in 3..L + 2 => h.c \notin {"CR", "LF", "NUL"}
      /\ h.k # 0 /\ Ends(h, s) => h.k = L + 4 /\ h.c = "LF"
      /\ h.k \in {1, 2, 3} => ~Ends(h, s)
      /\ h.k = 1 => h.c = "CR"
  BY <1>2, <1>3, PlacedIs
<1>5. h.k = 2 => h.c = "LF"
  BY <1>2 DEF Placed
<1>6. rl.line # <<>> => rl.status = "line_data" /\ rl.n > 0
  BY <1>0, <1>2, LineFacts
<1> HIDE DEF h, s, L
<1>7. rl.status \in {"line_empty", "line_data"}
  BY <1>0, <1>2 DEF ReaderType
<1>8. Passed(uart', sent') = h.id /\ h.id >= Passed(uart, s) /\ s = sent
      /\ Passed(uart, s) \in Int
  BY <1>2 DEF s
<1>t. TypeInv'
  BY <1>0, <1>1, <1>2 DEF TypeInv, ReaderType
<1>l. LineInv'
  <2>1. SUFFICES ASSUME MaxBad <= 1, rl.at = "reading", rl.line # <<>>
                 PROVE  /\ LineOf(rl.line, s) /\ rl.line[1].id <= h.id
                        /\ \/ /\ ~Between(uart') /\ h.id = rl.line[1].id
                              /\ Head(uart').k > rl.line[Len(rl.line)].k
                           \/ /\ bad = 1 /\ \A i \in 1..Len(uart') : ~uart'[i].err
                              /\ Between(uart') \/ Head(uart').k = 2
    BY <1>1, <1>2, <1>8 DEF LineInv
  <2>2. /\ LineOf(rl.line, s) /\ rl.line[1].id <= Passed(uart, s)
        /\ \/ /\ ~Between(uart) /\ Passed(uart, s) = rl.line[1].id
              /\ h.k > rl.line[Len(rl.line)].k
           \/ /\ bad = 1 /\ \A i \in 1..Len(uart) : ~uart[i].err
              /\ Between(uart) \/ h.k = 2
    BY <1>0, <1>2, <1>8, <2>1 DEF LineInv
  <2>3. h.err \/ h.c \in {"CR", "NUL"}
    BY <1>1, <1>6, <2>1
  <2>4. /\ rl.line[1].id \in Int /\ rl.line[Len(rl.line)].k \in Int
    BY <1>0, <2>1, LineFacts
  <2>5. rl.line[1].id <= h.id
    BY <1>2, <1>8, <2>2, <2>4
  <2>6. CASE /\ ~Between(uart) /\ Passed(uart, s) = rl.line[1].id
             /\ h.k > rl.line[Len(rl.line)].k
    <3>1. h.k > 1 /\ h.id = rl.line[1].id
      BY <1>2, <2>6
    <3>2. CASE ~Ends(h, s)
      BY <1>2, <2>2, <2>4, <2>5, <2>6, <3>1, <3>2
    <3>3. CASE Ends(h, s)
      <4>1. h.c = "LF"
        BY <1>2, <1>4, <3>1, <3>3
      <4>2. h.err
        BY <2>3, <4>1
      <4>3. bad \in Nat /\ bad <= MaxBad /\ bad # 0 /\ MaxBad \in Nat
        BY <1>0, <1>2, <4>2, SerialAssumption DEF WireInv
      <4>4. bad = 1
        BY <2>1, <4>3
      <4> QED BY <1>2, <2>1, <2>2, <2>5, <3>3, <4>2, <4>4
    <3> QED BY <3>2, <3>3
  <2>7. CASE /\ bad = 1 /\ \A i \in 1..Len(uart) : ~uart[i].err
             /\ Between(uart) \/ h.k = 2
    <3>1. ~h.err /\ \A i \in 1..Len(uart') : ~uart'[i].err
      BY <1>2, <2>7
    <3>2. h.k <= 1
      BY <1>2, <1>5, <2>3, <2>7, <3>1
    <3>3. CASE h.k = 0
      BY <1>2, <1>4, <2>2, <2>5, <2>7, <3>1, <3>3
    <3>4. CASE h.k = 1
      BY <1>2, <1>4, <2>2, <2>5, <2>7, <3>1, <3>4
    <3> QED BY <1>2, <3>2, <3>3, <3>4
  <2> QED BY <2>2, <2>6, <2>7
<1>w. WholeInv'
  <2>1. SUFFICES ASSUME rl.status = "line_data", bad = 0, ~disturbed \/ rl.mode # "Simple"
                 PROVE  IF rl.line = <<>> THEN Between(uart') \/ Head(uart').k <= 3
                        ELSE Whole(rl.line, uart', s)
    BY <1>1, <1>2, <1>7, <1>8 DEF WholeInv
  <2>2. IF rl.line = <<>> THEN Between(uart) \/ h.k <= 3 ELSE Whole(rl.line, uart, s)
    BY <1>0, <1>2, <1>8, <2>1 DEF WholeInv
  <2>3. h.c \in {"CR", "NUL"} \/ (h.c = "LF" /\ rl.n = 0)
    BY <1>1, <1>2, <2>1
  <2>4. CASE rl.line = <<>>
    <3>1. h.k <= 3
      BY <1>2, <2>2, <2>4
    <3>2. h.k # 3
      BY <1>4, <2>3
    <3> QED BY <1>2, <1>4, <2>4, <3>1, <3>2
  <2>5. CASE rl.line # <<>>
    <3> DEFINE n == Len(rl.line)
    <3>1. Whole(rl.line, uart, s)
      BY <2>2, <2>5
    <3>2. n \in Nat /\ n >= 1 /\ n \in 1..n /\ rl.n = n
      BY <1>0, <2>5, LineFacts
    <3> HIDE DEF n
    <3>3. h.k > 1 /\ h.id = rl.line[1].id
      BY <1>2, <3>1 DEF Whole
    <3>4. n <= L /\ (h.k = n + 3 \/ (n = L /\ h.k = n + 4))
      BY <1>2, <3>1, <3>2, <3>3 DEF Whole, n, L
    <3>5. h.c \in {"CR", "NUL"}
      BY <2>3, <3>2
    <3>6. L \in Nat /\ L >= 1 /\ h.k # L + 4 /\ h.k \notin 3..L + 2
      <4>1. L \in Nat /\ L >= 1
        BY <1>2, <1>4, <3>3
      <4>2. h.k = L + 4 => h.c = "LF"
        BY <1>2, <3>3 DEF Placed, L
      <4> QED BY <1>2, <1>4, <3>3, <3>5, <4>1, <4>2
    <3>7. n = L /\ h.k = n + 3
      BY <1>2, <3>2, <3>4, <3>6
    <3>8. ~Ends(h, s)
      BY <1>4, <3>3, <3>6
    <3>9. ~Between(uart') /\ Head(uart').k = n + 4 /\ Passed(uart', s) = rl.line[1].id
      BY <1>2, <3>2, <3>3, <3>7, <3>8
    <3>10. n = Len(s[rl.line[1].id])
      BY <3>3, <3>7 DEF L
    <3> QED BY <2>5, <3>1, <3>9, <3>10 DEF Whole, n
  <2> QED BY <2>4, <2>5
<1>o. OrderInv'
  <2>1. MaxBad <= 1 => Last(got) <= h.id
    <3>1. SUFFICES ASSUME MaxBad <= 1 PROVE Last(got) <= h.id
      OBVIOUS
    <3>2. Last(got) <= Passed(uart, s)
      BY <1>0, <1>8, <3>1 DEF OrderInv
    <3>3. Last(got) \in Int
      BY <1>0, LastType DEF TypeInv
    <3> QED BY <1>2, <1>8, <3>2, <3>3
  <2>2. MaxBad <= 1 /\ rl.line # <<>> => Last(got) <= rl.line[1].id
    BY <1>0, <1>2 DEF OrderInv
  <2>3. ASSUME ~disturbed
        PROVE  /\ h.id = IF Between(uart') THEN Last(got) ELSE Last(got) + 1
               /\ rl.status = "line_empty" => Between(uart') \/ Head(uart').k = 2
    <3>1. bad = 0 /\ ~h.err
      BY <1>0, <1>2, <2>3 DEF WireInv
    <3>2. /\ Passed(uart, s) = IF Between(uart) THEN Last(got) ELSE Last(got) + 1
          /\ rl.status = "line_empty" => Between(uart) \/ h.k = 2
      BY <1>0, <1>2, <1>8, <2>3 DEF OrderInv
    <3>3. rl.status = "line_data" /\ rl.n = 0 => h.k <= 3
      <4>1. rl.n = 0 => rl.line = <<>>
        BY <1>0, LineFacts
      <4> QED BY <1>0, <1>2, <2>3, <3>1, <4>1 DEF WholeInv
    <3>4. CASE h.k = 0
      BY <1>2, <1>4, <3>2, <3>4
    <3>5. CASE h.k = 1
      <4>1. Last(got) \in Int
        BY <1>0, LastType DEF TypeInv
      <4> QED BY <1>2, <1>4, <3>2, <3>5, <4>1
    <3>6. CASE h.k > 1
      <4>1. rl.status = "line_empty" => FALSE
        BY <1>1, <1>2, <1>5, <3>1, <3>2, <3>6
      <4>2. ~Ends(h, s)
        BY <1>1, <1>2, <1>4, <3>1, <3>3, <3>6, <4>1
      <4> QED BY <1>2, <3>2, <3>6, <4>1, <4>2
    <3> QED BY <1>2, <3>4, <3>5, <3>6
  <2> QED BY <1>1, <1>2, <1>8, <2>1, <2>2, <2>3 DEF OrderInv
<1> QED BY <1>2, <1>t, <1>l, <1>w, <1>o DEF SerialInv

LEMMA FirstLinefeedStep ==
  ASSUME SerialInv, firstLinefeed
  PROVE  SerialInv'
<1> DEFINE h == uartInChar
           L == Len(sent[h.id])
<1>0. TypeInv /\ WireInv /\ LineInv /\ WholeInv /\ OrderInv /\ ReaderType
  BY DEF SerialInv, TypeInv
<1>1. /\ readRaw /\ rl' = [rl EXCEPT !.status = "line_data"] /\ got' = got
      /\ ~h.err /\ h.c = "LF" /\ rl.status = "line_empty"
  BY DEF firstLinefeed, Received
<1>2. /\ WireInv' /\ rl.at = "reading"
      /\ UNCHANGED <<wired, serial_error, sent, disturbed, bad>>
      /\ h \in Bytes /\ Placed(h, sent) /\ h.k \in Nat /\ h.id \in Nat
      /\ Passed(uart', sent) = h.id
      /\ Passed(uart, sent) = IF h.k = 1 THEN h.id - 1 ELSE h.id
      /\ Between(uart) <=> h.k <= 1
      /\ Head(uart).k = h.k
      /\ Ends(h, sent) => Between(uart')
      /\ ~Ends(h, sent) => Head(uart').k = h.k + 1 /\ h.k >= 1 /\ ~Between(uart')
  BY <1>1, Took
<1>3. sent \in Seq(Texts)
  BY <1>0 DEF TypeInv
<1>4. h.k # 0 /\ h.k # 1 /\ h.k \in {2, L + 4} /\ (h.k = 2 => ~Ends(h, sent))
      /\ (h.k = L + 4 => Ends(h, sent))
  <2>1. /\ h.k # 0 /\ h.k \in {2, L + 4} /\ (h.k = 2 => ~Ends(h, sent))
        /\ (h.k = 1 => h.c = "CR")
    BY <1>1, <1>2, <1>3, PlacedIs
  <2> QED BY <1>1, <2>1 DEF Ends
<1> HIDE DEF h, L
<1>5. /\ rl'.at = "reading" /\ rl'.mode = rl.mode /\ rl'.status = "line_data"
      /\ rl'.line = <<>> /\ rl'.n = rl.n /\ rl.line = <<>>
  BY <1>0, <1>1, <1>2 DEF ReaderType
<1>6. ReaderType'
  BY <1>0, <1>1, <1>5 DEF ReaderType
<1>t. TypeInv'
  BY <1>0, <1>1, <1>2, <1>6 DEF TypeInv
<1>l. LineInv'
  BY <1>5 DEF LineInv
<1>w. WholeInv'
  BY <1>2, <1>4, <1>5 DEF WholeInv
<1>o. OrderInv'
  <2>1. MaxBad <= 1 => Last(got) <= h.id
    BY <1>0, <1>2, <1>4 DEF OrderInv
  <2>2. ~disturbed => ~Between(uart') /\ h.id = Last(got) + 1
    <3>1. ~disturbed => h.k = 2 /\ h.id = Last(got) + 1
      BY <1>0, <1>1, <1>2, <1>4 DEF OrderInv
    <3> QED BY <1>2, <1>4, <3>1
  <2> QED BY <1>1, <1>2, <1>5, <2>1, <2>2 DEF OrderInv
<1> QED BY <1>2, <1>t, <1>l, <1>w, <1>o DEF SerialInv

\* The byte the line grows by.
LEMMA Grown ==
  ASSUME NEW line \in Seq(Bytes), NEW b \in Bytes
  PROVE  LET more == Append(line, b)
         IN  /\ more \in Seq(Bytes) /\ Len(more) = Len(line) + 1 /\ more # <<>>
             /\ more[Len(line) + 1] = b /\ Len(line) \in Nat
             /\ \A i \in 1..Len(line) : more[i] = line[i]
             /\ \A i \in 1..Len(line) + 1 : i \in 1..Len(line) \/ i = Len(line) + 1
             /\ line = <<>> => Len(line) = 0 /\ more[1] = b
             /\ line # <<>> => /\ 1 \in 1..Len(line) /\ more[1] = line[1]
                               /\ Len(line) \in 1..Len(line)
<1>1. Len(line) \in Nat /\ (line = <<>> => Len(line) = 0) /\ (line # <<>> => Len(line) >= 1)
  OBVIOUS
<1>2. /\ Append(line, b) \in Seq(Bytes) /\ Len(Append(line, b)) = Len(line) + 1
      /\ Append(line, b)[Len(line) + 1] = b
      /\ \A i \in 1..Len(line) : Append(line, b)[i] = line[i]
  OBVIOUS
<1>3. Append(line, b) # <<>>
  BY AppendProperties, Zenon
<1> QED BY <1>1, <1>2, <1>3

LEMMA PushCharStep ==
  ASSUME SerialInv, pushChar
  PROVE  SerialInv'
<1> DEFINE h == uartInChar
           L == Len(sent[h.id])
           n == Len(rl.line)
           lid == rl.line[1].id
           more == Append(rl.line, h)
<1>0. TypeInv /\ WireInv /\ LineInv /\ WholeInv /\ OrderInv /\ ReaderType
  BY DEF SerialInv, TypeInv
<1>1. /\ readRaw /\ rl' = [rl EXCEPT !.line = more, !.n = rl.n + 1] /\ got' = got
      /\ ~h.err /\ h.c \notin {"CR", "LF", "NUL"} /\ rl.status = "line_data"
  BY DEF pushChar, Received, IsText
<1>2. /\ WireInv' /\ rl.at = "reading"
      /\ UNCHANGED <<wired, serial_error, sent, disturbed, bad>>
      /\ h \in Bytes /\ Placed(h, sent) /\ h.k \in Nat /\ h.id \in Nat
      /\ Passed(uart', sent) = h.id
      /\ Passed(uart, sent) = IF h.k = 1 THEN h.id - 1 ELSE h.id
      /\ Between(uart) <=> h.k <= 1
      /\ Head(uart).k = h.k
      /\ ~Ends(h, sent) => Head(uart').k = h.k + 1 /\ h.k >= 1 /\ ~Between(uart')
  BY <1>1, Took
<1>3. sent \in Seq(Texts)
  BY <1>0 DEF TypeInv
<1>4. /\ h.k \in 3..L + 2 /\ h.c = sent[h.id][h.k - 2] /\ ~Ends(h, sent)
      /\ h.id \in 1..Len(sent) /\ L \in Nat
  <2>1. /\ h.k # 0 => h.id \in 1..Len(sent) /\ L \in Nat
        /\ h.k \in 3..L + 2 /\ h.c = sent[h.id][h.k - 2] /\ ~Ends(h, sent)
        /\ h.k = 0 => Ends(h, sent)
    BY <1>1, <1>2, <1>3, PlacedIs
  <2> QED BY <2>1
<1>5. rl.line \in Seq(Bytes) /\ rl.n = n
  BY <1>0 DEF ReaderType
<1>6. /\ more \in Seq(Bytes) /\ Len(more) = n + 1 /\ more # <<>>
      /\ more[n + 1] = h /\ n \in Nat
      /\ \A i \in 1..n : more[i] = rl.line[i]
      /\ \A i \in 1..n + 1 : i \in 1..n \/ i = n + 1
      /\ rl.line = <<>> => n = 0 /\ more[1] = h
      /\ rl.line # <<>> => /\ 1 \in 1..n /\ more[1] = rl.line[1]
                           /\ n \in 1..n
  BY <1>2, <1>5, Grown
<1> HIDE DEF h, L, n, more
<1>7. h.k >= 3 /\ h.k <= L + 2 /\ ~Between(uart) /\ ~Between(uart') /\ Head(uart').k = h.k + 1
      /\ Passed(uart, sent) = h.id /\ Passed(uart', sent') = h.id
  BY <1>2, <1>4
<1>8. /\ rl'.at = "reading" /\ rl'.mode = rl.mode /\ rl'.status = "line_data"
      /\ rl'.line = more /\ rl'.n = n + 1
  BY <1>0, <1>1, <1>2, <1>5 DEF ReaderType
<1>9. ReaderType'
  <2>1. rl' \in [at : {"idle", "waitForTx", "reading", "returned"},
                 mode : {"", "Normal", "Simple", "Ignore"},
                 status : {"", "line_empty", "line_data", "line_complete"},
                 line : Seq(Bytes), n : Nat]
    <3>1. n + 1 \in Nat
      BY <1>6
    <3> QED BY <1>0, <1>1, <1>5, <1>6, <3>1 DEF ReaderType
  <2>2. \A i \in 1..Len(more) : more[i].c \notin {"CR", "LF", "NUL"}
    <3>1. \A i \in 1..n : rl.line[i].c \notin {"CR", "LF", "NUL"}
      BY <1>0 DEF ReaderType, n
    <3> QED BY <1>1, <1>6, <3>1
  <2> QED BY <1>6, <1>8, <2>1, <2>2 DEF ReaderType
<1>t. TypeInv'
  BY <1>0, <1>1, <1>2, <1>9 DEF TypeInv
<1>l. LineInv'
  <2>1. SUFFICES ASSUME MaxBad <= 1
                 PROVE  /\ LineOf(more, sent) /\ more[1].id = h.id
                        /\ Head(uart').k > more[Len(more)].k
    BY <1>2, <1>7, <1>8 DEF LineInv
  <2>2. Head(uart').k > more[Len(more)].k
    BY <1>2, <1>6, <1>7
  <2>3. CASE rl.line = <<>>
    <3>1. Len(more) = 1 /\ more[1] = h
      BY <1>6, <2>3
    <3>2. h.k \in 1 + 2..L + 2
      BY <1>4
    <3> QED BY <1>2, <1>4, <2>2, <3>1, <3>2 DEF LineOf, L
  <2>4. CASE rl.line # <<>>
    <3>1. LineOf(rl.line, sent) /\ lid = h.id /\ h.k > rl.line[n].k
      <4>1. \/ Passed(uart, sent) = lid /\ h.k > rl.line[n].k
            \/ Between(uart) \/ h.k = 2
        BY <1>0, <1>2, <2>1, <2>4 DEF LineInv, n
      <4>2. LineOf(rl.line, sent)
        BY <1>0, <1>2, <2>1, <2>4 DEF LineInv
      <4> QED BY <1>7, <4>1, <4>2
    <3>2. more[1].id = h.id /\ more[1] = rl.line[1]
      BY <1>6, <2>4, <3>1
    <3>3. /\ \A i \in 1..n : /\ rl.line[i].id = h.id
                             /\ rl.line[i].k \in i + 2..L + 2
                             /\ rl.line[i].c = sent[h.id][rl.line[i].k - 2]
          /\ \A i, j \in 1..n : i < j => rl.line[i].k < rl.line[j].k
      BY <3>1 DEF LineOf, L, n
    <3>4. \A i \in 1..n : rl.line[i].k \in Nat /\ rl.line[i].k <= rl.line[n].k
      <4>1. \A i \in 1..n : i < n \/ i = n
        BY <1>6
      <4>2. \A i \in 1..n : rl.line[i].k \in Nat
        <5>1. \A i \in 1..n : rl.line[i] \in Bytes
          BY <1>5 DEF n
        <5> QED BY <5>1 DEF Bytes
      <4>3. n \in 1..n /\ rl.line[n].k \in Nat
        BY <1>6, <2>4, <4>2
      <4>4. \A i \in 1..n : i < n => rl.line[i].k < rl.line[n].k
        BY <3>3, <4>3
      <4> QED BY <4>1, <4>2, <4>3, <4>4
    <3>5. h.k \in (n + 1) + 2..L + 2
      <4>1. rl.line[n].k >= n + 2
        BY <1>6, <2>4, <3>3, <3>4
      <4> QED BY <1>4, <1>6, <2>4, <3>1, <3>4, <4>1
    <3>6. \A i \in 1..n + 1 : /\ more[i].id = h.id
                              /\ more[i].k \in i + 2..L + 2
                              /\ more[i].c = sent[h.id][more[i].k - 2]
      BY <1>4, <1>6, <3>3, <3>5
    <3>7. \A i, j \in 1..n + 1 : i < j => more[i].k < more[j].k
      <4>1. SUFFICES ASSUME NEW i \in 1..n + 1, NEW j \in 1..n + 1, i < j
                     PROVE  more[i].k < more[j].k
        OBVIOUS
      <4>2. i \in 1..n
        BY <1>6, <4>1
      <4>3. CASE j \in 1..n
        BY <1>6, <3>3, <4>1, <4>2, <4>3
      <4>4. CASE j = n + 1
        <5>1. rl.line[i].k < h.k
          BY <1>2, <1>6, <2>4, <3>1, <3>4, <4>2
        <5> QED BY <1>6, <4>2, <4>4, <5>1
      <4> QED BY <1>6, <4>3, <4>4
    <3> QED BY <1>4, <1>6, <2>2, <3>2, <3>6, <3>7 DEF LineOf, L
  <2> QED BY <2>3, <2>4
<1>w. WholeInv'
  <2>1. SUFFICES ASSUME bad = 0, ~disturbed \/ rl.mode # "Simple"
                 PROVE  Whole(more, uart', sent)
    BY <1>2, <1>6, <1>8 DEF WholeInv
  <2>2. IF rl.line = <<>> THEN Between(uart) \/ h.k <= 3 ELSE Whole(rl.line, uart, sent)
    BY <1>0, <1>1, <1>2, <2>1 DEF WholeInv
  <2>3. CASE rl.line = <<>>
    <3>1. h.k = 3 /\ Len(more) = 1 /\ more[1] = h
      BY <1>2, <1>6, <1>7, <2>2, <2>3
    <3>2. h.c = sent[h.id][1] /\ 1 <= L
      BY <1>4, <3>1
    <3>3. /\ \A i \in 1..Len(more) : i <= L /\ more[i].c = sent[h.id][i]
          /\ Head(uart').k = Len(more) + 3
      BY <1>7, <3>1, <3>2
    <3> QED BY <1>2, <1>4, <1>7, <3>1, <3>3 DEF Whole, L
  <2>4. CASE rl.line # <<>>
    <3>1. /\ lid = h.id
          /\ \A i \in 1..n : i <= L /\ rl.line[i].c = sent[h.id][i]
          /\ h.k = n + 3 \/ (n = L /\ h.k = n + 4)
      <4>1. /\ Passed(uart, sent) = lid
            /\ \A i \in 1..n : i <= Len(sent[lid]) /\ rl.line[i].c = sent[lid][i]
            /\ h.k = n + 3 \/ (n = Len(sent[lid]) /\ h.k = n + 4)
        BY <1>2, <2>2, <2>4 DEF Whole, n
      <4> QED BY <1>7, <4>1 DEF L
    <3>2. h.k = n + 3 /\ n + 1 <= L /\ h.c = sent[h.id][n + 1]
      BY <1>4, <1>6, <1>7, <3>1
    <3>3. more[1].id = h.id
      BY <1>6, <2>4, <3>1
    <3>4. /\ \A i \in 1..Len(more) : i <= L /\ more[i].c = sent[h.id][i]
          /\ Head(uart').k = Len(more) + 3
      BY <1>6, <1>7, <3>1, <3>2
    <3> QED BY <1>2, <1>4, <1>7, <3>3, <3>4 DEF Whole, L
  <2> QED BY <2>3, <2>4
<1>o. OrderInv'
  <2>1. MaxBad <= 1 => Last(got) <= h.id
    BY <1>0, <1>7 DEF OrderInv
  <2>2. MaxBad <= 1 => Last(got) <= more[1].id
    BY <1>0, <1>2, <1>6, <2>1 DEF OrderInv
  <2>3. ~disturbed => h.id = Last(got) + 1
    BY <1>0, <1>7 DEF OrderInv
  <2> QED BY <1>1, <1>2, <1>7, <1>8, <2>1, <2>2, <2>3 DEF OrderInv
<1> QED BY <1>2, <1>t, <1>l, <1>w, <1>o DEF SerialInv

----------------------------------------------------------------------------
(* A line goes out                                                         *)

\* What Delivered() appends.
LEMMA DeliveredIs ==
  ASSUME NEW line \in Seq(Bytes), line # <<>>, got \in Seq(Entry)
  PROVE  /\ Delivered(line) \in Seq(Entry) /\ Last(Delivered(line)) = line[1].id
         /\ Chars(line) = [i \in 1..Len(line) |-> line[i].c]
<1>1. Len(line) \in Nat /\ Len(line) >= 1 /\ \A i \in 1..Len(line) : line[i] \in Bytes
  OBVIOUS
<1>2. line[1].id \in Nat /\ \A i \in 1..Len(line) : line[i].c \in Letters \cup {"CR", "LF", "NUL"}
  BY <1>1 DEF Bytes
<1>3. Chars(line) = [i \in 1..Len(line) |-> line[i].c]
  BY <1>1 DEF Chars
<1>4. Chars(line) \in Seq(Letters \cup {"CR", "LF", "NUL"})
  BY <1>1, <1>2, <1>3
<1> DEFINE e == [line |-> line[1].id, text |-> Chars(line)]
<1>5. e \in Entry /\ e.line = line[1].id
  BY <1>2, <1>4 DEF Entry
<1>6. Delivered(line) = Append(got, e)
  BY DEF Delivered
<1> HIDE DEF e
<1>7. Append(got, e) \in Seq(Entry) /\ Append(got, e) # <<>>
  BY <1>5, AppendProperties, Zenon
<1>8. Append(got, e)[Len(Append(got, e))] = e
  BY <1>5
<1> QED BY <1>3, <1>5, <1>6, <1>7, <1>8 DEF Last

\* What is left of a line is a piece of it.
LEMMA PieceOf ==
  ASSUME NEW line \in Seq(Bytes), line # <<>>, LineOf(line, sent), sent \in Seq(Texts)
  PROVE  line[1].id \in DOMAIN sent /\ Chars(line) \in Lines!Pieces(sent[line[1].id])
<1> DEFINE lid == line[1].id
           t == sent[lid]
           m == Len(line)
           f == [i \in 1..m |-> line[i].k - 2]
<1>1. m \in Nat /\ m >= 1 /\ m \in 1..m
  OBVIOUS
<1>2. lid \in 1..Len(sent) /\ lid \in DOMAIN sent
  BY DEF LineOf
<1>3. t \in Seq(Letters) /\ Len(t) \in Nat /\ DOMAIN t = 1..Len(t)
  BY <1>2, SerialAssumption
<1>4. /\ \A i \in 1..m : line[i].k \in i + 2..Len(t) + 2 /\ line[i].c = t[line[i].k - 2]
      /\ \A i, j \in 1..m : i < j => line[i].k < line[j].k
  BY DEF LineOf
<1> HIDE DEF lid, t, m
<1>5. m \in 1..Len(t)
  <2>1. line[m].k \in m + 2..Len(t) + 2
    BY <1>1, <1>4
  <2> QED BY <1>1, <1>3, <2>1
<1>6. \A i \in 1..m : line[i].k - 2 \in 1..Len(t) /\ line[i].k \in Int
  BY <1>1, <1>3, <1>4
<1>7. f \in [1..m -> DOMAIN t]
  BY <1>3, <1>6
<1>8. \A i, j \in 1..m : i < j => f[i] < f[j]
  <2>1. SUFFICES ASSUME NEW i \in 1..m, NEW j \in 1..m, i < j
                 PROVE  f[i] < f[j]
    OBVIOUS
  <2>2. line[i].k < line[j].k /\ line[i].k \in Int /\ line[j].k \in Int
    BY <1>4, <1>6, <2>1
  <2>3. f[i] = line[i].k - 2 /\ f[j] = line[j].k - 2
    OBVIOUS
  <2> QED BY <2>2, <2>3
<1>9. Chars(line) = [i \in 1..m |-> t[f[i]]]
  <2>1. Chars(line) = [i \in 1..m |-> line[i].c]
    BY DEF Chars, m
  <2>2. \A i \in 1..m : line[i].c = t[f[i]]
    BY <1>4
  <2> QED BY <2>1, <2>2
<1> HIDE DEF f
<1>10. Chars(line) \in Lines!Pieces(t)
  <2> DEFINE Places(q) == {g \in [1..q -> DOMAIN t] : \A i, j \in 1..q : i < j => g[i] < g[j]}
             Of(q) == {[i \in 1..q |-> t[g[i]]] : g \in Places(q)}
  <2>1. f \in Places(m)
    BY <1>7, <1>8
  <2> HIDE DEF Places
  <2>2. Chars(line) \in Of(m)
    BY <1>9, <2>1
  <2> HIDE DEF Of
  <2>3. Chars(line) \in UNION {Of(q) : q \in 1..Len(t)}
    BY <1>5, <2>2
  <2> QED BY <2>3 DEF Lines!Pieces, Of, Places
<1> QED BY <1>2, <1>10 DEF lid, t

LEMMA GiveUpStep ==
  ASSUME SerialInv, GiveUp, rl.at \in {"waitForTx", "reading"},
         serial_error' \in {serial_error, "ReadTimeout"}
  PROVE  SerialInv'
<1>0. TypeInv /\ WireInv /\ LineInv /\ WholeInv /\ OrderInv /\ ReaderType
  BY DEF SerialInv, TypeInv
<1>1. /\ rl' = [rl EXCEPT !.at = "returned"]
      /\ got' = IF rl.line = <<>> THEN got ELSE Delivered(rl.line)
      /\ disturbed' = (disturbed \/ rl.line # <<>> \/ (uart # <<>> /\ Head(uart).k > 1))
      /\ UNCHANGED <<wired, uart, sent, bad>>
  BY DEF GiveUp
<1>2. /\ rl'.at = "returned" /\ rl'.mode = rl.mode /\ rl'.status = rl.status
      /\ rl'.line = rl.line /\ rl'.n = rl.n /\ rl.status # "line_complete"
      /\ (rl.at = "waitForTx" => rl.line = <<>>) /\ rl.line \in Seq(Bytes)
  BY <1>0, <1>1 DEF ReaderType
<1>3. ReaderType'
  BY <1>0, <1>1, <1>2 DEF ReaderType
<1>4. disturbed' \in BOOLEAN /\ (~disturbed' => ~disturbed /\ rl.line = <<>>)
  BY <1>0, <1>1, Zenon DEF TypeInv
<1>5. ~disturbed' => Between(uart)
  <2>1. ~disturbed' => ~(uart # <<>> /\ Head(uart).k > 1)
    BY <1>1, Zenon
  <2>2. uart # <<>> => Head(uart).k \in Nat
    <3>1. uart # <<>> => Head(uart) \in Bytes
      BY <1>0 DEF WireInv
    <3> QED BY <3>1 DEF Bytes
  <2> QED BY <2>1, <2>2 DEF Between
<1>6. got \in Seq(Entry)
  BY <1>0 DEF TypeInv
<1>7. got' \in Seq(Entry) /\ (rl.line # <<>> => Last(got') = rl.line[1].id)
      /\ (rl.line = <<>> => got' = got)
  BY <1>1, <1>2, <1>6, DeliveredIs
<1>t. TypeInv'
  BY <1>0, <1>1, <1>3, <1>4, <1>7 DEF TypeInv
<1>c. WireInv'
  BY <1>0, <1>1, <1>4 DEF WireInv
<1>l. LineInv'
  BY <1>2 DEF LineInv
<1>w. WholeInv'
  BY <1>2 DEF WholeInv
<1>o. OrderInv'
  <2>1. MaxBad <= 1 => Last(got') <= Passed(uart, sent)
    BY <1>0, <1>2, <1>7 DEF OrderInv, LineInv
  <2>2. ~disturbed' => Between(uart) /\ Passed(uart, sent) = Last(got')
    BY <1>0, <1>4, <1>5, <1>7 DEF OrderInv
  <2> QED BY <1>1, <1>2, <2>1, <2>2 DEF OrderInv
<1> QED BY <1>t, <1>c, <1>l, <1>w, <1>o DEF SerialInv

\* A linefeed that ends a line: which line it is, and that the reader has left
\* it when nothing was lost.
LEMMA EndFacts ==
  ASSUME SerialInv, EndsLine
  PROVE  /\ rl.line # <<>>
         /\ MaxBad <= 1 => /\ LineOf(rl.line, sent) /\ Last(got) <= rl.line[1].id
                           /\ rl.line[1].id <= Passed(uart', sent)
         /\ bad = 0 /\ (~disturbed \/ rl.mode # "Simple") =>
              /\ rl.line[1].id \in 1..Len(sent) /\ Chars(rl.line) = sent[rl.line[1].id]
              /\ Between(uart') /\ Passed(uart', sent) = rl.line[1].id
         /\ ~disturbed => rl.line[1].id = Last(got) + 1
<1> DEFINE h == uartInChar
           n == Len(rl.line)
           lid == rl.line[1].id
           t == sent[lid]
<1>0. TypeInv /\ WireInv /\ LineInv /\ WholeInv /\ OrderInv /\ ReaderType
  BY DEF SerialInv, TypeInv
<1>1. readRaw /\ ~h.err /\ h.c = "LF" /\ rl.status = "line_data" /\ rl.n > 0
  BY DEF EndsLine, Received
<1>2. /\ rl.at = "reading" /\ UNCHANGED <<sent, disturbed, bad>>
      /\ h \in Bytes /\ Placed(h, sent) /\ h.k \in Nat /\ h.id \in Nat
      /\ Passed(uart', sent) = h.id
      /\ Passed(uart, sent) = IF h.k = 1 THEN h.id - 1 ELSE h.id
      /\ Between(uart) <=> h.k <= 1
      /\ Head(uart).k = h.k
      /\ Ends(h, sent) => Between(uart')
  BY <1>1, Took
<1>3. sent \in Seq(Texts)
  BY <1>0 DEF TypeInv
<1>4. h.k # 0 /\ h.k # 1 /\ h.k \in {2, Len(sent[h.id]) + 4}
  BY <1>1, <1>2, <1>3, PlacedIs
<1>5. /\ rl.line # <<>> /\ n \in Nat /\ n >= 1 /\ n \in 1..n /\ rl.line \in Seq(Bytes)
      /\ lid \in Nat
  BY <1>0, <1>1, LineFacts
<1> HIDE DEF h
<1>6. Passed(uart, sent) = h.id
  BY <1>2, <1>4
<1>7. MaxBad <= 1 => LineOf(rl.line, sent) /\ Last(got) <= lid /\ lid <= h.id
  BY <1>0, <1>2, <1>5, <1>6 DEF LineInv, OrderInv
<1>8. ASSUME bad = 0, ~disturbed \/ rl.mode # "Simple"
      PROVE  lid \in 1..Len(sent) /\ Chars(rl.line) = t /\ Between(uart') /\ h.id = lid
             /\ ~Between(uart)
  <2>1. Whole(rl.line, uart, sent)
    BY <1>0, <1>1, <1>2, <1>5, <1>8 DEF WholeInv
  <2>2. /\ lid \in 1..Len(sent) /\ ~Between(uart) /\ h.id = lid
        /\ \A i \in 1..n : i <= Len(t) /\ rl.line[i].c = t[i]
        /\ h.k = n + 3 \/ (n = Len(t) /\ h.k = n + 4)
    BY <1>2, <1>6, <2>1 DEF Whole
  <2>3. t \in Seq(Letters) /\ Len(t) \in Nat
    BY <1>3, <2>2, SerialAssumption
  <2> HIDE DEF n, lid, t
  <2>4. h.k \in {2, Len(t) + 4}
    BY <1>4, <2>2 DEF t
  <2>5. n = Len(t) /\ h.k = Len(t) + 4
    BY <1>5, <2>2, <2>3, <2>4
  <2>6. Ends(h, sent)
    BY <2>2, <2>5 DEF Ends, t
  <2>7. Chars(rl.line) = [i \in 1..n |-> rl.line[i].c]
    BY <1>5 DEF Chars, n
  <2>8. Chars(rl.line) = [i \in 1..n |-> t[i]]
    BY <2>2, <2>7
  <2>9. t = [i \in 1..n |-> t[i]]
    BY <2>3, <2>5
  <2> QED BY <1>2, <2>2, <2>6, <2>8, <2>9
<1>9. ~disturbed => lid = Last(got) + 1
  <2>1. ~disturbed => bad = 0
    BY <1>0 DEF WireInv
  <2>2. ~disturbed => lid = h.id /\ ~Between(uart)
    BY <1>8, <2>1
  <2> QED BY <1>0, <1>6, <2>2 DEF OrderInv
<1> QED BY <1>2, <1>5, <1>7, <1>8, <1>9

LEMMA CallHandlerStep ==
  ASSUME SerialInv, callHandler
  PROVE  SerialInv'
<1>0. TypeInv /\ WireInv /\ ReaderType
  BY DEF SerialInv, TypeInv
<1>1. EndsLine /\ readRaw /\ got' = Delivered(rl.line) /\ rl' = [rl EXCEPT !.line = <<>>, !.n = 0]
      /\ rl.status = "line_data"
  BY DEF callHandler, EndsLine, Received
<1>2. WireInv' /\ rl.at = "reading" /\ UNCHANGED <<wired, serial_error, sent, disturbed, bad>>
  BY <1>1, Took
<1>3. /\ rl.line # <<>>
      /\ MaxBad <= 1 => rl.line[1].id <= Passed(uart', sent)
      /\ bad = 0 /\ (~disturbed \/ rl.mode # "Simple") =>
           Between(uart') /\ Passed(uart', sent) = rl.line[1].id
  BY <1>1, EndFacts
<1>4. rl.line \in Seq(Bytes) /\ got \in Seq(Entry)
  BY <1>0 DEF TypeInv, ReaderType
<1>5. got' \in Seq(Entry) /\ Last(got') = rl.line[1].id
  BY <1>1, <1>3, <1>4, DeliveredIs
<1>6. /\ rl'.at = "reading" /\ rl'.mode = rl.mode /\ rl'.status = "line_data"
      /\ rl'.line = <<>> /\ rl'.n = 0
  BY <1>0, <1>1, <1>2 DEF ReaderType
<1>7. rl' \in [at : {"idle", "waitForTx", "reading", "returned"},
               mode : {"", "Normal", "Simple", "Ignore"},
               status : {"", "line_empty", "line_data", "line_complete"},
               line : Seq(Bytes), n : Nat]
  BY <1>0, <1>1, EmptyLine DEF ReaderType
<1>8. ReaderType'
  BY <1>6, <1>7, EmptyLine DEF ReaderType
<1>9. ~disturbed => bad = 0
  BY <1>0 DEF WireInv
<1>t. TypeInv'
  BY <1>0, <1>2, <1>5, <1>8 DEF TypeInv
<1>l. LineInv'
  BY <1>6 DEF LineInv
<1>w. WholeInv'
  BY <1>2, <1>3, <1>6 DEF WholeInv
<1>o. OrderInv'
  BY <1>2, <1>3, <1>5, <1>6, <1>9 DEF OrderInv
<1> QED BY <1>2, <1>t, <1>l, <1>w, <1>o DEF SerialInv

LEMMA LineCompleteStep ==
  ASSUME SerialInv, lineComplete
  PROVE  SerialInv'
<1>0. TypeInv /\ WireInv /\ ReaderType
  BY DEF SerialInv, TypeInv
<1>1. /\ EndsLine /\ readRaw /\ got' = Delivered(rl.line)
      /\ rl' = [rl EXCEPT !.at = "returned", !.status = "line_complete"]
  BY DEF lineComplete, EndsLine, Received
<1>2. WireInv' /\ rl.at = "reading" /\ UNCHANGED <<wired, serial_error, sent, disturbed, bad>>
  BY <1>1, Took
<1>3. /\ rl.line # <<>>
      /\ MaxBad <= 1 => rl.line[1].id <= Passed(uart', sent)
      /\ bad = 0 /\ (~disturbed \/ rl.mode # "Simple") =>
           /\ rl.line[1].id \in 1..Len(sent) /\ Chars(rl.line) = sent[rl.line[1].id]
           /\ Between(uart') /\ Passed(uart', sent) = rl.line[1].id
  BY <1>1, EndFacts
<1>4. rl.line \in Seq(Bytes) /\ got \in Seq(Entry)
  BY <1>0 DEF TypeInv, ReaderType
<1>5. got' \in Seq(Entry) /\ Last(got') = rl.line[1].id
  BY <1>1, <1>3, <1>4, DeliveredIs
<1>6. /\ rl'.at = "returned" /\ rl'.mode = rl.mode /\ rl'.status = "line_complete"
      /\ rl'.line = rl.line /\ rl'.n = rl.n
  BY <1>0, <1>1, <1>2 DEF ReaderType
<1>7. rl' \in [at : {"idle", "waitForTx", "reading", "returned"},
               mode : {"", "Normal", "Simple", "Ignore"},
               status : {"", "line_empty", "line_data", "line_complete"},
               line : Seq(Bytes), n : Nat]
  BY <1>0, <1>1 DEF ReaderType
<1>8. ReaderType'
  BY <1>0, <1>3, <1>6, <1>7 DEF ReaderType
<1>9. ~disturbed => bad = 0
  BY <1>0 DEF WireInv
<1>t. TypeInv'
  BY <1>0, <1>2, <1>5, <1>8 DEF TypeInv
<1>l. LineInv'
  BY <1>6 DEF LineInv
<1>w. WholeInv'
  BY <1>2, <1>3, <1>6 DEF WholeInv, Chars
<1>o. OrderInv'
  BY <1>2, <1>3, <1>5, <1>6, <1>9 DEF OrderInv
<1> QED BY <1>2, <1>t, <1>l, <1>w, <1>o DEF SerialInv

----------------------------------------------------------------------------
(* Every step, and what follows                                            *)

LEMMA InitSerialInv == Init => SerialInv
<1>1. SUFFICES ASSUME Init PROVE SerialInv
  OBVIOUS
<1>2. /\ wired = {} /\ serial_error = "NoError" /\ uart = <<>> /\ rl = NoRead
      /\ sent = <<>> /\ got = <<>> /\ disturbed = FALSE /\ bad = 0
  BY <1>1 DEF Init
<1>3. MaxBad \in Nat
  BY SerialAssumption
<1>4. /\ sent \in Seq(Texts) /\ got \in Seq(Entry) /\ uart \in Seq(Bytes)
      /\ Len(sent) = 0 /\ Len(uart) = 0 /\ \A i \in 1..Len(uart) : FALSE
  BY <1>2
<1>5. /\ rl.at = "idle" /\ rl.line = <<>> /\ rl.n = 0 /\ rl.status = ""
      /\ rl \in [at : {"idle", "waitForTx", "reading", "returned"},
                 mode : {"", "Normal", "Simple", "Ignore"},
                 status : {"", "line_empty", "line_data", "line_complete"},
                 line : Seq(Bytes), n : Nat]
  BY <1>2, EmptyLine DEF NoRead
<1>6. ReaderType
  BY <1>5, EmptyLine DEF ReaderType
<1>7. TypeInv
  BY <1>2, <1>4, <1>6 DEF TypeInv
<1>8. WireInv
  <2>1. Stream(uart, sent)
    BY <1>2, <1>4 DEF Stream
  <2> QED BY <1>2, <1>3, <1>4, <2>1 DEF WireInv
<1>9. LineInv /\ WholeInv
  BY <1>5 DEF LineInv, WholeInv
<1>10. OrderInv
  <2>1. Passed(uart, sent) = 0
    BY <1>2, <1>4 DEF Passed
  <2>2. Between(uart) /\ Last(got) = 0
    BY <1>2 DEF Between, Last
  <2>3. Last(got) <= Passed(uart, sent)
    BY <2>1, <2>2
  <2>4. rl.at # "reading"
    BY <1>5
  <2>5. Passed(uart, sent) = IF Between(uart) THEN Last(got) ELSE Last(got) + 1
    BY <2>1, <2>2
  <2> QED BY <2>2, <2>3, <2>4, <2>5, Zenon DEF OrderInv
<1> QED BY <1>7, <1>8, <1>9, <1>10 DEF SerialInv

LEMMA ConfigStep ==
  ASSUME SerialInv,
         \/ \E f \in Functions, given \in BOOLEAN : configSet(f, given)
         \/ clearError
         \/ \E p \in Prefixes : addUrcFilter(p) \/ removeUrcFilter(p)
         \/ write
  PROVE  SerialInv'
<1>0. wired \subseteq Functions
  BY DEF SerialInv, TypeInv
<1>1. UNCHANGED <<uart, rl, sent, got, disturbed, bad>>
  BY DEF configSet, clearError, addUrcFilter, removeUrcFilter, write
<1>2. wired' \subseteq Functions
  BY <1>0 DEF configSet, clearError, addUrcFilter, removeUrcFilter, write
<1>3. serial_error' \in {serial_error, "NoError", "NoReadFunction", "NoWriteFunction"}
  <2>1. ASSUME NEW f \in Functions, NEW given \in BOOLEAN, configSet(f, given)
        PROVE  serial_error' \in {serial_error, "NoReadFunction", "NoWriteFunction"}
    BY <2>1 DEF configSet
  <2>2. write => serial_error' \in {serial_error, "NoWriteFunction"}
    BY DEF write
  <2> QED BY <2>1, <2>2 DEF clearError, addUrcFilter, removeUrcFilter
<1> QED BY <1>1, <1>2, <1>3, CallStep

LEMMA StepSerialInv == SerialInv /\ [Next]_vars => SerialInv'
<1>1. SUFFICES ASSUME SerialInv, [Next]_vars PROVE SerialInv'
  OBVIOUS
<1>2. CASE \/ \E f \in Functions, given \in BOOLEAN : configSet(f, given)
           \/ clearError
           \/ \E p \in Prefixes : addUrcFilter(p) \/ removeUrcFilter(p)
           \/ write
  BY <1>1, <1>2, ConfigStep
<1>3. CASE \E mode \in {"Normal", "Simple", "Ignore"} : readLine(mode)
  BY <1>1, <1>3, ReadLineStep
<1>4. CASE waitForTx
  BY <1>1, <1>4, WaitForTxStep
<1>5. CASE dropByte
  BY <1>1, <1>5, DropByteStep
<1>6. CASE firstLinefeed
  BY <1>1, <1>6, FirstLinefeedStep
<1>7. CASE pushChar
  BY <1>1, <1>7, PushCharStep
<1>8. CASE callHandler
  BY <1>1, <1>8, CallHandlerStep
<1>9. CASE lineComplete
  BY <1>1, <1>9, LineCompleteStep
<1>10. CASE readTimeout \/ readTimeoutUnseen
  <2>1. /\ GiveUp /\ rl.at \in {"waitForTx", "reading"}
        /\ serial_error' \in {serial_error, "ReadTimeout"}
    BY <1>10 DEF readTimeout, readTimeoutUnseen
  <2> QED BY <1>1, <2>1, GiveUpStep
<1>11. CASE Return
  BY <1>1, <1>11, ReturnStep
<1>12. CASE modemPrints
  BY <1>1, <1>12, PrintStep
<1>13. CASE byteSpoilt
  BY <1>1, <1>13, SpoilStep
<1>14. CASE nulByte
  BY <1>1, <1>14, NulStep
<1>15. CASE UNCHANGED vars
  <2>1. /\ UNCHANGED <<uart, rl, sent, got, disturbed, bad>> /\ wired' = wired
        /\ serial_error' = serial_error
    BY <1>15 DEF vars
  <2>2. wired \subseteq Functions
    BY <1>1 DEF SerialInv, TypeInv
  <2> QED BY <1>1, <2>1, <2>2, CallStep
<1> QED
  BY <1>1, <1>2, <1>3, <1>4, <1>5, <1>6, <1>7, <1>8, <1>9, <1>10, <1>11, <1>12, <1>13,
     <1>14, <1>15 DEF Next, ReadStep

\* In every state readLine() can be in, with any modem, any noise and any
\* caller, the bytes on the line are the rest of what was printed, the
\* collected line lies in one frame while at most one byte is lost, and
\* delivered lines are in order.
THEOREM SerialInvariant == Spec => []SerialInv
<1>1. Init => SerialInv
  BY InitSerialInv
<1>2. SerialInv /\ [Next]_vars => SerialInv'
  BY StepSerialInv
<1> QED BY <1>1, <1>2, PTL DEF Spec

\* readLine()'s index is always the length of its line, only text is pushed
\* and its status is one of the four.
THEOREM SerialTypeCorrect == Spec => []SerialTypeOK
<1>1. SerialInv => SerialTypeOK
  <2>1. SUFFICES ASSUME SerialInv PROVE SerialTypeOK
    OBVIOUS
  <2>2. TypeInv /\ ReaderType
    BY <2>1 DEF SerialInv, TypeInv
  <2>3. DOMAIN rl.line = 1..Len(rl.line)
    <3>1. rl.line \in Seq(Bytes)
      BY <2>2 DEF ReaderType
    <3> QED BY <3>1
  <2>4. \A i \in DOMAIN rl.line : rl.line[i].c \notin {"CR", "LF", "NUL"}
    BY <2>2, <2>3 DEF ReaderType
  <2>5. rl.status \in {"", "line_empty", "line_data", "line_complete"} /\ rl.n = Len(rl.line)
    BY <2>2 DEF ReaderType
  <2> QED BY <2>2, <2>4, <2>5 DEF TypeInv, SerialTypeOK
<1> QED BY <1>1, SerialInvariant, PTL

\* A line that readLine() completes after it waited for the first linefeed is
\* a whole line of the modem, wherever the reader before it gave up.
THEOREM SerialWhole == Spec => []WholeAfterResync
<1>1. SerialInv => WholeAfterResync
  BY DEF SerialInv, WholeInv, WholeAfterResync
<1> QED BY <1>1, SerialInvariant, PTL

----------------------------------------------------------------------------
(* The refinement                                                          *)

\* The line that readLine() or the handler of a filter gets is what LineQueue
\* delivers.
LEMMA DeliverStep ==
  ASSUME SerialInv, MaxBad <= 1, rl.line # <<>>, rl.at = "reading", sent' = sent,
         got' = Delivered(rl.line), disturbed' \in {disturbed, TRUE},
         LineOf(rl.line, sent), Last(got) <= rl.line[1].id,
         ~disturbed' => /\ rl.line[1].id = Last(got) + 1
                        /\ Chars(rl.line) = sent[rl.line[1].id]
  PROVE  Lines!Next
<1> DEFINE lid == rl.line[1].id
           t == Chars(rl.line)
<1>1. rl.line \in Seq(Bytes) /\ sent \in Seq(Texts) /\ got \in Seq(Entry)
  BY DEF SerialInv, TypeInv, ReaderType
<1>2. lid \in DOMAIN sent /\ t \in Lines!Pieces(sent[lid])
  BY <1>1, PieceOf
<1>3. Last(got) \in Nat /\ lid \in Nat
  BY <1>1, LastType DEF LineOf
<1>4. Last(got) = Lines!LastLine
  BY DEF Last, Lines!LastLine
<1>5. got' = Append(got, [line |-> lid, text |-> t])
  BY DEF Delivered
<1> HIDE DEF lid, t
<1>6. IF disturbed' THEN lid >= Lines!LastLine ELSE lid = Lines!LastLine + 1 /\ t = sent[lid]
  BY <1>3, <1>4 DEF lid, t
<1>7. Lines!Deliver
  BY <1>2, <1>5, <1>6, Zenon DEF Lines!Deliver
<1> QED BY <1>7 DEF Lines!Next

LEMMA StepRefines ==
  ASSUME SerialInv, MaxBad <= 1, [Next]_vars
  PROVE  [Lines!Next]_<<sent, got, disturbed>>
<1>0. TypeInv /\ LineInv /\ OrderInv /\ ReaderType
  BY DEF SerialInv, TypeInv
<1>1. ASSUME EndsLine, got' = Delivered(rl.line)
      PROVE  Lines!Next
  <2>1. /\ rl.line # <<>> /\ LineOf(rl.line, sent) /\ Last(got) <= rl.line[1].id
        /\ bad = 0 /\ (~disturbed \/ rl.mode # "Simple") => Chars(rl.line) = sent[rl.line[1].id]
        /\ ~disturbed => rl.line[1].id = Last(got) + 1
    BY <1>1, EndFacts
  <2>2. rl.at = "reading" /\ UNCHANGED <<sent, disturbed>>
    BY <1>1 DEF EndsLine, Received, readRaw
  <2>3. ~disturbed => bad = 0
    BY DEF SerialInv, WireInv
  <2> QED BY <1>1, <2>1, <2>2, <2>3, DeliverStep
<1>2. CASE callHandler \/ lineComplete
  BY <1>1, <1>2 DEF callHandler, lineComplete
<1>3. CASE readTimeout \/ readTimeoutUnseen
  <2>1. GiveUp /\ rl.at \in {"waitForTx", "reading"} /\ sent' = sent
    BY <1>3 DEF readTimeout, readTimeoutUnseen, GiveUp
  <2>2. disturbed' = (disturbed \/ rl.line # <<>> \/ (uart # <<>> /\ Head(uart).k > 1))
        /\ disturbed \in BOOLEAN
    BY <1>0, <2>1 DEF GiveUp, TypeInv
  <2>3. disturbed' \in {disturbed, TRUE} /\ (rl.line # <<>> => disturbed' = TRUE)
    BY <2>2, Zenon
  <2>4. CASE rl.line = <<>>
    <3>1. got' = got
      BY <2>1, <2>4 DEF GiveUp
    <3> QED BY <2>1, <2>3, <3>1 DEF Lines!Next, Lines!Disturb
  <2>5. CASE rl.line # <<>>
    <3>1. rl.at = "reading" /\ got' = Delivered(rl.line)
      BY <1>0, <2>1, <2>5 DEF GiveUp, ReaderType
    <3>2. LineOf(rl.line, sent) /\ Last(got) <= rl.line[1].id
      BY <1>0, <2>5, <3>1 DEF LineInv, OrderInv
    <3> QED BY <2>1, <2>3, <2>5, <3>1, <3>2, DeliverStep
  <2> QED BY <2>4, <2>5
<1>4. CASE modemPrints
  BY <1>4 DEF modemPrints, Lines!Next, Lines!PutLine
<1>5. CASE byteSpoilt
  BY <1>5 DEF byteSpoilt, Lines!Next, Lines!Disturb
<1>6. CASE nulByte \/ UNCHANGED vars
  BY <1>6 DEF nulByte, vars
<1>7. CASE dropByte \/ firstLinefeed \/ pushChar
  BY <1>7 DEF dropByte, firstLinefeed, pushChar, Received, readRaw
<1>8. CASE waitForTx \/ Return \/ \E mode \in {"Normal", "Simple", "Ignore"} : readLine(mode)
  BY <1>8 DEF waitForTx, Return, readLine
<1>9. CASE \/ \E f \in Functions, given \in BOOLEAN : configSet(f, given)
           \/ clearError
           \/ \E p \in Prefixes : addUrcFilter(p) \/ removeUrcFilter(p)
           \/ write
  BY <1>9 DEF configSet, clearError, addUrcFilter, removeUrcFilter, write
<1> QED
  BY <1>2, <1>3, <1>4, <1>5, <1>6, <1>7, <1>8, <1>9 DEF Next, ReadStep

\* readLine() and the filters implement LineQueue: the lines come out whole, in
\* order, each once, until a byte is lost or a reader gives up inside a line;
\* after that every piece still is of one line, and lines do not overtake each
\* other.  The hypothesis is the one the source needs: two lost bytes can join
\* two lines.
THEOREM SerialRefines ==
  ASSUME MaxBad <= 1
  PROVE  Spec => LinesInOrder
<1>1. Init => Lines!Init
  BY DEF Init, Lines!Init
<1>2. SerialInv /\ [Next]_vars => [Lines!Next]_<<sent, got, disturbed>>
  BY StepRefines
<1> QED BY <1>1, <1>2, SerialInvariant, PTL DEF Spec, LinesInOrder, Lines!Spec
=============================================================================
