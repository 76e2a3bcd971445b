------------------------ MODULE TopicRegistryProofs ------------------------
(***************************************************************************)
(* Proofs about TopicRegistry, for any names, ids and handlers and any     *)
(* m_maxTopics.  The parts: what the list operations of NbiotTopicRegistry *)
(* return (Closed for what removing leaves, Inserted, Touched), one        *)
(* inductive invariant (RegistryInv), one lemma per action, the theorems.  *)
(* What removeTopic() leaves is told by ranks: the position of an element  *)
(* that stays is one more than the number of those that stay before it.    *)
(* The names of the topics are opaque here: the proofs hold whatever       *)
(* isTopicMatched() answers (Covers is never expanded).  The last section  *)
(* is about the matcher alone: what it answers for a filter and a name.    *)
(***************************************************************************)
EXTENDS TopicRegistry, FiniteSetTheorems, WellFoundedInduction, SequenceTheorems, TLAPS

----------------------------------------------------------------------------
(* Searching and removing                                                  *)

LEMMA LeastNat ==
  ASSUME NEW T, T \subseteq Nat, T # {}
  PROVE  \E x \in T : \A y \in T : x =< y
<1> DEFINE R == OpToRel(<, Nat)
<1>1. IsWellFoundedOn(R, Nat)
  BY NatLessThanWellFounded
<1>2. \A a, b \in Nat : a < b => <<a, b>> \in R
  BY DEF OpToRel
<1> HIDE DEF R
<1>3. PICK x \in T : \A y \in T : ~(<<y, x>> \in R)
  BY <1>1, WFMin
<1>4. \A y \in T : ~(y < x)
  BY <1>2, <1>3
<1> QED BY <1>4

LEMMA MinNat ==
  ASSUME NEW T, T \subseteq Nat, T # {}
  PROVE  Min(T) \in T
  BY LeastNat DEF Min

\* findTopic() and findTopicId() find what is there.
LEMMA FindTopic ==
  ASSUME NEW reg \in Seq(Topic), NEW name
  PROVE  /\ findTopic(reg, name) \in 0..Len(reg)
         /\ findTopic(reg, name) # 0 =>
              reg[findTopic(reg, name)].name = name /\ name # <<>>
         /\ findTopic(reg, name) = 0 /\ name # <<>> =>
              \A j \in 1..Len(reg) : reg[j].name # name
<1> DEFINE I == {i \in 1..Len(reg) : reg[i].name = name}
<1>1. findTopic(reg, name) = IF name = <<>> THEN 0 ELSE IF I # {} THEN Min(I) ELSE 0
  BY DEF findTopic, SelectInSeq
<1>2. I \subseteq Nat /\ Len(reg) \in Nat
  OBVIOUS
<1>3. I # {} => Min(I) \in I
  BY <1>2, MinNat
<1> QED BY <1>1, <1>2, <1>3

LEMMA FindTopicId ==
  ASSUME NEW reg \in Seq(Topic), NEW id
  PROVE  /\ findTopicId(reg, id) \in 0..Len(reg)
         /\ findTopicId(reg, id) # 0 => reg[findTopicId(reg, id)].id = id
         /\ findTopicId(reg, id) = 0 => \A j \in 1..Len(reg) : reg[j].id # id
<1> DEFINE I == {i \in 1..Len(reg) : reg[i].id = id}
<1>1. findTopicId(reg, id) = IF I # {} THEN Min(I) ELSE 0
  BY DEF findTopicId, SelectInSeq
<1>2. I \subseteq Nat /\ Len(reg) \in Nat
  OBVIOUS
<1>3. I # {} => Min(I) \in I
  BY <1>2, MinNat
<1> QED BY <1>1, <1>2, <1>3

\* The positions of a list of length n that are kept, and how many of them
\* precede position k.
Within(kept, n) == kept \subseteq 1..n
Rank(kept, k) == Cardinality({l \in kept : l < k})

LEMMA WithinFinite ==
  ASSUME NEW n \in Nat, NEW kept, Within(kept, n)
  PROVE  /\ IsFiniteSet(kept) /\ Cardinality(kept) \in 0..n
         /\ Cardinality(kept) = n => kept = 1..n
         /\ kept \subseteq Int /\ \A l \in kept : 1 <= l /\ l <= n
<1>1. kept \in SUBSET (1..n)
  BY DEF Within
<1>2. IsFiniteSet(1..n) /\ Cardinality(1..n) = n
  BY FS_Interval
<1>3. /\ IsFiniteSet(kept) /\ Cardinality(kept) <= n
      /\ Cardinality(kept) = n => kept = 1..n
  BY <1>1, <1>2, FS_Subset
<1>4. Cardinality(kept) \in Nat
  BY <1>3, FS_CardinalityType
<1>5. \A l \in kept : l \in 1..n
  BY <1>1
<1>6. kept \subseteq Int /\ \A l \in kept : 1 <= l /\ l <= n
  BY <1>5
<1> QED BY <1>3, <1>4, <1>6

LEMMA WithinSub ==
  ASSUME NEW n, NEW kept, NEW A, Within(kept, n), A \subseteq kept
  PROVE  Within(A, n)
  BY DEF Within

LEMMA RankType ==
  ASSUME NEW n \in Nat, NEW kept, Within(kept, n), NEW k
  PROVE  Rank(kept, k) \in Nat
<1> DEFINE A == {l \in kept : l < k}
<1>1. A \subseteq kept
  OBVIOUS
<1> HIDE DEF A
<1>2. Cardinality(A) \in 0..n
  BY <1>1, WithinSub, WithinFinite
<1> QED BY <1>2 DEF Rank, A

LEMMA RankStep ==
  ASSUME NEW n \in Nat, NEW kept, Within(kept, n), NEW k \in 1..n
  PROVE  Rank(kept, k + 1) = Rank(kept, k) + (IF k \in kept THEN 1 ELSE 0)
<1> DEFINE A == {l \in kept : l < k}
           B == {l \in kept : l < k + 1}
<1>1. kept \subseteq Int
  BY WithinFinite
<1>2. \A l \in kept : l < k + 1 <=> l < k \/ l = k
  BY <1>1
<1>3. ~(k < k)
  OBVIOUS
<1>4. A \subseteq kept /\ k \notin A /\ B = IF k \in kept THEN A \cup {k} ELSE A
  BY <1>2, <1>3
<1> HIDE DEF A, B
<1>5. IsFiniteSet(A) /\ Cardinality(A) \in Nat
  BY <1>4, WithinSub, WithinFinite
<1>6. Cardinality(A \cup {k}) = Cardinality(A) + 1
  BY <1>4, <1>5, FS_AddElement
<1>7. Cardinality(B) = Cardinality(A) + (IF k \in kept THEN 1 ELSE 0)
  BY <1>4, <1>5, <1>6
<1> QED BY <1>7 DEF Rank, A, B

LEMMA RankMonotone ==
  ASSUME NEW n \in Nat, NEW kept, Within(kept, n), NEW k \in kept,
         NEW m \in 1..n + 1, k < m
  PROVE  Rank(kept, k) + 1 <= Rank(kept, m)
<1> DEFINE A == {l \in kept : l < k + 1}
           B == {l \in kept : l < m}
<1>1. kept \subseteq Int /\ k \in 1..n
  BY WithinFinite DEF Within
<1>2. \A l \in kept : l < k + 1 => l < m
  BY <1>1
<1>3. A \in SUBSET B /\ B \subseteq kept
  BY <1>2
<1> HIDE DEF A, B
<1>4. IsFiniteSet(B)
  BY <1>3, WithinSub, WithinFinite
<1>5. Cardinality(A) <= Cardinality(B)
  BY <1>3, <1>4, FS_Subset
<1>6. Rank(kept, k + 1) <= Rank(kept, m)
  BY <1>5 DEF Rank, A, B
<1>7. Rank(kept, k + 1) = Rank(kept, k) + 1
  BY <1>1, RankStep
<1>8. Rank(kept, k) \in Nat /\ Rank(kept, m) \in Nat
  BY RankType
<1> QED BY <1>6, <1>7, <1>8

LEMMA RankEnds ==
  ASSUME NEW n \in Nat, NEW kept, Within(kept, n)
  PROVE  Rank(kept, 1) = 0 /\ Rank(kept, n + 1) = Cardinality(kept)
<1>1. \A l \in kept : ~(l < 1) /\ l < n + 1
  BY WithinFinite
<1>2. {l \in kept : l < 1} = {} /\ {l \in kept : l < n + 1} = kept
  BY <1>1
<1>3. Cardinality({}) = 0
  BY FS_EmptySet
<1> QED BY <1>2, <1>3 DEF Rank

\* Every number below the count is the rank of an element that is kept.
LEMMA RankReached ==
  ASSUME NEW n \in Nat, NEW kept, Within(kept, n), NEW j \in 1..Cardinality(kept)
  PROVE  \E k \in kept : Rank(kept, k) = j - 1
<1> DEFINE T == {k \in 1..n + 1 : Rank(kept, k) >= j}
<1>0. Cardinality(kept) \in Nat /\ Cardinality(kept) >= j /\ j \in Nat /\ j >= 1
  BY WithinFinite
<1>1. T \subseteq Nat /\ n + 1 \in T
  BY <1>0, RankEnds
<1>2. PICK m \in T : \A y \in T : m =< y
  BY <1>1, LeastNat
<1>3. m # 1
  BY <1>0, <1>2, RankEnds
<1>4. m - 1 \in 1..n /\ (m - 1) + 1 = m /\ m - 1 \notin T
  BY <1>2, <1>3
<1>5. Rank(kept, m - 1) \in Nat /\ ~(Rank(kept, m - 1) >= j)
  BY <1>4, RankType
<1>6. Rank(kept, m) = Rank(kept, m - 1) + (IF m - 1 \in kept THEN 1 ELSE 0)
  BY <1>4, RankStep
<1>7. m - 1 \in kept /\ Rank(kept, m - 1) = j - 1
  BY <1>0, <1>2, <1>5, <1>6
<1> QED BY <1>7

LEMMA RankInjective ==
  ASSUME NEW n \in Nat, NEW kept, Within(kept, n),
         NEW k \in kept, NEW l \in kept, Rank(kept, k) = Rank(kept, l)
  PROVE  k = l
<1>1. k \in 1..n /\ l \in 1..n /\ k \in 1..n + 1 /\ l \in 1..n + 1
  BY DEF Within
<1>2. Rank(kept, k) \in Nat /\ Rank(kept, l) \in Nat
  BY RankType
<1>3. k < l => Rank(kept, k) + 1 <= Rank(kept, l)
  BY <1>1, RankMonotone
<1>4. l < k => Rank(kept, l) + 1 <= Rank(kept, k)
  BY <1>1, RankMonotone
<1> QED BY <1>1, <1>2, <1>3, <1>4

\* rest is what is left of the list reg at the positions kept, in their order.
Closed(rest, reg, kept) ==
  /\ rest \in Seq(Topic) /\ Len(rest) = Cardinality(kept)
  /\ \A j \in 1..Len(rest) :
       \E k \in kept : rest[j] = reg[k] /\ Rank(kept, k) = j - 1
  /\ \A k \in kept :
       /\ Rank(kept, k) + 1 \in 1..Len(rest)
       /\ rest[Rank(kept, k) + 1] = reg[k]
  /\ Within(kept, Len(reg)) /\ Len(reg) \in Nat

\* Without() closes up what it keeps.
LEMMA WithoutIs ==
  ASSUME NEW reg \in Seq(Topic), NEW gone
  PROVE  Closed(Without(reg, gone), reg, DOMAIN reg \ gone)
<1> SUFFICES ASSUME NEW kept, kept = DOMAIN reg \ gone
             PROVE  Closed(Without(reg, gone), reg, kept)
  OBVIOUS
<1> DEFINE rest == Without(reg, gone)
           n    == Len(reg)
           c    == Cardinality(kept)
           Pos(j) == CHOOSE k \in kept : Rank(kept, k) = j - 1
<1>1. n \in Nat /\ DOMAIN reg = 1..n /\ Within(kept, n)
  BY DEF Within
<1>2. rest = [j \in 1..c |-> reg[Pos(j)]]
  BY DEF Without, Rank
<1>3. c \in 0..n
  BY <1>1, WithinFinite
<1>4. ASSUME NEW j \in 1..c PROVE Pos(j) \in kept /\ Rank(kept, Pos(j)) = j - 1
  BY <1>1, RankReached
<1>5. ASSUME NEW k \in kept PROVE Rank(kept, k) + 1 \in 1..c /\ Rank(kept, k) \in Nat
  <2>1. k \in 1..n /\ n + 1 \in 1..n + 1 /\ k < n + 1
    BY <1>1 DEF Within
  <2>2. Rank(kept, k) + 1 <= Rank(kept, n + 1)
    BY <1>1, <2>1, RankMonotone
  <2>3. Rank(kept, k) \in Nat
    BY <1>1, RankType
  <2> QED BY <1>1, <1>3, <2>2, <2>3, RankEnds
<1> HIDE DEF Pos, c, rest, n
<1>7. \A j \in 1..c : reg[Pos(j)] \in Topic
  BY <1>1, <1>4 DEF Within
<1>8. rest \in Seq(Topic) /\ Len(rest) = c
  BY <1>2, <1>3, <1>7
<1>9. ASSUME NEW j \in 1..c
      PROVE  \E k \in kept : rest[j] = reg[k] /\ Rank(kept, k) = j - 1
  BY <1>2, <1>4
<1>10. ASSUME NEW k \in kept PROVE rest[Rank(kept, k) + 1] = reg[k]
  <2>0. Rank(kept, k) + 1 \in 1..c /\ Rank(kept, k) \in Nat
    BY <1>5
  <2> DEFINE j == Rank(kept, k) + 1
  <2>1. j \in 1..c /\ j - 1 = Rank(kept, k)
    BY <2>0
  <2> HIDE DEF j
  <2>2. Pos(j) \in kept /\ Rank(kept, Pos(j)) = Rank(kept, k)
    BY <1>4, <2>1
  <2>3. Pos(j) = k
    BY <1>1, <2>2, RankInjective
  <2>4. rest[j] = reg[k]
    BY <1>2, <2>1, <2>3
  <2> QED BY <2>4 DEF j
<1>11. Closed(rest, reg, kept)
  BY <1>1, <1>5, <1>8, <1>9, <1>10 DEF c, n, Closed
<1> QED BY <1>11 DEF rest


\* No two topics of a list share a name.
Distinct(reg) ==
  \A i, j \in DOMAIN reg : reg[i].name = reg[j].name => i = j

LEMMA SeqFacts ==
  ASSUME NEW reg \in Seq(Topic)
  PROVE  /\ Len(reg) \in Nat /\ DOMAIN reg = 1..Len(reg)
         /\ \A j \in 1..Len(reg) : reg[j] \in Topic
  OBVIOUS

\* Closing up keeps the elements, and their names stay distinct.
LEMMA WithoutKeeps ==
  ASSUME NEW reg \in Seq(Topic), Distinct(reg), NEW gone
  PROVE  /\ Distinct(Without(reg, gone))
         /\ Len(Without(reg, gone)) \in 0..Len(reg)
         /\ \A k \in 1..Len(reg) : k \in gone => Len(Without(reg, gone)) < Len(reg)
<1> DEFINE kept == DOMAIN reg \ gone
           rest == Without(reg, gone)
           n    == Len(reg)
<1>0. n \in Nat /\ DOMAIN reg = 1..n
  OBVIOUS
<1>1. \A k \in 1..n : k \in kept <=> k \notin gone
  BY <1>0
<1>a. Closed(rest, reg, kept)
  BY WithoutIs
<1> HIDE DEF kept, rest, n
<1>2. /\ rest \in Seq(Topic) /\ Len(rest) = Cardinality(kept)
      /\ \A j \in 1..Len(rest) :
              \E k \in kept : rest[j] = reg[k] /\ Rank(kept, k) = j - 1
      /\ Within(kept, n)
  BY <1>a DEF Closed, n
<1>3. /\ Cardinality(kept) \in 0..n
      /\ Cardinality(kept) = n => kept = 1..n
  BY <1>0, <1>2, WithinFinite
<1>4. ASSUME NEW k \in 1..n, k \in gone PROVE Len(rest) < n
  BY <1>0, <1>1, <1>2, <1>3, <1>4
<1>5. ASSUME NEW i \in 1..Len(rest), NEW j \in 1..Len(rest), rest[i].name = rest[j].name
      PROVE  i = j
  <2>1. PICK k \in kept : rest[i] = reg[k] /\ Rank(kept, k) = i - 1
    BY <1>2
  <2>2. PICK l \in kept : rest[j] = reg[l] /\ Rank(kept, l) = j - 1
    BY <1>2
  <2>3. k \in DOMAIN reg /\ l \in DOMAIN reg
    BY <1>0, <1>2 DEF Within
  <2>4. k = l
    BY <1>5, <2>1, <2>2, <2>3 DEF Distinct
  <2>5. i \in Int /\ j \in Int
    BY <1>2, <1>3
  <2> QED BY <2>1, <2>2, <2>4, <2>5
<1>6. DOMAIN rest = 1..Len(rest)
  BY <1>2
<1>7. Distinct(rest)
  BY <1>5, <1>6 DEF Distinct
<1> QED BY <1>2, <1>3, <1>4, <1>7 DEF rest, n

\* What removeTopic() leaves is a part of the list, and shorter.
LEMMA RemoveTopicShrinks ==
  ASSUME NEW reg \in Seq(Topic), Distinct(reg), NEW i \in 1..Len(reg)
  PROVE  /\ removeTopic(reg, i) \in Seq(Topic) /\ Distinct(removeTopic(reg, i))
         /\ Len(removeTopic(reg, i)) < Len(reg)
         /\ \A j \in 1..Len(removeTopic(reg, i)) :
              \E k \in 1..Len(reg) : removeTopic(reg, i)[j] = reg[k]
<1> DEFINE gone == Covered(reg, i)
           half == Without(reg, gone)
           rest == removeTopic(reg, i)
           one == {i}
<1>1. rest = Without(half, one)
  BY DEF removeTopic, remove
<1>2. i \in one
  OBVIOUS
<1>a. Closed(half, reg, DOMAIN reg \ gone)
  BY WithoutIs
<1> HIDE DEF gone
<1>3. /\ half \in Seq(Topic)
      /\ \A j \in 1..Len(half) : \E k \in DOMAIN reg \ gone : half[j] = reg[k]
  BY <1>a DEF Closed
<1>4. /\ Distinct(half) /\ Len(half) \in 0..Len(reg)
      /\ \A k \in 1..Len(reg) : k \in gone => Len(half) < Len(reg)
  BY WithoutKeeps
<1> HIDE DEF half, rest, one
<1>b. Closed(rest, half, DOMAIN half \ one)
  BY <1>1, <1>3, WithoutIs
<1>5. /\ rest \in Seq(Topic)
      /\ \A j \in 1..Len(rest) : \E k \in DOMAIN half \ one : rest[j] = half[k]
  BY <1>b DEF Closed
<1>6. /\ Distinct(rest) /\ Len(rest) \in 0..Len(half)
      /\ \A k \in 1..Len(half) : k \in one => Len(rest) < Len(half)
  BY <1>1, <1>3, <1>4, WithoutKeeps
<1>7. Len(rest) \in Nat /\ Len(half) \in Nat /\ Len(reg) \in Nat
  BY <1>3, <1>5
<1>8. Len(rest) < Len(reg)
  <2>1. CASE Len(half) < Len(reg)
    BY <1>6, <1>7, <2>1
  <2>2. CASE Len(half) = Len(reg)
    BY <1>2, <1>6, <1>7, <2>2
  <2> QED BY <1>4, <1>7, <2>1, <2>2
<1>9. ASSUME NEW j \in 1..Len(rest) PROVE \E k \in 1..Len(reg) : rest[j] = reg[k]
  <2>1. PICK m \in DOMAIN half \ one : rest[j] = half[m]
    BY <1>5
  <2>2. m \in 1..Len(half)
    BY <1>3, <2>1
  <2>3. PICK k \in DOMAIN reg \ gone : half[m] = reg[k]
    BY <1>3, <2>2
  <2>4. k \in 1..Len(reg)
    BY <2>3
  <2> QED BY <2>1, <2>3, <2>4
<1> QED BY <1>5, <1>6, <1>8, <1>9 DEF rest

\* When what it covers stands behind it, removeTopic() takes the topic, all it
\* covers and nothing else.
LEMMA RemoveTopicExact ==
  ASSUME NEW reg \in Seq(Topic), Distinct(reg), NEW i \in 1..Len(reg),
         \A j \in Covered(reg, i) : j > i
  PROVE  /\ \A j \in 1..Len(removeTopic(reg, i)) :
              \E k \in 1..Len(reg) : /\ removeTopic(reg, i)[j] = reg[k]
                                     /\ k # i /\ k \notin Covered(reg, i)
         /\ \A k \in 1..Len(reg) : k # i /\ k \notin Covered(reg, i) =>
              \E j \in 1..Len(removeTopic(reg, i)) : removeTopic(reg, i)[j] = reg[k]
<1> DEFINE gone == Covered(reg, i)
           kept == DOMAIN reg \ gone
           half == Without(reg, gone)
           rest == removeTopic(reg, i)
           one == {i}
           left == DOMAIN half \ one
           n == Len(reg)
<1>0. n \in Nat /\ i \in 1..n /\ DOMAIN reg = 1..n
  OBVIOUS
<1>1. rest = Without(half, one)
  BY DEF removeTopic, remove
<1>c. i \notin gone
  BY DEF Covered
<1>d. \A j \in gone : j > i
  OBVIOUS
<1>e. DOMAIN reg \ gone = kept
  OBVIOUS
<1> HIDE DEF gone
<1>f. Closed(half, reg, kept)
  BY WithoutIs
<1>2. /\ half \in Seq(Topic)
      /\ \A j \in 1..Len(half) :
           \E k \in kept : half[j] = reg[k] /\ Rank(kept, k) = j - 1
      /\ \A k \in kept : /\ Rank(kept, k) + 1 \in 1..Len(half)
                         /\ half[Rank(kept, k) + 1] = reg[k]
      /\ Within(kept, n)
  BY <1>f DEF Closed
<1>3. \A k : k \in kept <=> k \in 1..n /\ k \notin gone
  BY <1>0
<1>5. \A m : m \in left <=> m \in DOMAIN half /\ m # i
  OBVIOUS
<1>b. Closed(rest, half, left)
  BY <1>1, <1>2, WithoutIs
<1> HIDE DEF kept, half, rest, one, left, n
<1>6. /\ rest \in Seq(Topic)
      /\ \A j \in 1..Len(rest) : \E m \in left : rest[j] = half[m]
      /\ \A m \in left : /\ Rank(left, m) + 1 \in 1..Len(rest)
                         /\ rest[Rank(left, m) + 1] = half[m]
  BY <1>b DEF Closed
<1>7. Rank(kept, i) = i - 1
  <2>1. \A l \in 1..i - 1 : l \in 1..n /\ ~(l > i) /\ l < i
    BY <1>0
  <2>2. \A l \in 1..i - 1 : l \in kept /\ l < i
    BY <1>3, <1>d, <2>1
  <2>3. \A l \in kept : l < i => l \in 1..i - 1
    BY <1>0, <1>3
  <2>4. {l \in kept : l < i} = 1..i - 1
    BY <2>2, <2>3
  <2>5. i - 1 \in Nat
    BY <1>0
  <2>6. Cardinality(1..i - 1) = i - 1
    <3>1. \A b \in Int : Cardinality(1..b) = IF 1 > b THEN 0 ELSE b - 1 + 1
      BY FS_Interval
    <3> QED BY <2>5, <3>1
  <2> QED BY <2>4, <2>6 DEF Rank
<1>8. ASSUME NEW j \in 1..Len(rest)
      PROVE  \E k \in 1..n : rest[j] = reg[k] /\ k # i /\ k \notin gone
  <2>1. PICK m \in left : rest[j] = half[m]
    BY <1>6
  <2>2. m \in 1..Len(half) /\ m # i /\ m \in Int
    BY <1>2, <1>5, <2>1
  <2>3. PICK k \in kept : half[m] = reg[k] /\ Rank(kept, k) = m - 1
    BY <1>2, <2>2
  <2>4. k # i
    BY <1>0, <1>7, <2>2, <2>3
  <2> QED BY <1>3, <2>1, <2>3, <2>4
<1>9. ASSUME NEW k \in 1..n, k # i, k \notin gone
      PROVE  \E j \in 1..Len(rest) : rest[j] = reg[k]
  <2>1. k \in kept /\ i \in kept
    BY <1>0, <1>c, <1>3, <1>9
  <2> DEFINE m == Rank(kept, k) + 1
  <2>2. m \in 1..Len(half) /\ half[m] = reg[k]
    BY <1>2, <2>1
  <2>3. Rank(kept, k) \in Nat /\ Rank(kept, k) # i - 1
    BY <1>0, <1>2, <1>7, <1>9, <2>1, RankType, RankInjective
  <2>4. m # i
    BY <1>0, <2>3
  <2>5. m \in left
    BY <1>2, <1>5, <2>2, <2>4
  <2> HIDE DEF m
  <2> QED BY <1>6, <2>2, <2>5
<1> QED BY <1>8, <1>9 DEF rest, gone, n

----------------------------------------------------------------------------
(* Inserting, and the handlers                                             *)

LEMMA TopicFields ==
  ASSUME NEW t \in Topic
  PROVE  /\ t.name \in Names \cup Filters /\ t.id \in Ids \cup {0}
         /\ t.mh \in Handlers \cup {NoHandler} /\ t.reg \in SUBSET Flags
         /\ t.name # <<>>
<1>1. <<>> \notin Names \cup Filters
  BY NamesAssumption
<1> QED BY <1>1 DEF Topic

LEMMA TopicUpdates ==
  ASSUME NEW t \in Topic
  PROVE  /\ \A mh \in Handlers \cup {NoHandler} :
              /\ [t EXCEPT !.mh = mh] \in Topic
              /\ [t EXCEPT !.mh = mh].name = t.name
              /\ [t EXCEPT !.mh = mh].id = t.id
              /\ [t EXCEPT !.mh = mh].reg = t.reg
              /\ [t EXCEPT !.mh = mh].mh = mh
         /\ \A id \in Ids \cup {0} :
              /\ [t EXCEPT !.id = id] \in Topic
              /\ [t EXCEPT !.id = id].name = t.name
              /\ [t EXCEPT !.id = id].id = id
              /\ [t EXCEPT !.id = id].reg = t.reg
              /\ [t EXCEPT !.id = id].mh = t.mh
         /\ \A f \in SUBSET Flags :
              /\ [t EXCEPT !.reg = f] \in Topic
              /\ [t EXCEPT !.reg = f].name = t.name
              /\ [t EXCEPT !.reg = f].id = t.id
              /\ [t EXCEPT !.reg = f].reg = f
              /\ [t EXCEPT !.reg = f].mh = t.mh
  BY DEF Topic

\* operator = takes all but the handler that is set already.
LEMMA AssignIs ==
  ASSUME NEW old, old.mh \in Handlers \cup {NoHandler}, NEW new \in Topic
  PROVE  /\ Assign(old, new) \in Topic
         /\ Assign(old, new).name = new.name /\ Assign(old, new).id = new.id
         /\ Assign(old, new).reg = new.reg
         /\ Assign(old, new).mh = IF old.mh = NoHandler THEN new.mh ELSE old.mh
<1> DEFINE mh == IF old.mh = NoHandler THEN new.mh ELSE old.mh
<1>1. mh \in Handlers \cup {NoHandler}
  BY TopicFields
<1>2. Assign(old, new) = [new EXCEPT !.mh = mh]
  BY DEF Assign
<1> HIDE DEF mh
<1>3. /\ Assign(old, new) \in Topic
      /\ Assign(old, new).name = new.name /\ Assign(old, new).id = new.id
      /\ Assign(old, new).reg = new.reg /\ Assign(old, new).mh = mh
  BY <1>1, <1>2, TopicUpdates
<1> QED BY <1>3 DEF mh

\* What insertTopic() makes of the list: the other topics stay, and the topic
\* stands there once, with a handler if it brings or had one.
Inserted(rest, reg, topic) ==
  /\ rest \in Seq(Topic) /\ Distinct(rest)
  /\ \A j \in 1..Len(rest) :
       \/ j \in 1..Len(reg) /\ rest[j] = reg[j] /\ reg[j].name # topic.name
       \/ /\ rest[j].name = topic.name /\ rest[j].id = topic.id
          /\ rest[j].reg = topic.reg
          /\ topic.mh # NoHandler => rest[j].mh # NoHandler
          /\ \A k \in 1..Len(reg) :
               reg[k].name = topic.name /\ reg[k].mh # NoHandler => rest[j].mh # NoHandler
  /\ \E j \in 1..Len(rest) : rest[j].name = topic.name
  /\ \/ Len(rest) = Len(reg) /\ \A j \in 1..Len(reg) : rest[j].name = reg[j].name
     \/ /\ Len(rest) = Len(reg) + 1
        /\ \A j \in 1..Len(reg) : reg[j].name # topic.name

LEMMA InsertTopicIs ==
  ASSUME NEW reg \in Seq(Topic), Distinct(reg), NEW topic \in Topic
  PROVE  /\ Inserted(insertTopic(reg, topic), reg, topic)
         /\ findTopic(reg, topic.name) # 0 =>
              Len(insertTopic(reg, topic)) = Len(reg)
<1> DEFINE i == findTopic(reg, topic.name)
           rest == insertTopic(reg, topic)
<1>1. topic.name # <<>> /\ Len(reg) \in Nat /\ DOMAIN reg = 1..Len(reg)
  BY TopicFields
<1>2. /\ i \in 0..Len(reg)
      /\ i # 0 => reg[i].name = topic.name
      /\ i = 0 => \A j \in 1..Len(reg) : reg[j].name # topic.name
  BY <1>1, FindTopic
<1>3. rest = IF i = 0 THEN Append(reg, topic) ELSE [reg EXCEPT ![i] = Assign(@, topic)]
  BY <1>1 DEF insertTopic
<1> HIDE DEF i, rest
<1>4. CASE i = 0
  <2>1. rest = Append(reg, topic)
    BY <1>3, <1>4
  <2>2. /\ rest \in Seq(Topic) /\ Len(rest) = Len(reg) + 1
        /\ rest[Len(reg) + 1] = topic
        /\ \A j \in 1..Len(reg) : rest[j] = reg[j]
    BY <2>1
  <2>3. \A j \in 1..Len(rest) : j \in 1..Len(reg) \/ j = Len(reg) + 1
    BY <1>1, <2>2
  <2>4. DOMAIN rest = 1..Len(rest) /\ Len(reg) + 1 \in 1..Len(rest)
    BY <1>1, <2>2
  <2>5. \A j \in 1..Len(reg) : reg[j].name # topic.name
    BY <1>2, <1>4
  <2>6. Distinct(rest)
    BY <1>1, <2>2, <2>3, <2>4, <2>5 DEF Distinct
  <2>7. Inserted(rest, reg, topic)
    BY <2>2, <2>3, <2>4, <2>5, <2>6 DEF Inserted
  <2> QED BY <1>4, <2>7 DEF rest, i
<1>5. CASE i # 0
  <2>1. i \in 1..Len(reg) /\ reg[i].name = topic.name
    BY <1>1, <1>2, <1>5
  <2>2. reg[i] \in Topic
    BY <2>1
  <2> DEFINE new == Assign(reg[i], topic)
  <2>3. /\ new \in Topic /\ new.name = topic.name /\ new.id = topic.id
        /\ new.reg = topic.reg
        /\ new.mh = IF reg[i].mh = NoHandler THEN topic.mh ELSE reg[i].mh
    BY <2>2, TopicFields, AssignIs
  <2>4. rest = [reg EXCEPT ![i] = new]
    BY <1>3, <1>5
  <2> HIDE DEF new
  <2>5. /\ rest \in Seq(Topic) /\ Len(rest) = Len(reg)
        /\ rest[i] = new /\ \A j \in 1..Len(reg) : j # i => rest[j] = reg[j]
    BY <2>1, <2>3, <2>4
  <2>6. \A j \in 1..Len(reg) : rest[j].name = reg[j].name
    BY <2>1, <2>3, <2>5
  <2>7. \A j \in 1..Len(reg) : reg[j].name = topic.name => j = i
    BY <1>1, <2>1 DEF Distinct
  <2>8. Distinct(rest)
    <3>1. DOMAIN rest = DOMAIN reg
      BY <1>1, <2>5
    <3> QED BY <1>1, <2>6, <3>1 DEF Distinct
  <2>9. Inserted(rest, reg, topic)
    BY <2>1, <2>3, <2>5, <2>6, <2>7, <2>8 DEF Inserted
  <2> QED BY <2>5, <2>9 DEF rest, i
<1> QED BY <1>4, <1>5

\* attachWildcardMessageHandler() finds a wildcard that covers the topic, if
\* there is one.
LEMMA AttachWildcardIs ==
  ASSUME NEW reg \in Seq(Topic), NEW topic \in Topic
  PROVE  /\ attachWildcard(reg, topic) \in Topic
         /\ attachWildcard(reg, topic).name = topic.name
         /\ attachWildcard(reg, topic).id = topic.id
         /\ attachWildcard(reg, topic).reg = topic.reg
         /\ \/ \E k \in 1..Len(reg) : /\ reg[k].name \in Wild
                                      /\ attachWildcard(reg, topic).mh = reg[k].mh
            \/ \A k \in 1..Len(reg) :
                 reg[k].name \in Wild => ~Covers(reg[k].name, topic.name)
<1> DEFINE S == {k \in 1..Len(reg) : reg[k].name \in Wild /\ Covers(reg[k].name, topic.name)}
           i == IF S # {} THEN Min(S) ELSE 0
<1>1. SelectInSeq(reg, LAMBDA e : e.name \in Wild /\ Covers(e.name, topic.name)) = i
  BY DEF SelectInSeq
<1>2. attachWildcard(reg, topic) = IF i = 0 THEN topic ELSE [topic EXCEPT !.mh = reg[i].mh]
  BY <1>1 DEF attachWildcard
<1>3. S \subseteq Nat /\ Len(reg) \in Nat
  OBVIOUS
<1>4. S # {} => Min(S) \in S
  BY <1>3, MinNat
<1>5. i # 0 => i \in 1..Len(reg) /\ reg[i].name \in Wild
  BY <1>4
<1>6. i = 0 => \A k \in 1..Len(reg) :
                 reg[k].name \in Wild => ~Covers(reg[k].name, topic.name)
  BY <1>3, <1>4
<1> HIDE DEF i
<1>7. i # 0 => reg[i] \in Topic
  BY <1>5
<1>8. i # 0 => reg[i].mh \in Handlers \cup {NoHandler}
  BY <1>7, TopicFields
<1>9. CASE i = 0
  BY <1>2, <1>6, <1>9
<1>10. CASE i # 0
  BY <1>2, <1>5, <1>8, <1>10, TopicUpdates
<1> QED BY <1>9, <1>10

\* The list with handlers set here and there, and nothing else changed.
Touched(rest, reg, mh) ==
  /\ rest \in Seq(Topic) /\ Len(rest) = Len(reg)
  /\ \A j \in 1..Len(reg) :
       /\ rest[j].name = reg[j].name /\ rest[j].id = reg[j].id
       /\ rest[j].reg = reg[j].reg /\ rest[j].mh \in {mh, reg[j].mh}

LEMMA CoverIs ==
  ASSUME NEW reg \in Seq(Topic), NEW filter, NEW mh \in Handlers \cup {NoHandler}
  PROVE  /\ Touched(Cover(reg, filter, mh), reg, mh)
         /\ \A j \in 1..Len(reg) :
              reg[j].name \notin Wild /\ Covers(filter, reg[j].name)
                => Cover(reg, filter, mh)[j].mh = mh
<1> DEFINE Elem(j) == IF reg[j].name \notin Wild /\ Covers(filter, reg[j].name)
                      THEN [reg[j] EXCEPT !.mh = mh] ELSE reg[j]
           rest == Cover(reg, filter, mh)
<1>1. Len(reg) \in Nat /\ DOMAIN reg = 1..Len(reg) /\ \A j \in 1..Len(reg) : reg[j] \in Topic
  OBVIOUS
<1>2. rest = [j \in 1..Len(reg) |-> Elem(j)]
  BY <1>1 DEF Cover
<1>3. ASSUME NEW j \in 1..Len(reg)
      PROVE  /\ Elem(j) \in Topic /\ Elem(j).name = reg[j].name
             /\ Elem(j).id = reg[j].id /\ Elem(j).reg = reg[j].reg
             /\ Elem(j).mh \in {mh, reg[j].mh}
             /\ reg[j].name \notin Wild /\ Covers(filter, reg[j].name) => Elem(j).mh = mh
  BY <1>1, TopicUpdates
<1> HIDE DEF Elem, rest
<1>4. rest \in Seq(Topic) /\ Len(rest) = Len(reg) /\ \A j \in 1..Len(reg) : rest[j] = Elem(j)
  BY <1>1, <1>2, <1>3
<1>5. Touched(rest, reg, mh)
  BY <1>3, <1>4 DEF Touched
<1> QED BY <1>3, <1>4, <1>5 DEF rest

LEMMA AttachMessageHandlerIs ==
  ASSUME NEW reg \in Seq(Topic), NEW i \in 1..Len(reg), NEW mh \in Handlers \cup {NoHandler}
  PROVE  Touched(attachMessageHandler(reg, i, mh), reg, mh)
<1> DEFINE new == [reg[i] EXCEPT !.mh = mh]
           set == [reg EXCEPT ![i] = new]
<1>1. reg[i] \in Topic
  OBVIOUS
<1>2. /\ new \in Topic /\ new.name = reg[i].name /\ new.id = reg[i].id
      /\ new.reg = reg[i].reg /\ new.mh = mh
  BY <1>1, TopicUpdates
<1>3. attachMessageHandler(reg, i, mh) =
        IF reg[i].name \in Wild THEN Cover(set, reg[i].name, mh) ELSE set
  BY DEF attachMessageHandler
<1> HIDE DEF new
<1>4. /\ set \in Seq(Topic) /\ Len(set) = Len(reg)
      /\ set[i] = new /\ \A j \in 1..Len(reg) : j # i => set[j] = reg[j]
  BY <1>2
<1> HIDE DEF set
<1>5. Touched(set, reg, mh)
  BY <1>2, <1>4 DEF Touched
<1>6. Touched(Cover(set, reg[i].name, mh), set, mh)
  BY <1>4, CoverIs
<1>7. Touched(Cover(set, reg[i].name, mh), reg, mh)
  BY <1>5, <1>6 DEF Touched
<1> QED BY <1>3, <1>5, <1>7

LEMMA TouchedDistinct ==
  ASSUME NEW reg \in Seq(Topic), Distinct(reg), NEW rest, NEW mh, Touched(rest, reg, mh)
  PROVE  Distinct(rest)
<1>1. DOMAIN rest = 1..Len(reg) /\ DOMAIN reg = 1..Len(reg)
  BY DEF Touched
<1> QED BY <1>1 DEF Touched, Distinct

----------------------------------------------------------------------------
(* The inductive invariant                                                 *)

\* m_currentTopic: a topic, or one without a name.
Current ==
  [name : Names \cup Filters \cup {<<>>}, id : Ids \cup {0},
   mh : Handlers \cup {NoHandler}, reg : SUBSET Flags]

\* Types, and what the running loop left in m_currentTopic: subscribe() has
\* set a handler, and publish() of a new topic no flag.
TypeInv ==
  /\ registry \in Seq(Topic) /\ Distinct(registry)
  /\ current \in Current
  /\ loop \in {"none", "Register", "Subscribe", "Publish"}
  /\ loop = "Register" => current.name \in Names /\ "SUB" \notin current.reg
  /\ loop = "Subscribe" => current.name # <<>> /\ current.mh # NoHandler
  /\ gwIds \in [Names -> Ids \cup {0}] /\ gwSubs \subseteq Names \cup Filters
  /\ hasSubscription \in BOOLEAN

\* The topic of the loop that is about to be inserted has room.
LimitInv ==
  /\ Len(registry) <= MaxTopics + 1
  /\ /\ loop \in {"Register", "Subscribe"}
     /\ \A i \in 1..Len(registry) : registry[i].name # current.name
     => Len(registry) <= MaxTopics

\* A wildcard has a handler to hand on, and what it covers has got one.
Handled(reg) ==
  /\ \A i \in 1..Len(reg) : reg[i].name \in Wild => reg[i].mh # NoHandler
  /\ \A i, j \in 1..Len(reg) :
       /\ reg[i].name \in Wild /\ reg[j].name \notin Wild
       /\ Covers(reg[i].name, reg[j].name)
       => reg[j].mh # NoHandler

\* The ids of the gateway differ; those of the registry are the gateway's.
Injective(ids) == \A m, n \in Names : ids[m] = ids[n] /\ ids[m] # 0 => m = n
Agree(topic, ids) ==
  IF topic.name \in Names THEN topic.id # 0 /\ topic.id = ids[topic.name]
  ELSE topic.id = 0
IdInv ==
  /\ Injective(gwIds)
  /\ "kept" \notin strayed =>
       /\ \A i \in 1..Len(registry) : Agree(registry[i], gwIds)
       /\ loop = "Publish" /\ current.name \in Names => Agree(current, gwIds)

\* What is flagged as subscribed is subscribed at the gateway.
Subscribed(reg, subs) ==
  \A i \in 1..Len(reg) : "SUB" \in reg[i].reg => reg[i].name \in subs

RegistryInv ==
  /\ TypeInv /\ LimitInv /\ Handled(registry) /\ IdInv
  /\ MessageForItsTopic
  /\ strayed = {} => Subscribed(registry, gwSubs)

----------------------------------------------------------------------------
(* The ways the list changes                                               *)

\* Flags and handlers of the list have been set; no topic is subscribed by it.
Refreshed(rest, reg) ==
  /\ rest \in Seq(Topic) /\ Distinct(rest) /\ Len(rest) = Len(reg)
  /\ \A j \in 1..Len(reg) :
       /\ rest[j].name = reg[j].name /\ rest[j].id = reg[j].id
       /\ "SUB" \in rest[j].reg => "SUB" \in reg[j].reg
       /\ reg[j].mh # NoHandler => rest[j].mh # NoHandler

\* Some topics of the list are gone.
Part(rest, reg) ==
  /\ rest \in Seq(Topic) /\ Distinct(rest) /\ Len(rest) <= Len(reg)
  /\ \A j \in 1..Len(rest) : \E k \in 1..Len(reg) : rest[j] = reg[k]

LEMMA TouchedRefreshed ==
  ASSUME NEW reg \in Seq(Topic), Distinct(reg), NEW mh, mh # NoHandler,
         NEW rest, Touched(rest, reg, mh)
  PROVE  Refreshed(rest, reg)
<1>1. Distinct(rest)
  BY TouchedDistinct
<1> QED BY <1>1 DEF Touched, Refreshed

LEMMA RefreshedKeeps ==
  ASSUME NEW reg, NEW rest, Refreshed(rest, reg)
  PROVE  /\ Handled(reg) => Handled(rest)
         /\ \A ids : (\A i \in 1..Len(reg) : Agree(reg[i], ids))
                       => \A i \in 1..Len(rest) : Agree(rest[i], ids)
         /\ \A subs : Subscribed(reg, subs) => Subscribed(rest, subs)
<1>1. Handled(reg) => Handled(rest)
  BY DEF Refreshed, Handled
<1>2. ASSUME NEW ids, \A i \in 1..Len(reg) : Agree(reg[i], ids)
      PROVE  \A i \in 1..Len(rest) : Agree(rest[i], ids)
  BY <1>2 DEF Refreshed, Agree
<1>3. ASSUME NEW subs, Subscribed(reg, subs)
      PROVE  Subscribed(rest, subs)
  BY <1>3 DEF Refreshed, Subscribed
<1> QED BY <1>1, <1>2, <1>3

LEMMA PartKeeps ==
  ASSUME NEW reg, NEW rest, Part(rest, reg)
  PROVE  /\ Handled(reg) => Handled(rest)
         /\ \A ids : (\A i \in 1..Len(reg) : Agree(reg[i], ids))
                       => \A i \in 1..Len(rest) : Agree(rest[i], ids)
         /\ \A subs : Subscribed(reg, subs) => Subscribed(rest, subs)
<1>1. ASSUME Handled(reg) PROVE Handled(rest)
  <2>1. ASSUME NEW i \in 1..Len(rest), rest[i].name \in Wild
        PROVE  rest[i].mh # NoHandler
    BY <1>1, <2>1 DEF Part, Handled
  <2>2. ASSUME NEW i \in 1..Len(rest), NEW j \in 1..Len(rest),
               rest[i].name \in Wild, rest[j].name \notin Wild,
               Covers(rest[i].name, rest[j].name)
        PROVE  rest[j].mh # NoHandler
    <3>1. PICK k \in 1..Len(reg) : rest[i] = reg[k]
      BY DEF Part
    <3>2. PICK l \in 1..Len(reg) : rest[j] = reg[l]
      BY DEF Part
    <3> QED BY <1>1, <2>2, <3>1, <3>2 DEF Handled
  <2> QED BY <2>1, <2>2 DEF Handled
<1>2. ASSUME NEW ids, \A i \in 1..Len(reg) : Agree(reg[i], ids)
      PROVE  \A i \in 1..Len(rest) : Agree(rest[i], ids)
  BY <1>2 DEF Part
<1>3. ASSUME NEW subs, Subscribed(reg, subs)
      PROVE  Subscribed(rest, subs)
  BY <1>3 DEF Part, Subscribed
<1> QED BY <1>1, <1>2, <1>3

\* A topic is inserted: with the id the gateway has for it, and with a handler
\* if it is covered.
LEMMA InsertedKeeps ==
  ASSUME NEW reg, NEW rest, NEW topic, Inserted(rest, reg, topic)
  PROVE  /\ /\ Handled(reg) /\ topic.name \notin Wild
            /\ \A k \in 1..Len(reg) :
                 reg[k].name \in Wild /\ Covers(reg[k].name, topic.name) =>
                   \/ topic.mh # NoHandler
                   \/ \E l \in 1..Len(reg) :
                        reg[l].name = topic.name /\ reg[l].mh # NoHandler
            => Handled(rest)
         /\ \A ids, new :
              /\ \A i \in 1..Len(reg) : Agree(reg[i], ids)
              /\ \A m \in Names : m # topic.name => new[m] = ids[m]
              /\ Agree(topic, new)
              => \A i \in 1..Len(rest) : Agree(rest[i], new)
         /\ \A subs : /\ Subscribed(reg, subs)
                      /\ "SUB" \in topic.reg => topic.name \in subs
                      => Subscribed(rest, subs)
<1>1. ASSUME Handled(reg), topic.name \notin Wild,
             \A k \in 1..Len(reg) :
                 reg[k].name \in Wild /\ Covers(reg[k].name, topic.name) =>
                   \/ topic.mh # NoHandler
                   \/ \E l \in 1..Len(reg) :
                        reg[l].name = topic.name /\ reg[l].mh # NoHandler
      PROVE  Handled(rest)
  <2>1. ASSUME NEW i \in 1..Len(rest), rest[i].name \in Wild
        PROVE  /\ rest[i].mh # NoHandler
               /\ i \in 1..Len(reg) /\ rest[i] = reg[i]
    BY <1>1, <2>1 DEF Inserted, Handled
  <2>2. ASSUME NEW i \in 1..Len(rest), NEW j \in 1..Len(rest),
               rest[i].name \in Wild, rest[j].name \notin Wild,
               Covers(rest[i].name, rest[j].name)
        PROVE  rest[j].mh # NoHandler
    <3>1. i \in 1..Len(reg) /\ rest[i] = reg[i]
      BY <2>1, <2>2
    <3>2. CASE j \in 1..Len(reg) /\ rest[j] = reg[j]
      BY <1>1, <2>2, <3>1, <3>2 DEF Handled
    <3>3. CASE /\ rest[j].name = topic.name
               /\ topic.mh # NoHandler => rest[j].mh # NoHandler
               /\ \A k \in 1..Len(reg) :
                    reg[k].name = topic.name /\ reg[k].mh # NoHandler => rest[j].mh # NoHandler
      BY <1>1, <2>2, <3>1, <3>3
    <3> QED BY <3>2, <3>3 DEF Inserted
  <2> QED BY <2>1, <2>2 DEF Handled
<1>2. ASSUME NEW ids, NEW new, \A i \in 1..Len(reg) : Agree(reg[i], ids),
             \A m \in Names : m # topic.name => new[m] = ids[m],
             Agree(topic, new)
      PROVE  \A i \in 1..Len(rest) : Agree(rest[i], new)
  BY <1>2 DEF Inserted, Agree
<1>3. ASSUME NEW subs, Subscribed(reg, subs), "SUB" \in topic.reg => topic.name \in subs
      PROVE  Subscribed(rest, subs)
  BY <1>3 DEF Inserted, Subscribed
<1> QED BY <1>1, <1>2, <1>3

\* External: what the gateway does when it is asked for the id of a topic.
LEMMA GivesIdIs ==
  ASSUME gwIds \in [Names -> Ids \cup {0}], Injective(gwIds), NEW n, NEW id, GivesId(n, id)
  PROVE  /\ gwIds' \in [Names -> Ids \cup {0}] /\ Injective(gwIds)'
         /\ \A m \in Names : m # n => gwIds'[m] = gwIds[m]
         /\ id \in Ids \cup {0}
         /\ IF n \in Names THEN id # 0 /\ gwIds'[n] = id ELSE id = 0
         /\ n \in Names /\ gwIds[n] # 0 => gwIds'[n] = gwIds[n]
<1>0. 0 \notin Ids
  BY RegistryAssumption
<1>1. CASE n \notin Names
  BY <1>1 DEF GivesId, Injective
<1>2. CASE n \in Names /\ gwIds[n] # 0
  BY <1>2 DEF GivesId, Injective
<1>3. CASE n \in Names /\ gwIds[n] = 0
  <2>1. id \in Ids /\ (\A m \in Names : gwIds[m] # id) /\ gwIds' = [gwIds EXCEPT ![n] = id]
    BY <1>3 DEF GivesId
  <2>2. /\ gwIds' \in [Names -> Ids \cup {0}] /\ gwIds'[n] = id /\ id # 0
        /\ \A m \in Names : m # n => gwIds'[m] = gwIds[m]
    BY <1>0, <1>3, <2>1
  <2>3. Injective(gwIds)'
    BY <1>3, <2>1, <2>2 DEF Injective
  <2> QED BY <1>3, <2>1, <2>2, <2>3
<1> QED BY <1>1, <1>2, <1>3

----------------------------------------------------------------------------
(* The actions                                                             *)

LEMMA NewTopic ==
  ASSUME NEW n \in Names \cup Filters
  PROVE  /\ NbiotTopic(n) \in Topic /\ NbiotTopic(n).name = n
         /\ NbiotTopic(n).id = 0 /\ NbiotTopic(n).mh = NoHandler
         /\ NbiotTopic(n).reg = {}
  BY DEF NbiotTopic, Topic

LEMMA DoneIs ==
  ASSUME NEW topic \in Current
  PROVE  Done(topic) \in Current
  BY DEF Done, NbiotTopic, Current

LEMMA TopicIsCurrent ==
  ASSUME NEW topic
  PROVE  /\ topic \in Topic => topic \in Current
         /\ topic \in Current /\ topic.name # <<>> => topic \in Topic
         /\ topic \in Current => topic.mh \in Handlers \cup {NoHandler}
<1>1. topic \in Topic => topic \in Current
  BY DEF Topic, Current
<1>2. topic \in Current /\ topic.name # <<>> => topic \in Topic
  BY DEF Topic, Current
<1>3. topic \in Current => topic.mh \in Handlers \cup {NoHandler}
  BY DEF Current
<1> QED BY <1>1, <1>2, <1>3

LEMMA Quiet ==
  ASSUME last' = NoCall
  PROVE  MessageForItsTopic'
<1>1. ~last'.called
  BY DEF NoCall
<1> QED BY <1>1 DEF MessageForItsTopic

LEMMA PlainNames ==
  /\ \A n \in Names : n \notin Wild /\ n # <<>> /\ n \notin Filters
  /\ \A n \in Filters : n \in Wild /\ n # <<>> /\ n \notin Names
  BY NamesAssumption

LEMMA PublishStep ==
  ASSUME RegistryInv, NEW n \in Names, publish(n)
  PROVE  RegistryInv'
<1> DEFINE i == findTopic(registry, n)
<1>0. TypeInv /\ LimitInv /\ Handled(registry) /\ IdInv
  BY DEF RegistryInv
<1>1. /\ i \in 0..Len(registry) /\ (i # 0 => registry[i].name = n)
      /\ Len(registry) \in Nat /\ \A j \in 1..Len(registry) : registry[j] \in Topic
  BY <1>0, FindTopic DEF TypeInv
<1>2. /\ loop = "none" /\ last' = NoCall /\ hasSubscription' = hasSubscription
      /\ gwIds' = gwIds /\ gwSubs' = gwSubs /\ strayed' = strayed
      /\ \/ /\ i = 0 /\ Len(registry) < MaxTopics
            /\ current' = Assign(current, NbiotTopic(n)) /\ loop' = "Register"
            /\ registry' = registry
         \/ /\ i # 0 /\ loop' = "Publish"
            /\ registry' = [registry EXCEPT ![i].reg = @ \cup {"PUB"}]
            /\ current' = Assign(current, registry'[i])
  BY DEF publish, gateway
<1>3. current.mh \in Handlers \cup {NoHandler}
  BY <1>0, TopicIsCurrent DEF TypeInv
<1>4. MessageForItsTopic'
  BY <1>2, Quiet
<1> HIDE DEF i
<1>5. CASE i = 0
  <2>1. /\ Len(registry) < MaxTopics /\ loop' = "Register" /\ registry' = registry
        /\ current' = Assign(current, NbiotTopic(n))
    BY <1>2, <1>5
  <2>2. current' \in Topic /\ current'.name = n /\ current'.reg = {}
    BY <1>3, <2>1, NewTopic, AssignIs
  <2>3. current' \in Current
    BY <2>2, TopicIsCurrent
  <2>4. TypeInv'
    BY <1>0, <1>2, <2>1, <2>2, <2>3 DEF TypeInv
  <2>5. LimitInv'
    BY <1>1, <2>1, RegistryAssumption DEF LimitInv
  <2>6. IdInv'
    BY <1>0, <1>2, <2>1 DEF IdInv
  <2>7. Handled(registry') /\ (strayed' = {} => Subscribed(registry', gwSubs'))
    BY <1>0, <1>2, <2>1 DEF RegistryInv
  <2> QED BY <1>4, <2>4, <2>5, <2>6, <2>7 DEF RegistryInv
<1>6. CASE i # 0
  <2> DEFINE flags == registry[i].reg \cup {"PUB"}
             new == [registry[i] EXCEPT !.reg = flags]
  <2>1. i \in 1..Len(registry) /\ registry[i] \in Topic /\ registry[i].name = n
    BY <1>1, <1>6
  <2>2. registry' = [registry EXCEPT ![i] = new]
    BY <1>2, <1>6
  <2>3. flags \in SUBSET Flags
    BY <2>1, TopicFields DEF Flags
  <2>a. "SUB" \in flags => "SUB" \in registry[i].reg
    OBVIOUS
  <2> HIDE DEF flags
  <2>4. /\ new \in Topic /\ new.name = n /\ new.id = registry[i].id
        /\ new.mh = registry[i].mh /\ new.reg = flags
    BY <2>1, <2>3, TopicUpdates
  <2> HIDE DEF new
  <2>5. /\ registry' \in Seq(Topic) /\ Len(registry') = Len(registry)
        /\ registry'[i] = new
        /\ \A j \in 1..Len(registry) : j # i => registry'[j] = registry[j]
    BY <1>0, <2>1, <2>2, <2>4 DEF TypeInv
  <2>6. \A j \in 1..Len(registry) :
          /\ registry'[j].name = registry[j].name /\ registry'[j].id = registry[j].id
          /\ "SUB" \in registry'[j].reg => "SUB" \in registry[j].reg
          /\ registry[j].mh # NoHandler => registry'[j].mh # NoHandler
    BY <2>1, <2>4, <2>5, <2>a
  <2>7. Distinct(registry')
    <3>1. DOMAIN registry' = 1..Len(registry) /\ DOMAIN registry = 1..Len(registry)
      BY <1>0, <2>5 DEF TypeInv
    <3> QED BY <1>0, <2>6, <3>1 DEF TypeInv, Distinct
  <2>8. Refreshed(registry', registry)
    BY <2>5, <2>6, <2>7 DEF Refreshed
  <2>9. /\ current' \in Topic /\ current'.name = n /\ current'.id = registry[i].id
        /\ loop' = "Publish"
    BY <1>2, <1>3, <1>6, <2>4, <2>5, AssignIs
  <2>10. current' \in Current
    BY <2>9, TopicIsCurrent
  <2>11. TypeInv'
    BY <1>0, <1>2, <2>5, <2>7, <2>9, <2>10 DEF TypeInv
  <2>12. LimitInv'
    BY <1>0, <2>5, <2>9 DEF LimitInv
  <2>13. Handled(registry') /\ (strayed' = {} => Subscribed(registry', gwSubs'))
    BY <1>0, <1>2, <2>8, RefreshedKeeps DEF RegistryInv
  <2>14. IdInv'
    <3>1. ASSUME "kept" \notin strayed
          PROVE  /\ \A j \in 1..Len(registry') : Agree(registry'[j], gwIds)
                 /\ Agree(current', gwIds)
      <4>1. \A j \in 1..Len(registry) : Agree(registry[j], gwIds)
        BY <1>0, <3>1 DEF IdInv
      <4>2. \A j \in 1..Len(registry') : Agree(registry'[j], gwIds)
        BY <2>8, <4>1, RefreshedKeeps
      <4>3. Agree(current', gwIds)
        BY <2>1, <2>9, <4>1 DEF Agree
      <4> QED BY <4>2, <4>3
    <3> QED BY <1>0, <1>2, <3>1 DEF IdInv
  <2> QED BY <1>4, <2>11, <2>12, <2>13, <2>14 DEF RegistryInv
<1> QED BY <1>5, <1>6

LEMMA SubscribeStep ==
  ASSUME RegistryInv, NEW n \in Names \cup Filters, NEW mh \in Handlers, subscribe(n, mh)
  PROVE  RegistryInv'
<1> DEFINE i == findTopic(registry, n)
<1>0. TypeInv /\ LimitInv /\ Handled(registry) /\ IdInv
  BY DEF RegistryInv
<1>1. /\ i \in 0..Len(registry) /\ (i # 0 => registry[i].name = n)
      /\ Len(registry) \in Nat /\ \A j \in 1..Len(registry) : registry[j] \in Topic
  BY <1>0, FindTopic DEF TypeInv
<1>2. /\ loop = "none" /\ last' = NoCall /\ hasSubscription' = hasSubscription
      /\ gwIds' = gwIds /\ gwSubs' = gwSubs /\ strayed' = strayed
      /\ \/ /\ i = 0 /\ Len(registry) < MaxTopics
            /\ current' = [Assign(current, NbiotTopic(n)) EXCEPT !.mh = mh]
            /\ loop' = "Subscribe" /\ registry' = registry
         \/ /\ i # 0 /\ current' = [registry[i] EXCEPT !.mh = mh]
            /\ loop' = "Subscribe" /\ registry' = registry
         \/ /\ i # 0 /\ registry' = attachMessageHandler(registry, i, mh)
            /\ current' = current /\ loop' = loop
  BY DEF subscribe, gateway
<1>3. current.mh \in Handlers \cup {NoHandler}
  BY <1>0, TopicIsCurrent DEF TypeInv
<1>4. MessageForItsTopic'
  BY <1>2, Quiet
<1>5. mh \in Handlers \cup {NoHandler} /\ mh # NoHandler
  BY RegistryAssumption
<1>6. i # 0 => i \in 1..Len(registry) /\ registry[i] \in Topic
  BY <1>1
<1>7. NbiotTopic(n) \in Topic /\ NbiotTopic(n).name = n
  BY NewTopic
<1> HIDE DEF i
<1>8. CASE registry' = registry
  <2>0. CASE current' = current /\ loop' = loop
    BY <1>0, <1>2, <1>4, <1>8, <2>0
      DEF RegistryInv, TypeInv, LimitInv, IdInv
  <2>a. CASE loop' = "Subscribe"
    <3>1. current' \in Topic /\ current'.name = n /\ current'.mh = mh
      <4>1. CASE i = 0
        <5> DEFINE c == Assign(current, NbiotTopic(n))
        <5>1. c \in Topic /\ c.name = n
          BY <1>3, <1>7, AssignIs
        <5>2. current' = [c EXCEPT !.mh = mh]
          BY <1>2, <4>1
        <5> HIDE DEF c
        <5> QED BY <1>5, <5>1, <5>2, TopicUpdates
      <4>2. CASE i # 0
        <5>1. current' = [registry[i] EXCEPT !.mh = mh]
          BY <1>2, <4>2, <2>a
        <5> QED BY <1>1, <1>5, <1>6, <4>2, <5>1, TopicUpdates
      <4> QED BY <4>1, <4>2
    <3>2. current' \in Current /\ current'.name # <<>> /\ current'.mh # NoHandler
      BY <1>5, <3>1, TopicIsCurrent, TopicFields
    <3>3. TypeInv'
      BY <1>0, <1>2, <1>8, <2>a, <3>2 DEF TypeInv
    <3>4. LimitInv'
      <4>1. CASE i = 0
        <5>1. Len(registry) < MaxTopics
          BY <1>2, <4>1
        <5> QED BY <1>1, <1>8, <5>1, RegistryAssumption DEF LimitInv
      <4>2. CASE i # 0
        BY <1>0, <1>1, <1>6, <1>8, <3>1, <4>2 DEF LimitInv
      <4> QED BY <4>1, <4>2
    <3>5. IdInv'
      BY <1>0, <1>2, <1>8, <2>a DEF IdInv
    <3>6. Handled(registry') /\ (strayed' = {} => Subscribed(registry', gwSubs'))
      BY <1>0, <1>2, <1>8 DEF RegistryInv
    <3> QED BY <1>4, <3>3, <3>4, <3>5, <3>6 DEF RegistryInv
  <2> QED BY <1>2, <2>0, <2>a
<1>9. CASE /\ i # 0 /\ registry' = attachMessageHandler(registry, i, mh)
           /\ current' = current /\ loop' = loop
  <2>1. Touched(registry', registry, mh)
    BY <1>0, <1>5, <1>6, <1>9, AttachMessageHandlerIs DEF TypeInv
  <2>2. Refreshed(registry', registry)
    BY <1>0, <1>5, <2>1, TouchedRefreshed DEF TypeInv
  <2>3. /\ registry' \in Seq(Topic) /\ Distinct(registry')
        /\ Len(registry') = Len(registry)
    BY <2>2 DEF Refreshed
  <2>4. TypeInv'
    BY <1>0, <1>2, <1>9, <2>3 DEF TypeInv
  <2>5. LimitInv'
    BY <1>0, <1>2, <1>9, <2>3 DEF LimitInv
  <2>6. Handled(registry') /\ (strayed' = {} => Subscribed(registry', gwSubs'))
    BY <1>0, <1>2, <2>2, RefreshedKeeps DEF RegistryInv
  <2>7. IdInv'
    <3>1. ASSUME "kept" \notin strayed
          PROVE  \A j \in 1..Len(registry') : Agree(registry'[j], gwIds)
      <4>1. \A j \in 1..Len(registry) : Agree(registry[j], gwIds)
        BY <1>0, <3>1 DEF IdInv
      <4> QED BY <2>2, <4>1, RefreshedKeeps
    <3> QED BY <1>0, <1>2, <1>9, <3>1 DEF IdInv
  <2> QED BY <1>4, <2>4, <2>5, <2>6, <2>7 DEF RegistryInv
<1> QED BY <1>2, <1>8, <1>9

LEMMA RemoveTopicPart ==
  ASSUME NEW reg \in Seq(Topic), Distinct(reg), NEW i \in 1..Len(reg)
  PROVE  /\ Part(removeTopic(reg, i), reg)
         /\ Len(removeTopic(reg, i)) < Len(reg)
<1>1. /\ removeTopic(reg, i) \in Seq(Topic) /\ Distinct(removeTopic(reg, i))
      /\ Len(removeTopic(reg, i)) < Len(reg)
      /\ \A j \in 1..Len(removeTopic(reg, i)) :
              \E k \in 1..Len(reg) : removeTopic(reg, i)[j] = reg[k]
  BY RemoveTopicShrinks
<1>2. Len(removeTopic(reg, i)) \in Nat /\ Len(reg) \in Nat
  BY <1>1
<1> QED BY <1>1, <1>2 DEF Part

\* As long as nothing moved, the topic itself is gone.
LEMMA RemovedGone ==
  ASSUME NEW reg \in Seq(Topic), Distinct(reg), NEW i \in 1..Len(reg),
         \A j \in Covered(reg, i) : ~(j < i)
  PROVE  \A j \in 1..Len(removeTopic(reg, i)) :
           removeTopic(reg, i)[j].name # reg[i].name
<1>1. \A j \in Covered(reg, i) : j \in 1..Len(reg) /\ j # i
  BY DEF Covered
<1>2. \A j \in Covered(reg, i) : j > i
  BY <1>1
<1>3. \A j \in 1..Len(removeTopic(reg, i)) :
        \E k \in 1..Len(reg) : /\ removeTopic(reg, i)[j] = reg[k]
                               /\ k # i /\ k \notin Covered(reg, i)
  BY <1>2, RemoveTopicExact
<1>4. \A k \in 1..Len(reg) : reg[k].name = reg[i].name => k = i
  BY DEF Distinct
<1> QED BY <1>3, <1>4

LEMMA PlainCoversNone ==
  ASSUME NEW reg, NEW i, reg[i].name \notin Wild
  PROVE  Covered(reg, i) = {}
  BY DEF Covered

LEMMA NoteStraysIs ==
  ASSUME NEW reg, NEW i, NoteStrays(reg, i)
  PROVE  /\ "kept" \notin strayed' => "kept" \notin strayed
         /\ strayed' = {} => strayed = {} /\ \A j \in Covered(reg, i) : ~(j < i)
<1>1. strayed' = strayed \cup (IF \E j \in Covered(reg, i) : j < i THEN {"moved"} ELSE {})
  BY DEF NoteStrays
<1>2. strayed \subseteq strayed'
  BY <1>1
<1>3. (\E j \in Covered(reg, i) : j < i) => "moved" \in strayed'
  BY <1>1
<1> QED BY <1>2, <1>3

LEMMA UnsubscribeStep ==
  ASSUME RegistryInv, NEW n \in Names \cup Filters, unsubscribe(n)
  PROVE  RegistryInv'
<1> DEFINE i == findTopic(registry, n)
<1>0. TypeInv /\ LimitInv /\ Handled(registry) /\ IdInv
  BY DEF RegistryInv
<1>1. /\ i \in 0..Len(registry) /\ (i # 0 => registry[i].name = n)
      /\ Len(registry) \in Nat
  BY <1>0, FindTopic DEF TypeInv
<1>2. /\ i # 0 /\ registry' = removeTopic(registry, i) /\ NoteStrays(registry, i)
      /\ gwSubs' \in {gwSubs, gwSubs \ {n}} /\ last' = NoCall
      /\ current' = current /\ loop' = loop /\ gwIds' = gwIds
  BY DEF unsubscribe, hasTopic
<1>3. hasSubscription' \in BOOLEAN
  <2>1. hasSubscription' =
          (hasSubscription /\ \E j \in DOMAIN registry' : "SUB" \in registry'[j].reg)
    BY DEF unsubscribe
  <2> QED BY <2>1, Zenon
<1>4. MessageForItsTopic'
  BY <1>2, Quiet
<1> HIDE DEF i
<1>5. i \in 1..Len(registry) /\ registry[i].name = n
  BY <1>1, <1>2
<1>6. Part(registry', registry) /\ Len(registry') < Len(registry)
  BY <1>0, <1>2, <1>5, RemoveTopicPart DEF TypeInv
<1>7. /\ registry' \in Seq(Topic) /\ Distinct(registry')
      /\ Len(registry') \in Nat
  BY <1>6 DEF Part
<1>8. gwSubs' \subseteq Names \cup Filters
  BY <1>0, <1>2 DEF TypeInv
<1>9. TypeInv'
  BY <1>0, <1>2, <1>3, <1>7, <1>8 DEF TypeInv
<1>10. LimitInv'
  BY <1>0, <1>1, <1>6, <1>7, RegistryAssumption DEF LimitInv
<1>11. Handled(registry')
  BY <1>0, <1>6, PartKeeps
<1>12. IdInv'
  <2>1. ASSUME "kept" \notin strayed'
        PROVE  /\ "kept" \notin strayed
               /\ \A j \in 1..Len(registry') : Agree(registry'[j], gwIds)
    <3>1. "kept" \notin strayed
      BY <1>2, <2>1, NoteStraysIs
    <3>2. \A j \in 1..Len(registry) : Agree(registry[j], gwIds)
      BY <1>0, <3>1 DEF IdInv
    <3> QED BY <1>6, <3>1, <3>2, PartKeeps
  <2> QED BY <1>0, <1>2, <2>1 DEF IdInv
<1>13. ASSUME strayed' = {} PROVE Subscribed(registry', gwSubs')
  <2>1. strayed = {} /\ \A j \in Covered(registry, i) : ~(j < i)
    BY <1>2, <1>13, NoteStraysIs
  <2>2. \A j \in 1..Len(registry') : registry'[j].name # n
    BY <1>0, <1>2, <1>5, <2>1, RemovedGone DEF TypeInv
  <2>3. Subscribed(registry', gwSubs)
    BY <1>6, <2>1, PartKeeps DEF RegistryInv
  <2> QED BY <1>2, <2>2, <2>3 DEF Subscribed
<1> QED BY <1>4, <1>9, <1>10, <1>11, <1>12, <1>13 DEF RegistryInv

\* pubackNotify() takes topics out; while the ids agree, the one with the id.
LEMMA PubackNotifyIs ==
  ASSUME TypeInv, NEW id, pubackNotify(id)
  PROVE  /\ Part(registry', registry)
         /\ registry' = registry \/ Len(registry') < Len(registry)
         /\ "kept" \notin strayed' => "kept" \notin strayed
         /\ strayed' = {} => strayed = {}
         /\ \A n \in Names :
              (\A j \in 1..Len(registry) : registry[j].id = id <=> registry[j].name = n)
                => \A j \in 1..Len(registry') : registry'[j].name # n
<1> DEFINE i == findTopicId(registry, id)
<1>0. registry \in Seq(Topic) /\ Distinct(registry) /\ Len(registry) \in Nat
  BY DEF TypeInv
<1>1. /\ i \in 0..Len(registry) /\ (i # 0 => registry[i].id = id)
      /\ i = 0 => \A j \in 1..Len(registry) : registry[j].id # id
  BY <1>0, FindTopicId
<1>2. CASE i = 0
  <2>1. registry' = registry /\ strayed' = strayed
    BY <1>2 DEF pubackNotify
  <2> HIDE DEF i
  <2>2. Part(registry', registry)
    BY <1>0, <2>1 DEF Part
  <2> QED BY <1>1, <1>2, <2>1, <2>2
<1>3. CASE i # 0
  <2>1. registry' = removeTopic(registry, i) /\ NoteStrays(registry, i)
    BY <1>3 DEF pubackNotify
  <2> HIDE DEF i
  <2>2. i \in 1..Len(registry) /\ registry[i].id = id
    BY <1>0, <1>1, <1>3
  <2>3. Part(registry', registry) /\ Len(registry') < Len(registry)
    BY <1>0, <2>1, <2>2, RemoveTopicPart
  <2>4. ASSUME NEW n \in Names,
               \A j \in 1..Len(registry) : registry[j].id = id <=> registry[j].name = n
        PROVE  \A j \in 1..Len(registry') : registry'[j].name # n
    <3>1. registry[i].name = n /\ registry[i].name \notin Wild
      BY <2>2, <2>4, PlainNames
    <3>2. \A j \in Covered(registry, i) : ~(j < i)
      BY <3>1, PlainCoversNone
    <3> QED BY <1>0, <2>1, <2>2, <3>1, <3>2, RemovedGone
  <2> QED BY <2>1, <2>3, <2>4, NoteStraysIs
<1> QED BY <1>2, <1>3

LEMMA RejectedStep ==
  ASSUME RegistryInv, NEW n \in Names, rejected(n)
  PROVE  RegistryInv'
<1> DEFINE id == IF loop = "Publish" /\ current.name = n THEN current.id ELSE gwIds[n]
<1>0. TypeInv /\ LimitInv /\ Handled(registry) /\ IdInv
  BY DEF RegistryInv
<1>1. /\ gwIds[n] # 0 /\ gwIds' = [gwIds EXCEPT ![n] = 0] /\ pubackNotify(id)
      /\ last' = NoCall /\ hasSubscription' = hasSubscription /\ gwSubs' = gwSubs
      /\ \/ loop = "Publish" /\ current.name = n /\ loop' = "none" /\ current' = Done(current)
         \/ /\ ~(loop = "Publish" /\ current.name = n)
            /\ loop' = loop /\ current' = current
  BY DEF rejected
<1>a. ASSUME "kept" \notin strayed PROVE id = gwIds[n]
  BY <1>0, <1>a DEF IdInv, Agree
<1> HIDE DEF id
<1>2. MessageForItsTopic'
  BY <1>1, Quiet
<1>3. /\ Part(registry', registry)
      /\ registry' = registry \/ Len(registry') < Len(registry)
      /\ "kept" \notin strayed' => "kept" \notin strayed
      /\ strayed' = {} => strayed = {}
      /\ (\A j \in 1..Len(registry) : registry[j].id = id <=> registry[j].name = n)
           => \A j \in 1..Len(registry') : registry'[j].name # n
  BY <1>0, <1>1, PubackNotifyIs
<1>4. /\ registry' \in Seq(Topic) /\ Distinct(registry')
      /\ Len(registry') \in Nat /\ Len(registry) \in Nat
  BY <1>0, <1>3 DEF Part, TypeInv
<1>5. /\ gwIds' \in [Names -> Ids \cup {0}] /\ gwIds'[n] = 0
      /\ \A m \in Names : m # n => gwIds'[m] = gwIds[m]
  BY <1>0, <1>1 DEF TypeInv
<1>6. current' \in Current
  BY <1>0, <1>1, DoneIs DEF TypeInv
<1>7. TypeInv'
  BY <1>0, <1>1, <1>4, <1>5, <1>6 DEF TypeInv
<1>8. LimitInv'
  BY <1>0, <1>1, <1>3, <1>4, RegistryAssumption DEF LimitInv
<1>9. Handled(registry')
  BY <1>0, <1>3, PartKeeps
<1>10. IdInv'
  <2>1. Injective(gwIds)'
    BY <1>0, <1>5 DEF IdInv, Injective
  <2>2. ASSUME "kept" \notin strayed'
        PROVE  /\ \A j \in 1..Len(registry') : Agree(registry'[j], gwIds')
               /\ loop' = "Publish" /\ current'.name \in Names => Agree(current', gwIds')
    <3>1. "kept" \notin strayed /\ id = gwIds[n]
      BY <1>3, <1>a, <2>2
    <3>2. \A j \in 1..Len(registry) : Agree(registry[j], gwIds)
      BY <1>0, <3>1 DEF IdInv
    <3>3. \A j \in 1..Len(registry) : registry[j].id = id <=> registry[j].name = n
      BY <1>0, <1>1, <3>1, <3>2 DEF IdInv, Injective, Agree
    <3>4. \A j \in 1..Len(registry') : registry'[j].name # n
      BY <1>3, <3>3
    <3>5. \A j \in 1..Len(registry') : Agree(registry'[j], gwIds)
      BY <1>3, <3>2, PartKeeps
    <3>6. \A j \in 1..Len(registry') : Agree(registry'[j], gwIds')
      BY <1>5, <3>4, <3>5 DEF Agree
    <3>7. loop' = "Publish" /\ current'.name \in Names => Agree(current', gwIds')
      BY <1>0, <1>1, <1>5, <3>1 DEF IdInv, Agree
    <3> QED BY <3>6, <3>7
  <2> QED BY <2>1, <2>2 DEF IdInv
<1>11. ASSUME strayed' = {} PROVE Subscribed(registry', gwSubs')
  BY <1>1, <1>3, <1>11, PartKeeps DEF RegistryInv
<1> QED BY <1>2, <1>7, <1>8, <1>9, <1>10, <1>11 DEF RegistryInv

\* The gateway has given an id, and the topic is inserted with it: the ids
\* still agree.
LEMMA InsertedAgrees ==
  ASSUME IdInv, gwIds \in [Names -> Ids \cup {0}], NEW topic, GivesId(topic.name, topic.id),
         NEW rest, Inserted(rest, registry, topic), "kept" \notin strayed
  PROVE  /\ \A i \in 1..Len(rest) : Agree(rest[i], gwIds')
         /\ Agree(topic, gwIds')
         /\ loop = "Publish" /\ current.name \in Names => Agree(current, gwIds')
<1>1. Injective(gwIds) /\ \A i \in 1..Len(registry) : Agree(registry[i], gwIds)
  BY DEF IdInv
<1>2. /\ \A m \in Names : m # topic.name => gwIds'[m] = gwIds[m]
      /\ IF topic.name \in Names THEN topic.id # 0 /\ gwIds'[topic.name] = topic.id
         ELSE topic.id = 0
      /\ topic.name \in Names /\ gwIds[topic.name] # 0
           => gwIds'[topic.name] = gwIds[topic.name]
  BY <1>1, GivesIdIs
<1>3. Agree(topic, gwIds')
  BY <1>2 DEF Agree
<1>4. \A i \in 1..Len(rest) : Agree(rest[i], gwIds')
  BY <1>1, <1>2, <1>3, InsertedKeeps
<1>5. loop = "Publish" /\ current.name \in Names => Agree(current, gwIds')
  BY <1>2 DEF IdInv, Agree
<1> QED BY <1>3, <1>4, <1>5

\* What attachWildcardMessageHandler() hands on is enough.
LEMMA AttachedHandled ==
  ASSUME Handled(registry), NEW topic, topic.name \notin Wild,
         NEW rest, Inserted(rest, registry, topic),
         \/ \E k \in 1..Len(registry) : /\ registry[k].name \in Wild
                                        /\ topic.mh = registry[k].mh
         \/ \A k \in 1..Len(registry) :
              registry[k].name \in Wild => ~Covers(registry[k].name, topic.name)
  PROVE  Handled(rest)
<1>1. \A k \in 1..Len(registry) :
        registry[k].name \in Wild /\ Covers(registry[k].name, topic.name)
          => topic.mh # NoHandler
  BY DEF Handled
<1> QED BY <1>1, InsertedKeeps

LEMMA RegisteredStep ==
  ASSUME RegistryInv, NEW id \in Ids \cup {0}, registered(id)
  PROVE  RegistryInv'
<1> DEFINE topic == [current EXCEPT !.id = id]
           att == attachWildcard(registry, topic)
           flags == att.reg \cup {"PUB"}
           new == [att EXCEPT !.reg = flags]
<1>0. TypeInv /\ LimitInv /\ Handled(registry) /\ IdInv
  BY DEF RegistryInv
<1>1. /\ loop = "Register" /\ GivesId(current.name, id)
      /\ current' = new /\ registry' = insertTopic(registry, new)
      /\ loop' = "Publish" /\ last' = NoCall /\ hasSubscription' = hasSubscription
      /\ gwSubs' = gwSubs /\ strayed' = strayed
  BY DEF registered
<1>2. /\ current.name \in Names /\ current.name # <<>> /\ "SUB" \notin current.reg
      /\ current.name \notin Wild
  BY <1>0, <1>1, PlainNames DEF TypeInv
<1>3. current \in Topic /\ registry \in Seq(Topic) /\ Distinct(registry)
  BY <1>0, <1>2, TopicIsCurrent DEF TypeInv
<1>4. topic \in Topic /\ topic.name = current.name /\ topic.id = id /\ topic.reg = current.reg
  BY <1>3, TopicUpdates
<1> HIDE DEF topic
<1>5. /\ att \in Topic /\ att.name = current.name /\ att.id = id /\ att.reg = current.reg
      /\ \/ \E k \in 1..Len(registry) : /\ registry[k].name \in Wild
                                        /\ att.mh = registry[k].mh
         \/ \A k \in 1..Len(registry) :
              registry[k].name \in Wild => ~Covers(registry[k].name, current.name)
  BY <1>3, <1>4, AttachWildcardIs
<1> HIDE DEF att
<1>6. flags \in SUBSET Flags /\ "SUB" \notin flags
  BY <1>2, <1>5, TopicFields DEF Flags
<1> HIDE DEF flags
<1>7. /\ new \in Topic /\ new.name = current.name /\ new.id = id /\ new.reg = flags
      /\ new.mh = att.mh
  BY <1>5, <1>6, TopicUpdates
<1> HIDE DEF new
<1>8. Inserted(registry', registry, new)
  BY <1>1, <1>3, <1>7, InsertTopicIs
<1>9. /\ registry' \in Seq(Topic) /\ Distinct(registry')
      /\ \/ Len(registry') = Len(registry)
         \/ /\ Len(registry') = Len(registry) + 1
            /\ \A j \in 1..Len(registry) : registry[j].name # current.name
  BY <1>7, <1>8 DEF Inserted
<1>10. Injective(gwIds) /\ gwIds \in [Names -> Ids \cup {0}]
  BY <1>0 DEF IdInv, TypeInv
<1>11. gwIds' \in [Names -> Ids \cup {0}] /\ Injective(gwIds)'
  BY <1>1, <1>10, GivesIdIs
<1>12. current' \in Current
  BY <1>1, <1>7, TopicIsCurrent
<1>13. TypeInv'
  BY <1>0, <1>1, <1>9, <1>11, <1>12 DEF TypeInv
<1>14. LimitInv'
  <2>1. Len(registry) \in Nat /\ MaxTopics \in Nat
    BY <1>3, RegistryAssumption
  <2> QED BY <1>0, <1>1, <1>9, <2>1 DEF LimitInv
<1>15. Handled(registry')
  BY <1>0, <1>2, <1>5, <1>7, <1>8, AttachedHandled
<1>16. IdInv'
  <2>1. ASSUME "kept" \notin strayed
        PROVE  /\ \A i \in 1..Len(registry') : Agree(registry'[i], gwIds')
               /\ Agree(current', gwIds')
    BY <1>0, <1>1, <1>7, <1>8, <1>10, <2>1, InsertedAgrees
  <2> QED BY <1>1, <1>11, <2>1 DEF IdInv
<1>17. ASSUME strayed' = {} PROVE Subscribed(registry', gwSubs')
  <2>1. Subscribed(registry, gwSubs)
    BY <1>1, <1>17 DEF RegistryInv
  <2> QED BY <1>1, <1>6, <1>7, <1>8, <2>1, InsertedKeeps
<1>18. MessageForItsTopic'
  BY <1>1, Quiet
<1> QED BY <1>13, <1>14, <1>15, <1>16, <1>17, <1>18 DEF RegistryInv

\* updateWildcardMessageHandler() behind insertTopic(): what the wildcard
\* covers has its handler.
LEMMA UpdateWildcardIs ==
  ASSUME NEW reg \in Seq(Topic), Distinct(reg), NEW topic \in Topic,
         topic.mh # NoHandler, \E j \in 1..Len(reg) : reg[j].name = topic.name
  PROVE  /\ Refreshed(updateWildcardMessageHandler(reg, topic), reg)
         /\ topic.name \in Wild =>
              \A j \in 1..Len(reg) :
                reg[j].name \notin Wild /\ Covers(topic.name, reg[j].name)
                  => updateWildcardMessageHandler(reg, topic)[j].mh # NoHandler
<1> DEFINE rest == updateWildcardMessageHandler(reg, topic)
<1>1. findTopic(reg, topic.name) # 0
  BY FindTopic, TopicFields
<1>2. CASE topic.name \in Wild
  <2>1. rest = Cover(reg, topic.name, topic.mh)
    BY <1>1, <1>2 DEF updateWildcardMessageHandler
  <2>2. topic.mh \in Handlers \cup {NoHandler}
    BY TopicFields
  <2> HIDE DEF rest
  <2>3. /\ Touched(rest, reg, topic.mh)
        /\ \A j \in 1..Len(reg) :
             reg[j].name \notin Wild /\ Covers(topic.name, reg[j].name)
               => rest[j].mh = topic.mh
    BY <2>1, <2>2, CoverIs
  <2>4. Refreshed(rest, reg)
    BY <2>3, TouchedRefreshed
  <2> QED BY <2>3, <2>4 DEF rest
<1>3. CASE topic.name \notin Wild
  <2>1. rest = reg
    BY <1>3 DEF updateWildcardMessageHandler
  <2> HIDE DEF rest
  <2>2. Refreshed(rest, reg)
    BY <2>1 DEF Refreshed
  <2> QED BY <1>3, <2>2 DEF rest
<1> QED BY <1>2, <1>3

LEMMA SubscribedStep ==
  ASSUME RegistryInv, NEW id \in Ids \cup {0}, subscribed(id)
  PROVE  RegistryInv'
<1> DEFINE topic == [current EXCEPT !.id = id]
           flags == topic.reg \cup {"SUB"}
           done == [topic EXCEPT !.reg = flags]
           ins == insertTopic(registry, done)
<1>0. TypeInv /\ LimitInv /\ Handled(registry) /\ IdInv
  BY DEF RegistryInv
<1>1. /\ loop = "Subscribe" /\ GivesId(current.name, id)
      /\ gwSubs' = gwSubs \cup {current.name}
      /\ IF valid(topic)
         THEN /\ hasSubscription' = TRUE
              /\ registry' = updateWildcardMessageHandler(ins, done)
         ELSE UNCHANGED <<registry, hasSubscription>>
      /\ current' = Done(current) /\ loop' = "none" /\ last' = NoCall
      /\ strayed' = strayed
  BY DEF subscribed
<1>2. current.name # <<>> /\ current.mh # NoHandler /\ registry \in Seq(Topic)
      /\ Distinct(registry)
  BY <1>0, <1>1 DEF TypeInv
<1>3. current \in Topic /\ current' \in Current
  BY <1>0, <1>1, <1>2, TopicIsCurrent, DoneIs DEF TypeInv
<1>4. /\ topic \in Topic /\ topic.name = current.name /\ topic.id = id
      /\ topic.mh = current.mh
  BY <1>3, TopicUpdates
<1> HIDE DEF topic
<1>5. hasSubscription' = TRUE /\ registry' = updateWildcardMessageHandler(ins, done)
  BY <1>1, <1>2, <1>4 DEF valid
<1>6. flags \in SUBSET Flags
  BY <1>4, TopicFields DEF Flags
<1> HIDE DEF flags
<1>7. /\ done \in Topic /\ done.name = current.name /\ done.id = id
      /\ done.mh # NoHandler
  BY <1>2, <1>4, <1>6, TopicUpdates
<1> HIDE DEF done
<1>8. Inserted(ins, registry, done)
  BY <1>2, <1>7, InsertTopicIs
<1> HIDE DEF ins
<1>9. /\ ins \in Seq(Topic) /\ Distinct(ins)
      /\ \E j \in 1..Len(ins) : ins[j].name = done.name
      /\ \/ Len(ins) = Len(registry)
         \/ /\ Len(ins) = Len(registry) + 1
            /\ \A j \in 1..Len(registry) : registry[j].name # current.name
  BY <1>7, <1>8 DEF Inserted
<1>10. /\ Refreshed(registry', ins)
       /\ done.name \in Wild =>
            \A j \in 1..Len(ins) :
              ins[j].name \notin Wild /\ Covers(done.name, ins[j].name)
                => registry'[j].mh # NoHandler
  BY <1>5, <1>7, <1>9, UpdateWildcardIs
<1>11. /\ registry' \in Seq(Topic) /\ Distinct(registry')
       /\ Len(registry') = Len(ins)
  BY <1>10 DEF Refreshed
<1>12. Injective(gwIds) /\ gwIds \in [Names -> Ids \cup {0}]
  BY <1>0 DEF IdInv, TypeInv
<1>13. gwIds' \in [Names -> Ids \cup {0}] /\ Injective(gwIds)'
  BY <1>1, <1>12, GivesIdIs
<1>14. gwSubs' \subseteq Names \cup Filters
  BY <1>0, <1>1, <1>3, TopicFields DEF TypeInv
<1>15. TypeInv'
  BY <1>1, <1>3, <1>5, <1>11, <1>13, <1>14 DEF TypeInv
<1>16. LimitInv'
  <2>1. Len(registry) \in Nat /\ MaxTopics \in Nat
    BY <1>2, RegistryAssumption
  <2> QED BY <1>0, <1>1, <1>9, <1>11, <2>1 DEF LimitInv
<1>17. Handled(registry')
  <2>1. CASE done.name \notin Wild
    <3>1. Handled(ins)
      BY <1>0, <1>7, <1>8, <2>1, InsertedKeeps
    <3> QED BY <1>10, <3>1, RefreshedKeeps
  <2>2. CASE done.name \in Wild
    <3>1. \A j \in 1..Len(ins) :
            /\ registry'[j].name = ins[j].name
            /\ ins[j].mh # NoHandler => registry'[j].mh # NoHandler
      BY <1>9, <1>10, <1>11 DEF Refreshed
    <3>2. \A j \in 1..Len(ins) :
            \/ j \in 1..Len(registry) /\ ins[j] = registry[j] /\ ins[j].name # done.name
            \/ ins[j].name = done.name /\ ins[j].mh # NoHandler
      BY <1>7, <1>8 DEF Inserted
    <3>3. ASSUME NEW i \in 1..Len(ins), ins[i].name \in Wild
          PROVE  registry'[i].mh # NoHandler
      BY <1>0, <3>1, <3>2, <3>3 DEF Handled
    <3>4. ASSUME NEW i \in 1..Len(ins), NEW j \in 1..Len(ins),
                 ins[i].name \in Wild, ins[j].name \notin Wild,
                 Covers(ins[i].name, ins[j].name)
          PROVE  registry'[j].mh # NoHandler
      <4>1. CASE ins[i].name = done.name
        BY <1>10, <2>2, <3>4, <4>1
      <4>2. CASE ins[i].name # done.name
        <5>1. /\ i \in 1..Len(registry) /\ ins[i] = registry[i]
              /\ j \in 1..Len(registry) /\ ins[j] = registry[j]
          BY <2>2, <3>2, <3>4, <4>2
        <5>2. ins[j].mh # NoHandler
          BY <1>0, <3>4, <5>1 DEF Handled
        <5> QED BY <3>1, <5>2
      <4> QED BY <4>1, <4>2
    <3> QED BY <1>11, <3>1, <3>3, <3>4 DEF Handled
  <2> QED BY <2>1, <2>2
<1>18. IdInv'
  <2>1. ASSUME "kept" \notin strayed
        PROVE  \A i \in 1..Len(registry') : Agree(registry'[i], gwIds')
    <3>1. \A i \in 1..Len(ins) : Agree(ins[i], gwIds')
      BY <1>0, <1>1, <1>7, <1>8, <1>12, <2>1, InsertedAgrees
    <3> QED BY <1>10, <3>1, RefreshedKeeps
  <2> QED BY <1>1, <1>13, <2>1 DEF IdInv
<1>19. ASSUME strayed' = {} PROVE Subscribed(registry', gwSubs')
  <2>1. Subscribed(registry, gwSubs')
    BY <1>1, <1>19 DEF RegistryInv, Subscribed
  <2>2. done.name \in gwSubs'
    BY <1>1, <1>7
  <2>3. Subscribed(ins, gwSubs')
    BY <1>8, <2>1, <2>2, InsertedKeeps
  <2> QED BY <1>10, <2>3, RefreshedKeeps
<1>20. MessageForItsTopic'
  BY <1>1, Quiet
<1> QED BY <1>15, <1>16, <1>17, <1>18, <1>19, <1>20 DEF RegistryInv

\* registerNotify(): the topic is inserted, with a handler if it is covered
\* and had none, or the list is full.
LEMMA RegisterNotifyIs ==
  ASSUME TypeInv, Handled(registry), NEW n \in Names, NEW id \in Ids, registerNotify(n, id)
  PROVE  \/ \E topic \in Topic :
              /\ topic.name = n /\ topic.id = id /\ topic.reg = {}
              /\ Inserted(registry', registry, topic) /\ Handled(registry')
              /\ Len(registry) < MaxTopics \/ Len(registry') = Len(registry)
         \/ registry' = registry /\ \A j \in 1..Len(registry) : registry[j].name # n
<1> DEFINE topic == [NbiotTopic(n) EXCEPT !.id = id]
           i == findTopic(registry, n)
           att == attachWildcard(registry, topic)
<1>0. registry \in Seq(Topic) /\ Distinct(registry) /\ n \notin Wild /\ n # <<>>
  BY PlainNames DEF TypeInv
<1>1. /\ i \in 0..Len(registry) /\ (i # 0 => registry[i].name = n)
      /\ (i = 0 => \A j \in 1..Len(registry) : registry[j].name # n)
      /\ Len(registry) \in Nat
  BY <1>0, FindTopic
<1>2. topic \in Topic /\ topic.name = n /\ topic.id = id /\ topic.reg = {}
  BY NewTopic, TopicUpdates
<1>3. IF i # 0 /\ registry[i].mh # NoHandler THEN registry' = insertTopic(registry, topic)
      ELSE IF i # 0 \/ Len(registry) < MaxTopics THEN registry' = insertTopic(registry, att)
      ELSE registry' = registry
  BY DEF registerNotify
<1> HIDE DEF topic
<1>4. /\ att \in Topic /\ att.name = n /\ att.id = id /\ att.reg = {}
      /\ \/ \E k \in 1..Len(registry) : /\ registry[k].name \in Wild
                                        /\ att.mh = registry[k].mh
         \/ \A k \in 1..Len(registry) :
              registry[k].name \in Wild => ~Covers(registry[k].name, att.name)
  BY <1>0, <1>2, AttachWildcardIs
<1> HIDE DEF att
<1>5. CASE i # 0 /\ registry[i].mh # NoHandler
  <2>1. registry' = insertTopic(registry, topic)
    BY <1>3, <1>5
  <2>2. Inserted(registry', registry, topic) /\ Len(registry') = Len(registry)
    BY <1>0, <1>2, <1>5, <2>1, InsertTopicIs
  <2> HIDE DEF i
  <2>3. i \in 1..Len(registry) /\ registry[i].name = topic.name
    BY <1>1, <1>2, <1>5
  <2>4. Handled(registry')
    BY <1>0, <1>2, <1>5, <2>2, <2>3, InsertedKeeps
  <2> QED BY <1>2, <2>2, <2>4
<1>6. CASE ~(i # 0 /\ registry[i].mh # NoHandler) /\ (i # 0 \/ Len(registry) < MaxTopics)
  <2>1. registry' = insertTopic(registry, att)
    BY <1>3, <1>6
  <2>2. /\ Inserted(registry', registry, att)
        /\ i # 0 => Len(registry') = Len(registry)
    BY <1>0, <1>4, <2>1, InsertTopicIs
  <2> HIDE DEF i
  <2>3. Handled(registry')
    BY <1>0, <1>4, <2>2, AttachedHandled
  <2> QED BY <1>4, <1>6, <2>2, <2>3
<1>7. CASE i = 0 /\ ~(Len(registry) < MaxTopics)
  <2>1. registry' = registry
    BY <1>3, <1>7
  <2> QED BY <1>1, <1>7, <2>1
<1> QED BY <1>5, <1>6, <1>7

LEMMA RegisterReceivedStep ==
  ASSUME RegistryInv, NEW n \in Names, NEW id \in Ids, registerReceived(n, id)
  PROVE  RegistryInv'
<1>0. TypeInv /\ LimitInv /\ Handled(registry) /\ IdInv
  BY DEF RegistryInv
<1>1. /\ GivesId(n, id) /\ registerNotify(n, id) /\ last' = NoCall
      /\ current' = current /\ loop' = loop /\ hasSubscription' = hasSubscription
      /\ gwSubs' = gwSubs /\ strayed' = strayed
  BY DEF registerReceived
<1>2. Injective(gwIds) /\ gwIds \in [Names -> Ids \cup {0}]
  BY <1>0 DEF IdInv, TypeInv
<1>3. /\ gwIds' \in [Names -> Ids \cup {0}] /\ Injective(gwIds)'
      /\ \A m \in Names : m # n => gwIds'[m] = gwIds[m]
      /\ gwIds[n] # 0 => gwIds'[n] = gwIds[n]
  BY <1>1, <1>2, GivesIdIs
<1>4. MessageForItsTopic'
  BY <1>1, Quiet
<1>5. Len(registry) \in Nat /\ MaxTopics \in Nat
  BY <1>0, RegistryAssumption DEF TypeInv
<1>6. CASE registry' = registry /\ \A j \in 1..Len(registry) : registry[j].name # n
  <2>1. TypeInv' /\ LimitInv' /\ Handled(registry')
    BY <1>0, <1>1, <1>3, <1>6 DEF TypeInv, LimitInv
  <2>2. IdInv'
    <3>1. ASSUME "kept" \notin strayed
          PROVE  /\ \A i \in 1..Len(registry') : Agree(registry'[i], gwIds')
                 /\ loop = "Publish" /\ current.name \in Names => Agree(current, gwIds')
      BY <1>0, <1>3, <1>6, <3>1 DEF IdInv, Agree
    <3> QED BY <1>1, <1>3, <3>1 DEF IdInv
  <2>3. strayed' = {} => Subscribed(registry', gwSubs')
    BY <1>1, <1>6 DEF RegistryInv
  <2> QED BY <1>4, <2>1, <2>2, <2>3 DEF RegistryInv
<1>7. ASSUME NEW topic \in Topic,
             topic.name = n, topic.id = id, topic.reg = {},
             Inserted(registry', registry, topic), Handled(registry'),
             Len(registry) < MaxTopics \/ Len(registry') = Len(registry)
      PROVE  RegistryInv'
  <2>1. /\ registry' \in Seq(Topic) /\ Distinct(registry')
        /\ \/ /\ Len(registry') = Len(registry)
              /\ \A j \in 1..Len(registry) : registry'[j].name = registry[j].name
           \/ Len(registry') = Len(registry) + 1
    BY <1>7 DEF Inserted
  <2>2. TypeInv'
    BY <1>0, <1>1, <1>3, <2>1 DEF TypeInv
  <2>3. LimitInv'
    <3>1. CASE /\ Len(registry') = Len(registry)
               /\ \A j \in 1..Len(registry) : registry'[j].name = registry[j].name
      BY <1>0, <1>1, <3>1 DEF LimitInv
    <3>2. CASE Len(registry') = Len(registry) + 1
      BY <1>5, <1>7, <3>2 DEF LimitInv
    <3> QED BY <2>1, <3>1, <3>2
  <2>4. IdInv'
    <3>1. ASSUME "kept" \notin strayed
          PROVE  /\ \A i \in 1..Len(registry') : Agree(registry'[i], gwIds')
                 /\ loop = "Publish" /\ current.name \in Names => Agree(current, gwIds')
      BY <1>0, <1>1, <1>2, <1>7, <3>1, InsertedAgrees
    <3> QED BY <1>1, <1>3, <3>1 DEF IdInv
  <2>5. strayed' = {} => Subscribed(registry', gwSubs')
    <3>1. "SUB" \notin topic.reg
      BY <1>7
    <3> QED BY <1>1, <1>7, <3>1, InsertedKeeps DEF RegistryInv
  <2> QED BY <1>4, <1>7, <2>2, <2>3, <2>4, <2>5 DEF RegistryInv
<1> QED BY <1>0, <1>1, <1>6, <1>7, RegisterNotifyIs

LEMMA LoopEndsStep ==
  ASSUME RegistryInv, loopEnds
  PROVE  RegistryInv'
<1>0. TypeInv /\ LimitInv /\ Handled(registry) /\ IdInv
  BY DEF RegistryInv
<1>1. /\ loop' = "none" /\ current' = Done(current) /\ last' = NoCall
      /\ registry' = registry /\ hasSubscription' = hasSubscription /\ gwIds' = gwIds
      /\ strayed' = strayed
      /\ gwSubs' = gwSubs \/ (loop = "Subscribe" /\ gwSubs' = gwSubs \cup {current.name})
  BY DEF loopEnds
<1>2. current' \in Current
  BY <1>0, <1>1, DoneIs DEF TypeInv
<1>3. gwSubs' \subseteq Names \cup Filters /\ gwSubs \subseteq gwSubs'
  <2>1. CASE gwSubs' = gwSubs
    BY <1>0, <2>1 DEF TypeInv
  <2>2. CASE loop = "Subscribe" /\ gwSubs' = gwSubs \cup {current.name}
    <3>1. current \in Topic
      BY <1>0, <2>2, TopicIsCurrent DEF TypeInv
    <3> QED BY <1>0, <2>2, <3>1, TopicFields DEF TypeInv
  <2> QED BY <1>1, <2>1, <2>2
<1>4. TypeInv'
  BY <1>0, <1>1, <1>2, <1>3 DEF TypeInv
<1>5. LimitInv' /\ Handled(registry')
  BY <1>0, <1>1 DEF LimitInv
<1>6. IdInv'
  BY <1>0, <1>1 DEF IdInv
<1>7. MessageForItsTopic'
  BY <1>1, Quiet
<1>8. strayed' = {} => Subscribed(registry', gwSubs')
  BY <1>1, <1>3 DEF RegistryInv, Subscribed
<1> QED BY <1>4, <1>5, <1>6, <1>7, <1>8 DEF RegistryInv

LEMMA MessageDispatcherStep ==
  ASSUME RegistryInv, NEW n \in Names, messageDispatcher(n)
  PROVE  RegistryInv'
<1> DEFINE S == {j \in 1..Len(registry) : valid(registry[j]) /\ registry[j].id = gwIds[n]}
           i == IF S # {} THEN Min(S) ELSE 0
<1>0. TypeInv /\ LimitInv /\ Handled(registry) /\ IdInv
  BY DEF RegistryInv
<1>1. SelectInSeq(registry, LAMBDA e : valid(e) /\ e.id = gwIds[n]) = i
  BY DEF SelectInSeq
<1>2. /\ gwIds[n] # 0 /\ i # 0
      /\ last' = [called |-> TRUE, topic |-> n, name |-> registry[i].name,
                  mh |-> registry[i].mh]
      /\ registry' = registry /\ current' = current /\ loop' = loop
      /\ hasSubscription' = hasSubscription /\ gwIds' = gwIds /\ gwSubs' = gwSubs
      /\ strayed' = strayed
  BY <1>1 DEF messageDispatcher, gateway
<1>3. S \subseteq Nat
  OBVIOUS
<1>4. i \in 1..Len(registry) /\ registry[i].id = gwIds[n]
  BY <1>2, <1>3, MinNat
<1> HIDE DEF i
<1>5. MessageForItsTopic'
  <2>1. last'.name = registry[i].name /\ last'.topic = n
    BY <1>2
  <2>2. ASSUME "kept" \notin strayed PROVE registry[i].name = n
    <3>1. Agree(registry[i], gwIds) /\ Injective(gwIds)
      BY <1>0, <1>4, <2>2 DEF IdInv
    <3> QED BY <1>2, <1>4, <3>1 DEF Agree, Injective
  <2> QED BY <1>2, <2>1, <2>2 DEF MessageForItsTopic
<1>6. TypeInv' /\ LimitInv' /\ Handled(registry')
  BY <1>0, <1>2 DEF TypeInv, LimitInv
<1>7. IdInv'
  BY <1>0, <1>2 DEF IdInv
<1>8. strayed' = {} => Subscribed(registry', gwSubs')
  BY <1>2 DEF RegistryInv
<1> QED BY <1>5, <1>6, <1>7, <1>8 DEF RegistryInv

LEMMA ReconnectStep ==
  ASSUME RegistryInv, NEW clean \in BOOLEAN, NEW hibernated \in BOOLEAN,
         reconnect(clean, hibernated)
  PROVE  RegistryInv'
<1> DEFINE has == hasSubscription /\ ~hibernated
           forget == ~has /\ hasAnyTopic(Flags)
<1>0. TypeInv /\ LimitInv /\ Handled(registry) /\ IdInv
  BY DEF RegistryInv
<1>1. /\ loop' = "none" /\ current' = Done(current) /\ last' = NoCall
      /\ gwIds' = (IF clean THEN [n \in Names |-> 0] ELSE gwIds)
      /\ gwSubs' = (IF clean THEN {} ELSE gwSubs)
      /\ strayed' = (IF registry' = <<>> THEN {}
                     ELSE strayed \cup (IF clean THEN {"kept"} ELSE {}))
  BY DEF reconnect
<1>2. registry' = <<>> \/ registry' = registry
  BY DEF reconnect
<1>3. hasSubscription' \in BOOLEAN
  <2>1. hasSubscription' = (has \/ (forget /\ ~clean))
    BY DEF reconnect
  <2> QED BY <2>1, Zenon
<1>4. current' \in Current
  BY <1>0, <1>1, DoneIs DEF TypeInv
<1>5. MessageForItsTopic'
  BY <1>1, Quiet
<1>6. gwIds' \in [Names -> Ids \cup {0}] /\ Injective(gwIds)' /\ gwSubs' \subseteq Names \cup Filters
  BY <1>0, <1>1 DEF TypeInv, IdInv, Injective
<1>7. CASE registry' = <<>>
  <2>1. registry' \in Seq(Topic) /\ Len(registry') = 0 /\ DOMAIN registry' = {}
    BY <1>7
  <2>2. Distinct(registry')
    BY <2>1 DEF Distinct
  <2>3. TypeInv'
    BY <1>1, <1>3, <1>4, <1>6, <2>1, <2>2 DEF TypeInv
  <2>4. \A i \in 1..Len(registry') : FALSE
    BY <2>1
  <2>5. LimitInv'
    BY <1>1, <2>1, RegistryAssumption DEF LimitInv
  <2>6. Handled(registry') /\ Subscribed(registry', gwSubs')
    BY <2>4 DEF Handled, Subscribed
  <2>7. IdInv'
    BY <1>1, <1>6, <2>4 DEF IdInv
  <2> QED BY <1>5, <2>3, <2>5, <2>6, <2>7 DEF RegistryInv
<1>8. CASE registry' = registry /\ registry' # <<>>
  <2>1. TypeInv'
    BY <1>0, <1>1, <1>3, <1>4, <1>6, <1>8 DEF TypeInv
  <2>2. LimitInv' /\ Handled(registry')
    BY <1>0, <1>1, <1>8 DEF LimitInv
  <2>3. strayed' = strayed \cup (IF clean THEN {"kept"} ELSE {})
    BY <1>1, <1>8
  <2>4. "kept" \notin strayed' => ~clean /\ "kept" \notin strayed
    BY <2>3
  <2>5. IdInv'
    BY <1>0, <1>1, <1>6, <1>8, <2>4 DEF IdInv
  <2>6. strayed' = {} => ~clean /\ strayed = {}
    BY <2>3, <2>4
  <2>7. strayed' = {} => Subscribed(registry', gwSubs')
    BY <1>1, <1>8, <2>6 DEF RegistryInv
  <2> QED BY <1>5, <2>1, <2>2, <2>5, <2>7 DEF RegistryInv
<1> QED BY <1>2, <1>7, <1>8

LEMMA InitRegistryInv ==
  ASSUME Init
  PROVE  RegistryInv
<1>1. /\ registry = <<>> /\ loop = "none" /\ hasSubscription = FALSE
      /\ gwIds = [n \in Names |-> 0] /\ gwSubs = {} /\ last = NoCall
      /\ current = NbiotTopic(<<>>)
  BY DEF Init
<1>2. registry \in Seq(Topic) /\ Len(registry) = 0 /\ DOMAIN registry = {}
  BY <1>1
<1>3. Distinct(registry)
  BY <1>2 DEF Distinct
<1>4. current \in Current
  BY <1>1 DEF NbiotTopic, Current
<1>5. TypeInv
  BY <1>1, <1>2, <1>3, <1>4 DEF TypeInv
<1>6. \A i \in 1..Len(registry) : FALSE
  BY <1>2
<1>7. LimitInv
  BY <1>1, <1>2, RegistryAssumption DEF LimitInv
<1>8. Handled(registry) /\ Subscribed(registry, gwSubs)
  BY <1>6 DEF Handled, Subscribed
<1>9. IdInv
  BY <1>1, <1>6 DEF IdInv, Injective
<1>10. MessageForItsTopic
  <2>1. ~last.called
    BY <1>1 DEF NoCall
  <2> QED BY <2>1 DEF MessageForItsTopic
<1> QED BY <1>5, <1>7, <1>8, <1>9, <1>10 DEF RegistryInv

LEMMA StepRegistryInv ==
  ASSUME RegistryInv, [Next]_vars
  PROVE  RegistryInv'
<1>1. CASE UNCHANGED vars
  BY <1>1 DEF vars, RegistryInv, TypeInv, LimitInv, IdInv, MessageForItsTopic
<1>2. CASE \E n \in Names : publish(n) \/ rejected(n) \/ messageDispatcher(n)
  BY <1>2, PublishStep, RejectedStep, MessageDispatcherStep
<1>3. CASE \E n \in Names \cup Filters :
             unsubscribe(n) \/ \E mh \in Handlers : subscribe(n, mh)
  BY <1>3, UnsubscribeStep, SubscribeStep
<1>4. CASE \E id \in Ids \cup {0} : registered(id) \/ subscribed(id)
  BY <1>4, RegisteredStep, SubscribedStep
<1>5. CASE \E n \in Names, id \in Ids : registerReceived(n, id)
  BY <1>5, RegisterReceivedStep
<1>6. CASE loopEnds
  BY <1>6, LoopEndsStep
<1>7. CASE \E clean, hibernated \in BOOLEAN : reconnect(clean, hibernated)
  BY <1>7, ReconnectStep
<1> QED BY <1>1, <1>2, <1>3, <1>4, <1>5, <1>6, <1>7 DEF Next

----------------------------------------------------------------------------
(* The theorems                                                            *)

\* RegistryInv is an invariant of the registry, its users and the gateway: the
\* types, the room kept for the topic of the running loop, the handlers, the
\* ids and the subscriptions of NbiotTopicRegistry, for any names, ids,
\* handlers and any m_maxTopics.
THEOREM RegistryInvariant == Spec => []RegistryInv
<1>1. Init => RegistryInv
  BY InitRegistryInv
<1>2. RegistryInv /\ [Next]_vars => RegistryInv'
  BY StepRegistryInv
<1> QED BY <1>1, <1>2, PTL DEF Spec

\* Every topic stands in m_registry once and under a valid name, whatever
\* insertTopic() and removeTopic() were called for.
THEOREM RegistryTypeCorrect == Spec => []RegistryTypeOK
<1>1. RegistryInv => RegistryTypeOK
  <2> SUFFICES ASSUME RegistryInv PROVE RegistryTypeOK
    OBVIOUS
  <2>1. TypeInv
    BY DEF RegistryInv
  <2>2. \A i \in DOMAIN registry : valid(registry[i])
    <3>1. \A i \in DOMAIN registry : registry[i] \in Topic
      BY <2>1 DEF TypeInv
    <3> QED BY <3>1, TopicFields DEF valid
  <2> QED BY <2>1, <2>2 DEF RegistryTypeOK, TypeInv, Distinct
<1> QED BY <1>1, RegistryInvariant, PTL

\* publish() and subscribe() test m_maxTopics before the loop and
\* registerNotify() may insert in between: the registry never holds more than
\* one topic too many.
THEOREM RegistryLimit == Spec => []LimitExceededByOne
<1>1. RegistryInv => LimitExceededByOne
  BY DEF RegistryInv, LimitInv, LimitExceededByOne
<1> QED BY <1>1, RegistryInvariant, PTL

\* A plain topic covered by a registered wildcard has a message handler, in
\* whichever order insertTopic(), attachWildcardMessageHandler() and
\* updateWildcardMessageHandler() met the two.
THEOREM RegistryHandlers == Spec => []CoveredHasHandler
<1>1. RegistryInv => CoveredHasHandler
  <2> SUFFICES ASSUME RegistryInv PROVE CoveredHasHandler
    OBVIOUS
  <2>1. Handled(registry) /\ DOMAIN registry = 1..Len(registry)
    BY DEF RegistryInv, TypeInv
  <2> QED BY <2>1 DEF Handled, CoveredHasHandler
<1> QED BY <1>1, RegistryInvariant, PTL

\* messageDispatcher() finds by its id the topic a message was sent for, as
\* long as the gateway did not start anew without the registry.
THEOREM RegistryMessages == Spec => []MessageForItsTopic
<1>1. RegistryInv => MessageForItsTopic
  BY DEF RegistryInv
<1> QED BY <1>1, RegistryInvariant, PTL

\* isNbiotSubscribedTo() tells of no subscription the gateway does not hold,
\* while neither a clean session nor removeTopic() has left a topic behind.
THEOREM RegistrySubscriptions == Spec => []SubscribedAtGateway
<1>1. RegistryInv => SubscribedAtGateway
  <2> SUFFICES ASSUME RegistryInv, strayed = {}, NEW n \in Names \cup Filters,
                      hasTopic(n, {"SUB"})
               PROVE  n \in gwSubs
    BY DEF SubscribedAtGateway
  <2> DEFINE i == findTopic(registry, n)
  <2>1. i # 0 /\ registry[i].reg \cap {"SUB"} # {}
    BY DEF hasTopic
  <2>2. i \in 0..Len(registry) /\ (i # 0 => registry[i].name = n) /\ Len(registry) \in Nat
    BY FindTopic DEF RegistryInv, TypeInv
  <2> HIDE DEF i
  <2>3. i \in 1..Len(registry) /\ registry[i].name = n /\ "SUB" \in registry[i].reg
    BY <2>1, <2>2
  <2> QED BY <2>3 DEF RegistryInv, Subscribed
<1> QED BY <1>1, RegistryInvariant, PTL

\* unsubscribe() of a wildcard in front of what it covers takes the wildcard,
\* all it covers and nothing else: removeTopic() finds it at its old index.
THEOREM UnsubscribeExact == Spec => UnsubscribeTakesCovered
<1> DEFINE Takes(n) ==
      LET i       == findTopic(registry, n)
          covered == Covered(registry, i)
      IN unsubscribe(n) /\ (\A j \in covered : j > i) =>
           ToSet(registry') = {registry[j] : j \in DOMAIN registry \ (covered \cup {i})}
<1>1. ASSUME RegistryInv, NEW n \in Names \cup Filters
      PROVE  Takes(n)
  <2> DEFINE i == findTopic(registry, n)
             covered == Covered(registry, i)
  <2> SUFFICES ASSUME unsubscribe(n), \A j \in covered : j > i
               PROVE  ToSet(registry') =
                        {registry[j] : j \in DOMAIN registry \ (covered \cup {i})}
    OBVIOUS
  <2>1. registry \in Seq(Topic) /\ Distinct(registry) /\ Len(registry) \in Nat
        /\ DOMAIN registry = 1..Len(registry)
    BY <1>1 DEF RegistryInv, TypeInv
  <2>2. i # 0 /\ registry' = removeTopic(registry, i)
    BY DEF unsubscribe, hasTopic
  <2>3. i \in 1..Len(registry)
    BY <2>1, <2>2, FindTopic
  <2>4. registry' \in Seq(Topic)
    BY <2>1, <2>2, <2>3, RemoveTopicShrinks
  <2> HIDE DEF i
  <2>a. \A j \in Covered(registry, i) : j > i
    OBVIOUS
  <2>b. /\ \A j \in 1..Len(removeTopic(registry, i)) :
             \E k \in 1..Len(registry) : /\ removeTopic(registry, i)[j] = registry[k]
                                         /\ k # i /\ k \notin Covered(registry, i)
        /\ \A k \in 1..Len(registry) : k # i /\ k \notin Covered(registry, i) =>
             \E j \in 1..Len(removeTopic(registry, i)) :
               removeTopic(registry, i)[j] = registry[k]
    BY <2>1, <2>3, <2>a, RemoveTopicExact
  <2>5. /\ \A j \in 1..Len(registry') :
             \E k \in 1..Len(registry) : /\ registry'[j] = registry[k]
                                         /\ k # i /\ k \notin covered
        /\ \A k \in 1..Len(registry) : k # i /\ k \notin covered =>
             \E j \in 1..Len(registry') : registry'[j] = registry[k]
    BY <2>2, <2>b
  <2> HIDE DEF covered
  <2>6. ToSet(registry') = {registry'[j] : j \in 1..Len(registry')}
    BY <2>4 DEF ToSet
  <2> QED BY <2>1, <2>5, <2>6
<1>2. RegistryInv => [registry' # registry => \A n \in Names \cup Filters : Takes(n)]_vars
  BY <1>1
<1> QED BY <1>2, RegistryInvariant, PTL DEF UnsubscribeTakesCovered

----------------------------------------------------------------------------
(* The matcher                                                             *)

\* The m levels of a name end before the positions e[1] to e[m].
Ends(n, m, e) ==
  /\ m \in Nat \ {0} /\ e \in [0..m -> 0..Len(n) + 1]
  /\ e[0] = 0 /\ e[m] = Len(n) + 1
  /\ \A l \in 1..m :
       /\ e[l - 1] < e[l]
       /\ \A k \in e[l - 1] + 1..e[l] - 1 : n[k] # "/"
       /\ l < m => n[e[l]] = "/"
  /\ Levels(n) = [l \in 1..m |-> SubSeq(n, e[l - 1] + 1, e[l] - 1)]

\* The CHOOSE in Levels() finds them.
LEMMA LevelsEnd ==
  ASSUME NEW Chars, NEW n \in Seq(Chars)
  PROVE  \E m, e : Ends(n, m, e)
<1> DEFINE N    == Len(n) + 1
           ends == {k \in DOMAIN n : n[k] = "/"} \cup {N}
           m    == Cardinality(ends)
           end(i) == IF i = 0 THEN 0
                     ELSE CHOOSE k \in ends : Rank(ends, k) = i - 1
           e == [i \in 0..m |-> end(i)]
<1>0. N \in Nat \ {0} /\ DOMAIN n = 1..N - 1 /\ Len(n) + 1 = N
  OBVIOUS
<1>1. Within(ends, N) /\ N \in ends
  BY <1>0 DEF Within
<1>2. Levels(n) = [i \in 1..m |-> SubSeq(n, end(i - 1) + 1, end(i) - 1)]
  BY Zenon DEF Levels, Rank
<1>3. \A k \in 1..N : k \in ends <=> k = N \/ n[k] = "/"
  BY <1>0
<1> HIDE DEF ends, N
<1>4. m \in Nat \ {0}
  <2>1. m \in Nat /\ IsFiniteSet(ends)
    BY <1>0, <1>1, WithinFinite
  <2>2. m # 0
    BY <1>1, <2>1, FS_EmptySet
  <2> QED BY <2>1, <2>2
<1> HIDE DEF m
<1>5. ASSUME NEW i \in 1..m
      PROVE  end(i) \in ends /\ Rank(ends, end(i)) = i - 1 /\ end(i) \in 1..N
  <2>1. \E k \in ends : Rank(ends, k) = i - 1
    BY <1>0, <1>1, RankReached DEF m
  <2>2. i # 0
    BY <1>4
  <2>3. end(i) \in ends /\ Rank(ends, end(i)) = i - 1
    BY <2>1, <2>2
  <2> QED BY <1>1, <2>3 DEF Within
<1>6. end(0) = 0
  OBVIOUS
<1> HIDE DEF end
<1>7. e \in [0..m -> 0..N]
  <2>1. \A i \in 0..m : i = 0 \/ i \in 1..m
    BY <1>4
  <2> QED BY <1>0, <1>5, <1>6, <2>1
<1>8. \A i \in 0..m : e[i] = end(i)
  OBVIOUS
<1> HIDE DEF e
<1>9. ASSUME NEW k \in ends
      PROVE  /\ k \in 1..N /\ Rank(ends, k) \in 0..m - 1
             /\ \A j \in ends : j < k => Rank(ends, j) < Rank(ends, k)
  <2>1. k \in 1..N /\ N \in Nat
    BY <1>0, <1>1 DEF Within
  <2>2. Rank(ends, k) + 1 <= Rank(ends, N + 1) /\ Rank(ends, N + 1) = m
    BY <1>0, <1>1, <2>1, RankMonotone, RankEnds DEF m
  <2>3. \A j \in ends : Rank(ends, j) \in Nat
    BY <1>0, <1>1, RankType
  <2>4. \A j \in ends : j < k => Rank(ends, j) + 1 <= Rank(ends, k)
    BY <1>0, <1>1, <2>1, RankMonotone
  <2> QED BY <1>4, <2>1, <2>2, <2>3, <2>4
<1>10. ASSUME NEW k \in ends, NEW j \in ends
       PROVE  Rank(ends, j) < Rank(ends, k) => j < k
  <2>1. j \in 1..N /\ k \in 1..N /\ Rank(ends, j) \in Nat /\ Rank(ends, k) \in Nat
    BY <1>9, <1>4
  <2> QED BY <1>9, <2>1
<1>11. end(m) = N
  <2>1. m \in 1..m
    BY <1>4
  <2>2. end(m) \in ends /\ Rank(ends, end(m)) = m - 1 /\ end(m) \in 1..N
    BY <1>5, <2>1
  <2>3. ~(end(m) < N)
    <3>1. end(m) < N => m - 1 < Rank(ends, N)
      BY <1>1, <1>9, <2>2
    <3>2. Rank(ends, N) \in 0..m - 1
      BY <1>1, <1>9
    <3> QED BY <1>4, <3>1, <3>2
  <2> QED BY <1>0, <2>2, <2>3
<1>12. ASSUME NEW l \in 1..m
       PROVE  /\ e[l - 1] < e[l]
              /\ \A k \in e[l - 1] + 1..e[l] - 1 : n[k] # "/"
              /\ l < m => n[e[l]] = "/"
  <2>1. /\ end(l) \in ends /\ Rank(ends, end(l)) = l - 1 /\ end(l) \in 1..N
        /\ e[l] = end(l) /\ e[l - 1] = end(l - 1) /\ l \in Nat /\ l >= 1
    BY <1>4, <1>5, <1>8
  <2>2. CASE l = 1
    <3>1. e[l - 1] = 0
      BY <1>6, <2>1, <2>2
    <3>2. \A k \in ends : ~(k < end(l))
      <4>1. \A k \in ends : k < end(l) => Rank(ends, k) < 0
        BY <1>9, <2>1, <2>2
      <4>2. \A k \in ends : Rank(ends, k) \in 0..m - 1
        BY <1>9
      <4> QED BY <1>4, <4>1, <4>2
    <3>3. e[l - 1] < e[l]
      BY <2>1, <3>1
    <3>4. \A k \in 1..end(l) - 1 : n[k] # "/"
      BY <1>0, <1>3, <2>1, <3>2
    <3>5. l < m => n[end(l)] = "/"
      <4>1. end(l) = N => l - 1 = m - 1
        <5>1. Rank(ends, N) = m - 1
          BY <1>4, <1>5, <1>11
        <5> QED BY <2>1, <5>1
      <4> QED BY <1>3, <1>4, <2>1, <4>1
    <3>6. e[l - 1] + 1 = 1
      BY <3>1
    <3> QED BY <2>1, <3>3, <3>4, <3>5, <3>6
  <2>3. CASE l # 1
    <3>1. l - 1 \in 1..m /\ (l - 1) - 1 = l - 2
      BY <1>4, <2>1, <2>3
    <3>2. end(l - 1) \in ends /\ Rank(ends, end(l - 1)) = l - 2 /\ end(l - 1) \in 1..N
      BY <1>5, <3>1
    <3>3. end(l - 1) < end(l)
      <4>1. l - 2 < l - 1
        BY <2>1
      <4> QED BY <1>10, <2>1, <3>2, <4>1
    <3>4. \A k \in ends : ~(end(l - 1) < k /\ k < end(l))
      <4>1. \A k \in ends : end(l - 1) < k => l - 2 < Rank(ends, k)
        BY <1>9, <3>2
      <4>2. \A k \in ends : k < end(l) => Rank(ends, k) < l - 1
        BY <1>9, <2>1
      <4>3. \A k \in ends : Rank(ends, k) \in Nat
        BY <1>4, <1>9
      <4> QED BY <2>1, <4>1, <4>2, <4>3
    <3>5. \A k \in end(l - 1) + 1..end(l) - 1 : n[k] # "/"
      BY <1>0, <1>3, <2>1, <3>2, <3>4
    <3>6. l < m => n[end(l)] = "/"
      <4>1. end(l) = N => l - 1 = m - 1
        <5>1. Rank(ends, N) = m - 1
          BY <1>4, <1>5, <1>11
        <5> QED BY <2>1, <5>1
      <4> QED BY <1>3, <1>4, <2>1, <4>1
    <3> QED BY <2>1, <3>3, <3>5, <3>6
  <2> QED BY <2>2, <2>3
<1>13. Levels(n) = [l \in 1..m |-> SubSeq(n, e[l - 1] + 1, e[l] - 1)]
  <2>1. \A l \in 1..m : e[l - 1] = end(l - 1) /\ e[l] = end(l)
    BY <1>4, <1>8
  <2> QED BY <1>2, <2>1
<1>14. e[0] = 0 /\ e[m] = N
  BY <1>4, <1>6, <1>8, <1>11
<1>15. Ends(n, m, e)
  BY <1>0, <1>4, <1>7, <1>12, <1>13, <1>14 DEF Ends
<1> QED BY <1>15

\* The end of the level that position k of the name is in.
LevelEnd(n, k) ==
  CHOOSE j \in k..Len(n) + 1 :
    /\ j = Len(n) + 1 \/ n[j] = "/"
    /\ \A l \in k..j - 1 : n[l] # "/"

\* Position i of the filter takes position k of the name, and goes on at Onward.
Takes(f, n, i, k) == (n[k] = "/" => f[i] = "/") /\ f[i] \in {"+", "#", n[k]}
Onward(f, n, i, k) ==
  CASE f[i] = "+" -> LevelEnd(n, k)
    [] f[i] = "#" -> Len(n) + 1
    [] OTHER -> k + 1

Solution(g, A, B, good, next) ==
  g = [p \in (1..A + 1) \X (1..B + 1) |->
         \/ p[1] > A /\ p[2] > B
         \/ p[1] <= A /\ p[2] <= B /\ p \in good /\ g[<<p[1] + 1, next[p]>>]]

\* Such a recursion has a solution, whatever the steps are: there is a path
\* to the end of both.
LEMMA PathsSolve ==
  ASSUME NEW A \in Nat, NEW B \in Nat, NEW good,
         NEW next \in [(1..A) \X (1..B) -> 1..B + 1]
  PROVE  \E g : Solution(g, A, B, good, next)
<1> DEFINE D == (1..A + 1) \X (1..B + 1)
           Paths == [1..A + 1 -> 1..B + 1]
           On(q, i) == \A j \in i..A : /\ q[j] <= B /\ <<j, q[j]>> \in good
                                       /\ q[j + 1] = next[<<j, q[j]>>]
           Path(i, k) == \E q \in Paths : q[i] = k /\ q[A + 1] = B + 1 /\ On(q, i)
           g == [p \in D |-> Path(p[1], p[2])]
<1>1. ASSUME NEW i \in 1..A + 1, NEW k \in 1..B + 1
      PROVE  Path(i, k) <=> \/ i > A /\ k > B
                            \/ /\ i <= A /\ k <= B
                               /\ <<i, k>> \in good /\ Path(i + 1, next[<<i, k>>])
  <2>1. CASE i > A
    <3>1. i = A + 1
      BY <2>1
    <3>2. \A q : On(q, i)
      BY <3>1
    <3> HIDE DEF On
    <3>3. Path(i, k) => k = B + 1
      BY <3>1
    <3>4. ASSUME k = B + 1 PROVE Path(i, k)
      <4> DEFINE q == [j \in 1..A + 1 |-> B + 1]
      <4>1. q \in Paths /\ q[i] = k /\ q[A + 1] = B + 1
        BY <3>1, <3>4
      <4> HIDE DEF q
      <4> QED BY <3>2, <4>1
    <3> HIDE DEF Path
    <3> QED BY <2>1, <3>3, <3>4
  <2>2. CASE i <= A
    <3>1. ASSUME Path(i, k)
          PROVE  k <= B /\ <<i, k>> \in good /\ Path(i + 1, next[<<i, k>>])
      <4>1. PICK q \in Paths : q[i] = k /\ q[A + 1] = B + 1 /\ On(q, i)
        BY <3>1
      <4>2. k <= B /\ <<i, k>> \in good /\ q[i + 1] = next[<<i, k>>]
        BY <2>2, <4>1
      <4>3. On(q, i + 1)
        BY <4>1
      <4> HIDE DEF On
      <4> QED BY <4>1, <4>2, <4>3
    <3>2. ASSUME k <= B, <<i, k>> \in good, Path(i + 1, next[<<i, k>>])
          PROVE  Path(i, k)
      <4>1. PICK q \in Paths : q[i + 1] = next[<<i, k>>] /\ q[A + 1] = B + 1 /\ On(q, i + 1)
        BY <3>2
      <4> DEFINE r == [q EXCEPT ![i] = k]
      <4>2. r \in Paths /\ r[i] = k /\ \A j \in i + 1..A + 1 : r[j] = q[j]
        BY <4>1
      <4> HIDE DEF r
      <4>3. On(r, i)
        <5> SUFFICES ASSUME NEW j \in i..A
                     PROVE  /\ r[j] <= B /\ <<j, r[j]>> \in good
                            /\ r[j + 1] = next[<<j, r[j]>>]
          OBVIOUS
        <5>1. CASE j = i
          BY <2>2, <3>2, <4>1, <4>2, <5>1
        <5>2. CASE j # i
          <6>1. j \in i + 1..A /\ j \in i + 1..A + 1 /\ j + 1 \in i + 1..A + 1
            BY <5>2
          <6>2. r[j] = q[j] /\ r[j + 1] = q[j + 1]
            BY <4>2, <6>1
          <6> QED BY <4>1, <6>1, <6>2
        <5> QED BY <5>1, <5>2
      <4>4. r[A + 1] = B + 1
        BY <2>2, <4>1, <4>2
      <4> HIDE DEF On
      <4> QED BY <4>2, <4>3, <4>4
    <3> HIDE DEF Path
    <3> QED BY <2>2, <3>1, <3>2
  <2>3. i > A \/ i <= A
    OBVIOUS
  <2> HIDE DEF Path
  <2> QED BY <2>1, <2>2, <2>3
<1> HIDE DEF Path
<1>2. ASSUME NEW p \in D
      PROVE  g[p] = \/ p[1] > A /\ p[2] > B
                    \/ /\ p[1] <= A /\ p[2] <= B
                       /\ p \in good /\ g[<<p[1] + 1, next[p]>>]
  <2>1. p[1] \in 1..A + 1 /\ p[2] \in 1..B + 1 /\ p = <<p[1], p[2]>>
    OBVIOUS
  <2>2. g[p] = Path(p[1], p[2])
    OBVIOUS
  <2>3. ASSUME p[1] <= A, p[2] <= B
        PROVE  g[<<p[1] + 1, next[p]>>] = Path(p[1] + 1, next[p])
    <3>1. p \in (1..A) \X (1..B)
      BY <2>1, <2>3
    <3>2. <<p[1] + 1, next[p]>> \in D
      BY <2>1, <2>3, <3>1
    <3> QED BY <3>2
  <2>4. Path(p[1], p[2]) \in BOOLEAN
    BY DEF Path
  <2> HIDE DEF g
  <2> QED BY <1>1, <2>1, <2>2, <2>3, <2>4
<1>3. g = [p \in D |-> \/ p[1] > A /\ p[2] > B
                       \/ /\ p[1] <= A /\ p[2] <= B
                          /\ p \in good /\ g[<<p[1] + 1, next[p]>>]]
  <2>1. g = [p \in D |-> g[p]]
    OBVIOUS
  <2> HIDE DEF g, D
  <2> QED BY <1>2, <2>1
<1> HIDE DEF g
<1>4. Solution(g, A, B, good, next)
  BY <1>3, Zenon DEF Solution
<1> QED BY <1>4

\* Where LevelEnd() of isTopicMatched() puts the end of the level of a '+'.
LEMMA LevelEndIs ==
  ASSUME NEW Chars, NEW n \in Seq(Chars), NEW k \in 1..Len(n) + 1
  PROVE  /\ LevelEnd(n, k) \in k..Len(n) + 1
         /\ \A j \in k..Len(n) + 1 :
              (j = Len(n) + 1 \/ n[j] = "/") /\ (\A l \in k..j - 1 : n[l] # "/")
                => j = LevelEnd(n, k)
<1> DEFINE N == Len(n) + 1
           Is(j) == /\ j = N \/ n[j] = "/"
                    /\ \A l \in k..j - 1 : n[l] # "/"
           T == {j \in k..N : j = N \/ n[j] = "/"}
<1>1. N \in Nat \ {0} /\ k \in 1..N
  OBVIOUS
<1>2. LevelEnd(n, k) = CHOOSE j \in k..N : Is(j)
  BY Zenon DEF LevelEnd
<1> HIDE DEF N
<1>3. T \subseteq Nat /\ N \in T
  BY <1>1
<1>4. PICK j \in T : \A y \in T : j =< y
  BY <1>3, LeastNat
<1>5. j \in k..N /\ Is(j)
  <2>1. \A l \in k..j - 1 : l \in k..N /\ ~(j =< l)
    BY <1>1, <1>4
  <2> QED BY <1>4, <2>1
<1>6. ASSUME NEW a \in k..N, NEW b \in k..N, Is(a), Is(b) PROVE ~(a < b)
  <2>1. a < b => a \in k..b - 1 /\ a # N
    BY <1>1
  <2> QED BY <1>6, <2>1
<1>7. \A a, b \in k..N : Is(a) /\ Is(b) => a = b
  <2>1. \A a, b \in k..N : a = b \/ a < b \/ b < a
    BY <1>1
  <2> HIDE DEF Is
  <2> QED BY <1>6, <2>1
<1> DEFINE c == CHOOSE m \in k..N : Is(m)
<1>8. c \in k..N /\ Is(c)
  <2> HIDE DEF Is
  <2> QED BY <1>5
<1>9. \A a \in k..N : Is(a) => a = LevelEnd(n, k)
  <2> HIDE DEF Is
  <2> QED BY <1>2, <1>7, <1>8
<1> QED BY <1>2, <1>8, <1>9 DEF N

\* What the matcher has computed.
Run(g, f, n) ==
  \A i \in 1..Len(f) + 1, k \in 1..Len(n) + 1 :
    g[<<i, k>>] = \/ i > Len(f) /\ k > Len(n)
                  \/ /\ i <= Len(f) /\ k <= Len(n)
                     /\ Takes(f, n, i, k)
                     /\ g[<<i + 1, Onward(f, n, i, k)>>]

\* The recursion in isTopicMatched() has a solution, and the matcher returns it.
LEMMA MatcherRuns ==
  ASSUME NEW Chars, NEW f \in Seq(Chars), NEW n \in Seq(Chars)
  PROVE  \E g : Run(g, f, n) /\ isTopicMatched(f, n) = g[<<1, 1>>]
<1> DEFINE A == Len(f)
           B == Len(n)
           D == (1..A + 1) \X (1..B + 1)
           good == {p \in (1..A) \X (1..B) : Takes(f, n, p[1], p[2])}
           next == [p \in (1..A) \X (1..B) |-> Onward(f, n, p[1], p[2])]
           Solves(h) == h = [p \in (1..Len(f) + 1) \X (1..Len(n) + 1) |->
             LET i == p[1]
                 k == p[2]
             IN \/ i > Len(f) /\ k > Len(n)
                \/ /\ i <= Len(f) /\ k <= Len(n)
                   /\ n[k] = "/" => f[i] = "/"
                   /\ f[i] \in {"+", "#", n[k]}
                   /\ h[<<i + 1, CASE f[i] = "+" -> LevelEnd(n, k)
                                   [] f[i] = "#" -> Len(n) + 1
                                   [] OTHER -> k + 1>>]]
<1>1. isTopicMatched(f, n) = (CHOOSE h : Solves(h))[<<1, 1>>]
  BY DEF isTopicMatched, LevelEnd
<1>2. A \in Nat /\ B \in Nat /\ next \in [(1..A) \X (1..B) -> 1..B + 1]
  <2>1. ASSUME NEW i \in 1..A, NEW k \in 1..B PROVE Onward(f, n, i, k) \in 1..B + 1
    <3>1. LevelEnd(n, k) \in k..B + 1
      BY LevelEndIs
    <3> QED BY <3>1 DEF Onward
  <2>2. \A p \in (1..A) \X (1..B) : Onward(f, n, p[1], p[2]) \in 1..B + 1
    BY <2>1
  <2> QED BY <2>2
<1>3. PICK g : Solution(g, A, B, good, next)
  <2> HIDE DEF A, B, good, next
  <2> QED BY <1>2, PathsSolve
<1> DEFINE Body(h, i, k) ==
             \/ i > A /\ k > B
             \/ i <= A /\ k <= B /\ Takes(f, n, i, k) /\ h[<<i + 1, Onward(f, n, i, k)>>]
<1>4. ASSUME NEW h
      PROVE  Solves(h) <=> h = [p \in D |-> Body(h, p[1], p[2])]
  BY DEF Takes, Onward
<1>5. \A p \in D : (\/ p[1] > A /\ p[2] > B
                    \/ /\ p[1] <= A /\ p[2] <= B
                       /\ p \in good /\ g[<<p[1] + 1, next[p]>>])
                   = Body(g, p[1], p[2])
  <2>1. ASSUME NEW p \in D, p[1] <= A, p[2] <= B
        PROVE  /\ p \in good <=> Takes(f, n, p[1], p[2])
               /\ next[p] = Onward(f, n, p[1], p[2])
    <3>1. p \in (1..A) \X (1..B)
      BY <1>2, <2>1
    <3> QED BY <3>1
  <2> HIDE DEF good, next, D
  <2> QED BY <2>1
<1>6. Solves(g)
  <2>1. g = [p \in D |-> \/ p[1] > A /\ p[2] > B
                        \/ /\ p[1] <= A /\ p[2] <= B
                           /\ p \in good /\ g[<<p[1] + 1, next[p]>>]]
    <3> HIDE DEF A, B, good, next
    <3> QED BY <1>3 DEF Solution
  <2> HIDE DEF Body, Solves, good, next, D
  <2> QED BY <1>4, <1>5, <2>1
<1> DEFINE m == CHOOSE h : Solves(h)
<1>7. Solves(m)
  <2> HIDE DEF Solves
  <2> QED BY <1>6
<1>8. m = [p \in D |-> Body(m, p[1], p[2])]
  <2> HIDE DEF m, Solves
  <2> QED BY <1>4, <1>7
<1>9. isTopicMatched(f, n) = m[<<1, 1>>]
  <2> HIDE DEF Solves
  <2> QED BY <1>1
<1> HIDE DEF m
<1>10. Run(m, f, n)
  <2> SUFFICES ASSUME NEW i \in 1..A + 1, NEW k \in 1..B + 1
               PROVE  m[<<i, k>>] = Body(m, i, k)
    BY DEF Run
  <2> DEFINE p == <<i, k>>
  <2>1. p \in D /\ p[1] = i /\ p[2] = k
    OBVIOUS
  <2> HIDE DEF p, Body, D
  <2>2. m[p] = Body(m, p[1], p[2])
    BY <1>8, <2>1
  <2> QED BY <2>1, <2>2 DEF p
<1> QED BY <1>9, <1>10

\* Sequences of one character.
LEMMA SingleChar ==
  ASSUME NEW Chars, NEW x \in Chars
  PROVE  <<x>> \in Seq(Chars) /\ Len(<<x>>) = 1 /\ <<x>>[1] = x
  OBVIOUS

\* The sequence of one character tells the character.
LEMMA OneChar ==
  ASSUME NEW Chars, NEW s \in Seq(Chars), NEW x
  PROVE  s = <<x>> <=> Len(s) = 1 /\ s[1] = x
<1>1. s = <<x>> => Len(s) = 1 /\ s[1] = x
  OBVIOUS
<1>2. ASSUME Len(s) = 1, s[1] = x PROVE s = <<x>>
  <2>0. \A i \in 1..Len(s) : s[i] \in Chars
    OBVIOUS
  <2>1. x \in Chars
    BY <1>2, <2>0
  <2> DEFINE t == <<x>>
  <2>2. t \in Seq(Chars) /\ Len(t) = 1 /\ t[1] = x
    BY <2>1, SingleChar
  <2> HIDE DEF t
  <2>3. \A i \in 1..Len(s) : s[i] = t[i]
    BY <1>2, <2>2
  <2>4. s = t
    BY <1>2, <2>2, <2>3, SeqEqual
  <2> QED BY <2>4 DEF t
<1> QED BY <1>1, <1>2

\* A level of a name: the characters between two ends.
LEMMA LevelIs ==
  ASSUME NEW Chars, NEW n \in Seq(Chars), NEW m, NEW e, Ends(n, m, e), NEW l \in 1..m
  PROVE  /\ Levels(n)[l] \in Seq(Chars)
         /\ Len(Levels(n)[l]) = e[l] - e[l - 1] - 1
         /\ \A j \in 1..e[l] - e[l - 1] - 1 :
              Levels(n)[l][j] = n[e[l - 1] + j] /\ e[l - 1] + j \in 1..Len(n)
         /\ e[l - 1] \in 0..Len(n) /\ e[l] \in 1..Len(n) + 1 /\ e[l - 1] < e[l]
<1>0. m \in Nat /\ l - 1 \in 0..m /\ l \in 0..m
  BY DEF Ends
<1>1. e[l - 1] \in 0..Len(n) + 1 /\ e[l] \in 0..Len(n) + 1 /\ e[l - 1] < e[l]
  BY <1>0 DEF Ends
<1>5. Levels(n)[l] = SubSeq(n, e[l - 1] + 1, e[l] - 1)
  BY DEF Ends
<1> DEFINE a == e[l - 1] + 1
           b == e[l] - 1
<1>2. a \in 1..Len(n) + 1 /\ b \in a - 1..Len(n) /\ Len(n) \in Nat
  BY <1>1
<1>3. /\ SubSeq(n, a, b) \in Seq(Chars) /\ Len(SubSeq(n, a, b)) = b - a + 1
      /\ \A j \in 1..b - a + 1 : SubSeq(n, a, b)[j] = n[a + j - 1]
  <2> HIDE DEF a, b
  <2>1. a \in Int /\ b \in Int /\ \A i \in a..b : i \in 1..Len(n) /\ n[i] \in Chars
    BY <1>2
  <2>2. (IF a <= b THEN b - a + 1 ELSE 0) = b - a + 1
    BY <1>2
  <2> QED BY <2>1, <2>2, SubSeqProperties
<1>4. \A u \in Nat, v \in Nat : (v - 1) - (u + 1) + 1 = v - u - 1
                             /\ \A j \in Int : (u + 1) + j - 1 = u + j
  OBVIOUS
<1>6. b - a + 1 = e[l] - e[l - 1] - 1 /\ \A j \in Int : a + j - 1 = e[l - 1] + j
  <2>1. e[l - 1] \in Nat /\ e[l] \in Nat
    BY <1>1
  <2> QED BY <1>4, <2>1
<1>7. \A j \in 1..e[l] - e[l - 1] - 1 : e[l - 1] + j \in 1..Len(n) /\ j \in Int
  BY <1>1
<1>8. e[l - 1] \in 0..Len(n) /\ e[l] \in 1..Len(n) + 1
  BY <1>1
<1> HIDE DEF a, b
<1>9. Levels(n)[l] = SubSeq(n, a, b)
  BY <1>5 DEF a, b
<1> QED BY <1>1, <1>3, <1>6, <1>7, <1>8, <1>9

\* What is known of a level of a well-formed name.
LEMMA LevelKinds ==
  ASSUME NEW Chars, NEW n \in Seq(Chars), NEW m, NEW e, Ends(n, m, e), NEW l \in 1..m,
         WellFormed(n)
  PROVE  /\ e[l - 1] + 1 < e[l]
         /\ \A k \in e[l - 1] + 1..e[l] - 1 : n[k] \in {"+", "#"} => e[l] = e[l - 1] + 2
         /\ \A x \in {"+", "#"} : Levels(n)[l] = <<x>> <=> n[e[l - 1] + 1] = x
         /\ Levels(n)[l] = <<"#">> => l = m
<1> DEFINE s == Levels(n)[l]
<1>0. m \in Nat \ {0} /\ Len(Levels(n)) = m /\ DOMAIN Levels(n) = 1..m
  BY DEF Ends
<1>1. /\ s # <<>> /\ (isWildcard(s) => Len(s) = 1)
      /\ s = <<"#">> => l = m
  BY <1>0 DEF WellFormed
<1>2. /\ s \in Seq(Chars) /\ Len(s) = e[l] - e[l - 1] - 1
      /\ \A j \in 1..Len(s) : s[j] = n[e[l - 1] + j]
      /\ e[l - 1] \in Nat /\ e[l] \in Nat /\ e[l - 1] < e[l]
  BY LevelIs
<1> HIDE DEF s
<1>3. Len(s) \in Nat \ {0} /\ DOMAIN s = 1..Len(s)
  BY <1>1, <1>2, EmptySeq
<1>4. \A j \in 1..Len(s) : s[j] \in {"+", "#"} => Len(s) = 1
  BY <1>1, <1>3 DEF isWildcard
<1>5. e[l - 1] + 1 < e[l]
  BY <1>2, <1>3
<1>6. ASSUME NEW k \in e[l - 1] + 1..e[l] - 1, n[k] \in {"+", "#"}
      PROVE  e[l] = e[l - 1] + 2
  <2>1. k - e[l - 1] \in 1..Len(s) /\ e[l - 1] + (k - e[l - 1]) = k
    BY <1>2
  <2>2. s[k - e[l - 1]] = n[k]
    BY <1>2, <2>1
  <2>3. s[k - e[l - 1]] \in {"+", "#"}
    BY <1>6, <2>2, Zenon
  <2>4. Len(s) = 1
    BY <1>4, <2>1, <2>3, Zenon
  <2> DEFINE a == e[l - 1]
             b == e[l]
  <2>5. 1 = b - a - 1 /\ a \in Nat /\ b \in Nat
    BY <1>2, <2>4
  <2> HIDE DEF a, b
  <2>6. b = a + 2
    BY <2>5
  <2> QED BY <2>6 DEF a, b
<1>7. ASSUME NEW x \in {"+", "#"} PROVE s = <<x>> <=> n[e[l - 1] + 1] = x
  <2>1. 1 \in 1..Len(s)
    BY <1>3
  <2>2. s[1] = n[e[l - 1] + 1]
    BY <1>2, <2>1
  <2>3. s = <<x>> <=> Len(s) = 1 /\ s[1] = x
    BY <1>2, OneChar
  <2>4. s[1] = x => Len(s) = 1
    BY <1>4, <2>1
  <2> QED BY <2>2, <2>3, <2>4
<1> QED BY <1>1, <1>5, <1>6, <1>7 DEF s

\* One step of the matcher, where a character of the filter is no wildcard.
LEMMA PlainStep ==
  ASSUME NEW Chars, NEW f \in Seq(Chars), NEW n \in Seq(Chars), NEW g, Run(g, f, n),
         NEW i \in 1..Len(f) + 1, NEW k \in 1..Len(n) + 1,
         i <= Len(f) => f[i] \notin {"+", "#"}
  PROVE  g[<<i, k>>] <=> \/ i > Len(f) /\ k > Len(n)
                         \/ /\ i <= Len(f) /\ k <= Len(n)
                            /\ f[i] = n[k] /\ g[<<i + 1, k + 1>>]
<1>1. g[<<i, k>>] = \/ i > Len(f) /\ k > Len(n)
                    \/ /\ i <= Len(f) /\ k <= Len(n)
                       /\ Takes(f, n, i, k) /\ g[<<i + 1, Onward(f, n, i, k)>>]
  BY DEF Run
<1>2. ASSUME i <= Len(f)
      PROVE  (Takes(f, n, i, k) <=> f[i] = n[k]) /\ Onward(f, n, i, k) = k + 1
  BY <1>2 DEF Takes, Onward
<1> QED BY <1>1, <1>2

\* A level of the filter between a and b, without wildcards, and one of the
\* name between u and v.
Plain(Chars, f, n, g, a, b, u, v) ==
  /\ f \in Seq(Chars) /\ n \in Seq(Chars) /\ Run(g, f, n)
  /\ a \in Nat /\ b \in a + 1..Len(f) + 1
  /\ u \in Nat /\ v \in u + 1..Len(n) + 1
  /\ \A k \in a + 1..b - 1 : f[k] \notin {"/", "+", "#"}
  /\ \A k \in u + 1..v - 1 : n[k] # "/"
  /\ b <= Len(f) => f[b] = "/"
  /\ v <= Len(n) => n[v] = "/"

\* Such a level matches itself only: the matcher reaches the ends of both
\* together, or not at all.
LEMMA PlainLevel ==
  ASSUME NEW Chars, NEW f, NEW n, NEW g, NEW a, NEW b, NEW u, NEW v,
         Plain(Chars, f, n, g, a, b, u, v)
  PROVE  g[<<a + 1, u + 1>>] <=>
           /\ b - a = v - u /\ \A j \in 1..b - a - 1 : f[a + j] = n[u + j]
           /\ g[<<b, v>>]
<1> DEFINE Same(e) == \A j \in 1..e : f[a + j] = n[u + j]
           Q(e) == g[<<a + 1, u + 1>>] <=> Same(e) /\ g[<<a + 1 + e, u + 1 + e>>]
<1>p. /\ f \in Seq(Chars) /\ n \in Seq(Chars) /\ Run(g, f, n)
      /\ \A k \in a + 1..b - 1 : f[k] \notin {"/", "+", "#"}
      /\ \A k \in u + 1..v - 1 : n[k] # "/"
      /\ b <= Len(f) => f[b] = "/"
      /\ v <= Len(n) => n[v] = "/"
  BY DEF Plain
<1>0. /\ Len(f) \in Nat /\ Len(n) \in Nat /\ b \in Nat /\ v \in Nat
      /\ a \in Nat /\ b \in a + 1..Len(f) + 1
      /\ u \in Nat /\ v \in u + 1..Len(n) + 1
  BY DEF Plain
<1>1. ASSUME NEW x \in Nat \ {0}, x < b - a, x < v - u, Q(x - 1)
      PROVE  Q(x)
  <2>0. \A p, q \in Nat : x < q - p => p + x \in p + 1..q - 1
    OBVIOUS
  <2>1. a + x \in a + 1..b - 1 /\ u + x \in u + 1..v - 1
    BY <1>0, <1>1, <2>0
  <2>2. /\ a + x \in 1..Len(f) + 1 /\ u + x \in 1..Len(n) + 1
        /\ a + x <= Len(f) /\ u + x <= Len(n)
        /\ a + 1 + (x - 1) = a + x /\ u + 1 + (x - 1) = u + x
        /\ (a + x) + 1 = a + 1 + x /\ (u + x) + 1 = u + 1 + x
    BY <1>0, <1>1
  <2>3. f[a + x] \notin {"+", "#"}
    BY <1>p, <2>1
  <2>4. g[<<a + x, u + x>>] <=> f[a + x] = n[u + x] /\ g[<<a + 1 + x, u + 1 + x>>]
    BY <1>p, <2>2, <2>3, PlainStep
  <2>5. Same(x) <=> Same(x - 1) /\ f[a + x] = n[u + x]
    <3>1. \A j \in 1..x : j = x \/ j \in 1..x - 1
      BY <1>1
    <3>2. x \in 1..x /\ \A j \in 1..x - 1 : j \in 1..x
      BY <1>1
    <3> QED BY <3>1, <3>2
  <2>6. g[<<a + 1, u + 1>>] <=> Same(x - 1) /\ g[<<a + x, u + x>>]
    BY <1>1, <2>2
  <2> HIDE DEF Same
  <2> QED BY <2>4, <2>5, <2>6
<1>2. Q(0)
  <2>1. Same(0)
    OBVIOUS
  <2>2. a + 1 + 0 = a + 1 /\ u + 1 + 0 = u + 1
    BY <1>0
  <2> HIDE DEF Same
  <2> QED BY <2>1, <2>2
<1> HIDE DEF Q
<1>3. ASSUME NEW h \in Nat, h < b - a, h < v - u
      PROVE  Q(h)
  <2> DEFINE T == {e \in 0..h : ~Q(e)}
  <2>1. CASE T = {}
    BY <2>1
  <2>2. CASE T # {}
    <3>0. T \subseteq Nat
      OBVIOUS
    <3>1. PICK x \in T : \A y \in T : x =< y
      <4> HIDE DEF T
      <4> QED BY <2>2, <3>0, LeastNat
    <3>2. x \in Nat \ {0} /\ x < b - a /\ x < v - u /\ x - 1 \in 0..h /\ ~(x =< x - 1)
      BY <1>0, <1>2, <1>3, <3>1
    <3>3. Q(x - 1)
      BY <3>1, <3>2
    <3>4. Q(x)
      BY <1>1, <3>2, <3>3
    <3>5. ~Q(x)
      BY <3>1
    <3> QED BY <3>4, <3>5
  <2> QED BY <2>1, <2>2
<1>4. CASE b - a = v - u
  <2> DEFINE h == b - a - 1
  <2>1. h \in Nat /\ h < b - a /\ h < v - u /\ a + 1 + h = b /\ u + 1 + h = v
    BY <1>0, <1>4
  <2>2. Q(h)
    BY <1>3, <2>1
  <2> HIDE DEF Same
  <2>3. g[<<a + 1, u + 1>>] <=> Same(h) /\ g[<<b, v>>]
    BY <2>1, <2>2 DEF Q
  <2> QED BY <1>4, <2>3 DEF Same
<1>5. CASE b - a < v - u
  <2> DEFINE h == b - a - 1
             k == u + 1 + h
  <2>1. /\ h \in Nat /\ h < b - a /\ h < v - u /\ a + 1 + h = b
        /\ k \in u + 1..v - 1 /\ k \in 1..Len(n) + 1 /\ k <= Len(n)
        /\ b \in 1..Len(f) + 1
    BY <1>0, <1>5
  <2>2. Q(h) /\ n[k] # "/"
    BY <1>p, <1>3, <2>1
  <2>3. ~g[<<b, k>>]
    <3> HIDE DEF k
    <3>1. b <= Len(f) => f[b] \notin {"+", "#"} /\ f[b] # n[k]
      BY <1>p, <2>2
    <3> HIDE DEF h
    <3>2. g[<<b, k>>] <=> \/ b > Len(f) /\ k > Len(n)
                          \/ /\ b <= Len(f) /\ k <= Len(n)
                             /\ f[b] = n[k] /\ g[<<b + 1, k + 1>>]
      BY <1>p, <2>1, <3>1, PlainStep
    <3>3. ~(k > Len(n))
      BY <1>0, <2>1
    <3> QED BY <3>1, <3>2, <3>3
  <2>4. ~g[<<a + 1, u + 1>>]
    <3> HIDE DEF Same
    <3> QED BY <2>1, <2>2, <2>3 DEF Q
  <2> QED BY <1>0, <1>5, <2>4
<1>6. CASE b - a > v - u
  <2> DEFINE h == v - u - 1
             i == a + 1 + h
  <2>1. /\ h \in Nat /\ h < b - a /\ h < v - u /\ u + 1 + h = v
        /\ i \in a + 1..b - 1 /\ i \in 1..Len(f) + 1 /\ i <= Len(f)
        /\ v \in 1..Len(n) + 1
    BY <1>0, <1>6
  <2>2. Q(h) /\ f[i] \notin {"/", "+", "#"}
    BY <1>p, <1>3, <2>1
  <2>3. ~g[<<i, v>>]
    <3> HIDE DEF i
    <3>1. v <= Len(n) => f[i] # n[v]
      BY <1>p, <2>2
    <3> HIDE DEF h
    <3>2. g[<<i, v>>] <=> \/ i > Len(f) /\ v > Len(n)
                          \/ /\ i <= Len(f) /\ v <= Len(n)
                             /\ f[i] = n[v] /\ g[<<i + 1, v + 1>>]
      BY <1>p, <2>1, <2>2, PlainStep
    <3>3. ~(i > Len(f))
      BY <1>0, <2>1
    <3> QED BY <3>1, <3>2, <3>3
  <2>4. ~g[<<a + 1, u + 1>>]
    <3> HIDE DEF Same
    <3> QED BY <2>1, <2>2, <2>3 DEF Q
  <2> QED BY <1>0, <1>6, <2>4
<1>7. b - a = v - u \/ b - a < v - u \/ b - a > v - u
  BY <1>0
<1> QED BY <1>4, <1>5, <1>6, <1>7

\* A filter, a name without wildcards, what the matcher has computed for them
\* and the ends of their levels.
Matching(Chars, f, n, g, M, c, K, d) ==
  /\ f \in Seq(Chars) /\ n \in Seq(Chars) /\ Run(g, f, n)
  /\ WellFormed(f) /\ WellFormed(n) /\ ~isWildcard(n)
  /\ Ends(f, M, c) /\ Ends(n, K, d)

\* One level of the filter: '#' takes what is left, '+' a level, anything else
\* itself.
LEMMA LevelStep ==
  ASSUME NEW Chars, NEW f, NEW n, NEW g, NEW M, NEW c, NEW K, NEW d,
         Matching(Chars, f, n, g, M, c, K, d), NEW l \in 1..M, l \in 1..K
  PROVE  g[<<c[l - 1] + 1, d[l - 1] + 1>>] <=>
           \/ Levels(f)[l] = <<"#">>
           \/ /\ Levels(f)[l] = <<"+">> \/ Levels(f)[l] = Levels(n)[l]
              /\ g[<<c[l], d[l]>>]
<1> DEFINE a == c[l - 1]
           b == c[l]
           u == d[l - 1]
           v == d[l]
           F == Levels(f)[l]
           N == Levels(n)[l]
           hash == <<"#">>
           plus == <<"+">>
<1>0. /\ f \in Seq(Chars) /\ n \in Seq(Chars) /\ Run(g, f, n)
      /\ WellFormed(f) /\ WellFormed(n) /\ ~isWildcard(n)
      /\ Ends(f, M, c) /\ Ends(n, K, d)
      /\ Len(f) \in Nat /\ Len(n) \in Nat
  BY DEF Matching
<1>1. /\ F \in Seq(Chars) /\ Len(F) = b - a - 1
      /\ \A j \in 1..b - a - 1 : F[j] = f[a + j]
      /\ a \in 0..Len(f) /\ b \in 1..Len(f) + 1
  BY <1>0, LevelIs
<1>2. /\ N \in Seq(Chars) /\ Len(N) = v - u - 1
      /\ \A j \in 1..v - u - 1 : N[j] = n[u + j]
      /\ u \in 0..Len(n) /\ v \in 1..Len(n) + 1
  BY <1>0, LevelIs
<1>3. /\ a + 1 < b
      /\ \A k \in a + 1..b - 1 : f[k] \in {"+", "#"} => b = a + 2
      /\ F = hash <=> f[a + 1] = "#"
      /\ F = plus <=> f[a + 1] = "+"
      /\ F = hash => l = M
  BY <1>0, LevelKinds
<1>4. u + 1 < v
  BY <1>0, LevelKinds
<1>5. /\ \A k \in a + 1..b - 1 : f[k] # "/"
      /\ l < M => f[b] = "/"
      /\ l = M => b = Len(f) + 1
      /\ M \in Nat /\ K \in Nat
  BY <1>0 DEF Ends
<1>6. /\ \A k \in u + 1..v - 1 : n[k] # "/"
      /\ l < K => n[v] = "/"
      /\ l = K => v = Len(n) + 1
  BY <1>0 DEF Ends
<1> HIDE DEF a, b, u, v, F, N, hash, plus
<1>7. b <= Len(f) => f[b] = "/"
  BY <1>0, <1>5
<1>8. v <= Len(n) => n[v] = "/"
  BY <1>0, <1>5, <1>6
<1>9. /\ a + 1 \in 1..Len(f) + 1 /\ u + 1 \in 1..Len(n) + 1
      /\ a + 1 <= Len(f) /\ u + 1 <= Len(n) /\ a + 1 \in a + 1..b - 1
      /\ u + 1 \in u + 1..v - 1 /\ (a + 1) + 1 = a + 2
      /\ ~(a + 1 > Len(f))
  BY <1>0, <1>1, <1>2, <1>3, <1>4
<1>10. g[<<a + 1, u + 1>>] <=>
         Takes(f, n, a + 1, u + 1) /\ g[<<a + 2, Onward(f, n, a + 1, u + 1)>>]
  BY <1>0, <1>9 DEF Run
<1>11. n[u + 1] # "/"
  BY <1>6, <1>9
<1>12. f[a + 1] \in {"+", "#"} => Takes(f, n, a + 1, u + 1) /\ a + 2 = b
  BY <1>3, <1>9, <1>11 DEF Takes
<1>13. CASE f[a + 1] = "#"
  <2>1. Onward(f, n, a + 1, u + 1) = Len(n) + 1
    BY <1>13 DEF Onward
  <2>2. g[<<Len(f) + 1, Len(n) + 1>>]
    <3>1. /\ Len(f) + 1 \in 1..Len(f) + 1 /\ Len(n) + 1 \in 1..Len(n) + 1
          /\ Len(f) + 1 > Len(f) /\ Len(n) + 1 > Len(n)
      BY <1>0
    <3> QED BY <1>0, <3>1 DEF Run
  <2>3. a + 2 = Len(f) + 1
    BY <1>3, <1>5, <1>12, <1>13
  <2>4. g[<<a + 1, u + 1>>]
    BY <1>10, <1>12, <1>13, <2>1, <2>2, <2>3
  <2>5. F = hash
    BY <1>3, <1>13
  <2> QED BY <2>4, <2>5 DEF a, u, F, hash
<1>14. CASE f[a + 1] = "+"
  <2>1. Onward(f, n, a + 1, u + 1) = LevelEnd(n, u + 1)
    BY <1>14 DEF Onward
  <2>2. v = LevelEnd(n, u + 1)
    <3>1. v \in u + 1..Len(n) + 1 /\ (v = Len(n) + 1 \/ n[v] = "/")
      BY <1>0, <1>2, <1>4, <1>8
    <3> QED BY <1>0, <1>6, <1>9, <3>1, LevelEndIs
  <2>3. g[<<a + 1, u + 1>>] <=> g[<<b, v>>]
    BY <1>10, <1>12, <1>14, <2>1, <2>2
  <2>4. F = plus /\ F # hash
    BY <1>3, <1>14
  <2> QED BY <2>3, <2>4 DEF a, b, u, v, F, hash, plus
<1>15. CASE f[a + 1] \notin {"+", "#"}
  <2>1. \A k \in a + 1..b - 1 : f[k] \notin {"/", "+", "#"}
    <3>1. \A k \in a + 1..b - 1 : b = a + 2 => k = a + 1
      BY <1>0, <1>1
    <3> QED BY <1>3, <1>5, <1>15, <3>1
  <2>2. /\ a \in Nat /\ b \in a + 1..Len(f) + 1
        /\ u \in Nat /\ v \in u + 1..Len(n) + 1
    BY <1>0, <1>1, <1>2, <1>3, <1>4
  <2>3. g[<<a + 1, u + 1>>] <=>
          /\ b - a = v - u /\ \A j \in 1..b - a - 1 : f[a + j] = n[u + j]
          /\ g[<<b, v>>]
    <3>1. f \in Seq(Chars) /\ n \in Seq(Chars) /\ Run(g, f, n)
      BY <1>0
    <3>2. \A k \in u + 1..v - 1 : n[k] # "/"
      BY <1>6
    <3>3. Plain(Chars, f, n, g, a, b, u, v)
      BY <1>7, <1>8, <2>1, <2>2, <3>1, <3>2 DEF Plain
    <3> QED BY <3>3, PlainLevel
  <2>4. F = N <=> b - a = v - u /\ \A j \in 1..b - a - 1 : f[a + j] = n[u + j]
    <3>1. ASSUME F = N
          PROVE  b - a = v - u /\ \A j \in 1..b - a - 1 : f[a + j] = n[u + j]
      <4>1. b - a - 1 = v - u - 1
        BY <1>1, <1>2, <3>1
      <4>2. b - a = v - u
        BY <2>2, <4>1
      <4> QED BY <1>1, <1>2, <3>1, <4>2
    <3>2. ASSUME b - a = v - u, \A j \in 1..b - a - 1 : f[a + j] = n[u + j]
          PROVE  F = N
      <4>1. Len(F) = Len(N)
        BY <1>1, <1>2, <3>2
      <4>2. \A j \in 1..Len(F) : F[j] = N[j]
        BY <1>1, <1>2, <3>2
      <4> QED BY <1>1, <1>2, <4>1, <4>2, SeqEqual
    <3> QED BY <3>1, <3>2
  <2>5. F # hash /\ F # plus
    BY <1>3, <1>15
  <2> QED BY <2>3, <2>4, <2>5 DEF a, b, u, v, F, N, hash, plus
<1> QED BY <1>13, <1>14, <1>15

\* Behind a level: both have ended, or both go on with the next one.
LEMMA EndsMeet ==
  ASSUME NEW Chars, NEW f, NEW n, NEW g, NEW M, NEW c, NEW K, NEW d,
         Matching(Chars, f, n, g, M, c, K, d), NEW l \in 1..M, l \in 1..K
  PROVE  g[<<c[l], d[l]>>] <=> \/ l = M /\ l = K
                               \/ l < M /\ l < K /\ g[<<c[l] + 1, d[l] + 1>>]
<1>0. /\ f \in Seq(Chars) /\ n \in Seq(Chars) /\ Run(g, f, n)
      /\ Ends(f, M, c) /\ Ends(n, K, d)
      /\ Len(f) \in Nat /\ Len(n) \in Nat
  BY DEF Matching
<1>1. /\ M \in Nat /\ K \in Nat /\ c[M] = Len(f) + 1 /\ d[K] = Len(n) + 1
      /\ l < M => f[c[l]] = "/"
      /\ l < K => n[d[l]] = "/"
  BY <1>0 DEF Ends
<1>2. c[l] \in 1..Len(f) + 1 /\ d[l] \in 1..Len(n) + 1
  BY <1>0, LevelIs
<1>3. l < M => c[l] <= Len(f)
  <2>1. ASSUME l < M PROVE c[l] <= Len(f)
    <3>1. l + 1 \in 1..M /\ (l + 1) - 1 = l
      BY <1>1, <2>1
    <3>2. c[(l + 1) - 1] \in 0..Len(f)
      BY <1>0, <3>1, LevelIs
    <3> QED BY <3>1, <3>2
  <2> QED BY <2>1
<1>4. l < K => d[l] <= Len(n)
  <2>1. ASSUME l < K PROVE d[l] <= Len(n)
    <3>1. l + 1 \in 1..K /\ (l + 1) - 1 = l
      BY <1>1, <2>1
    <3>2. d[(l + 1) - 1] \in 0..Len(n)
      BY <1>0, <3>1, LevelIs
    <3> QED BY <3>1, <3>2
  <2> QED BY <2>1
<1>5. c[l] <= Len(f) => f[c[l]] = "/"
  BY <1>0, <1>1
<1>6. g[<<c[l], d[l]>>] <=> \/ c[l] > Len(f) /\ d[l] > Len(n)
                            \/ /\ c[l] <= Len(f) /\ d[l] <= Len(n)
                               /\ f[c[l]] = n[d[l]] /\ g[<<c[l] + 1, d[l] + 1>>]
  BY <1>0, <1>2, <1>5, PlainStep
<1>7. /\ l < M \/ l = M
      /\ l < K \/ l = K
      /\ l = M => c[l] > Len(f) /\ ~(c[l] <= Len(f)) /\ ~(l < M)
      /\ l = K => d[l] > Len(n) /\ ~(d[l] <= Len(n)) /\ ~(l < K)
      /\ l < M => ~(c[l] > Len(f))
      /\ l < K => ~(d[l] > Len(n))
  BY <1>0, <1>1, <1>2, <1>3, <1>4
<1> QED BY <1>1, <1>3, <1>4, <1>6, <1>7

\* The levels from the l-th on match.
Rest(f, n, M, K, l) ==
  LET open == Levels(f)[M] = <<"#">>
  IN /\ IF open THEN K >= M ELSE K = M
     /\ \A i \in l..(IF open THEN M - 1 ELSE M) : Levels(f)[i] \in {<<"+">>, Levels(n)[i]}

\* Level by level, from the last one on.
LEMMA RestMatches ==
  ASSUME NEW Chars, NEW f, NEW n, NEW g, NEW M, NEW c, NEW K, NEW d,
         Matching(Chars, f, n, g, M, c, K, d), NEW l \in 1..M, l \in 1..K
  PROVE  g[<<c[l - 1] + 1, d[l - 1] + 1>>] <=> Rest(f, n, M, K, l)
<1>a. ASSUME NEW i \in 1..M, i \in 1..K
      PROVE  g[<<c[i - 1] + 1, d[i - 1] + 1>>] <=>
               \/ Levels(f)[i] = <<"#">>
               \/ /\ Levels(f)[i] = <<"+">> \/ Levels(f)[i] = Levels(n)[i]
                  /\ g[<<c[i], d[i]>>]
  BY <1>a, LevelStep
<1>b. ASSUME NEW i \in 1..M, i \in 1..K
      PROVE  g[<<c[i], d[i]>>] <=>
               \/ i = M /\ i = K
               \/ i < M /\ i < K /\ g[<<c[i] + 1, d[i] + 1>>]
  BY <1>b, EndsMeet
<1>c. ASSUME NEW i \in 1..M
      PROVE  Levels(f)[i] = <<"#">> => i = M
  BY <1>c, LevelKinds DEF Matching
<1> DEFINE hash == <<"#">>
           plus == <<"+">>
           F(i) == Levels(f)[i]
           Ok(i) == F(i) = plus \/ F(i) = Levels(n)[i]
           open == F(M) = hash
           At(i) == g[<<c[i - 1] + 1, d[i - 1] + 1>>]
           Mid(i) == g[<<c[i], d[i]>>]
           R(i) == Rest(f, n, M, K, i)
           W(i) == At(i) <=> R(i)
           upTo == IF open THEN M - 1 ELSE M
<1>0. M \in Nat \ {0} /\ K \in Nat \ {0}
  BY DEF Matching, Ends
<1>1. ASSUME NEW i \in 1..M, i \in 1..K
      PROVE  /\ At(i) <=> \/ F(i) = hash
                          \/ Ok(i) /\ \/ i = M /\ i = K
                                      \/ i < M /\ i < K /\ At(i + 1)
             /\ F(i) = hash => i = M
  <2>1. At(i) <=> F(i) = hash \/ (Ok(i) /\ Mid(i))
    BY <1>1, <1>a, Zenon
  <2>2. (i + 1) - 1 = i
    BY <1>0
  <2>3. Mid(i) <=> \/ i = M /\ i = K
                   \/ i < M /\ i < K /\ At(i + 1)
    BY <1>1, <1>b, <2>2, Zenon
  <2>4. F(i) = hash => i = M
    BY <1>1, <1>c, Zenon
  <2> HIDE DEF F, Ok, hash, At, Mid
  <2> QED BY <2>1, <2>3, <2>4, Zenon
<1>2. ASSUME NEW i
      PROVE  R(i) <=> (IF open THEN K >= M ELSE K = M) /\ \A j \in i..upTo : Ok(j)
  BY DEF Rest
<1> HIDE DEF hash, plus, F, Ok, At, R
<1>3. ASSUME NEW i \in 1..M, i \in 1..K, i < M /\ i < K => W(i + 1)
      PROVE  W(i)
  <2>1. CASE i = M
    <3>1. CASE open
      <4>1. At(i) /\ K >= M /\ upTo = M - 1
        BY <1>0, <1>1, <1>3, <2>1, <3>1
      <4>2. i..upTo = {}
        BY <1>0, <2>1, <4>1
      <4> QED BY <1>2, <3>1, <4>1, <4>2
    <3>2. CASE ~open
      <4>1. At(i) <=> Ok(i) /\ i = K
        BY <1>1, <1>3, <2>1, <3>2
      <4>2. R(i) <=> K = M /\ Ok(i)
        <5>1. \A j \in i..upTo : j = i
          BY <1>0, <2>1, <3>2
        <5>2. i \in i..upTo
          BY <1>0, <2>1, <3>2
        <5> QED BY <1>2, <3>2, <5>1, <5>2
      <4> QED BY <2>1, <4>1, <4>2
    <3> QED BY <3>1, <3>2
  <2>2. CASE i < M
    <3>1. At(i) <=> Ok(i) /\ i < K /\ At(i + 1)
      BY <1>0, <1>1, <1>3, <2>2
    <3>2. CASE i < K
      <4>1. At(i + 1) <=> R(i + 1)
        BY <1>3, <2>2, <3>2
      <4>2. (\A j \in i..upTo : Ok(j)) <=> Ok(i) /\ \A j \in i + 1..upTo : Ok(j)
        <5>1. upTo \in Nat /\ i <= upTo
          BY <1>0, <2>2
        <5> HIDE DEF upTo
        <5>2. i \in i..upTo /\ \A j \in i + 1..upTo : j \in i..upTo
          BY <5>1
        <5>3. \A j \in i..upTo : j = i \/ j \in i + 1..upTo
          BY <5>1
        <5> QED BY <5>2, <5>3
      <4> HIDE DEF upTo, open
      <4> QED BY <1>2, <3>1, <3>2, <4>1, <4>2
    <3>3. CASE ~(i < K)
      <4>1. ~(K >= M) /\ K # M
        BY <1>0, <1>3, <2>2, <3>3
      <4> QED BY <1>2, <3>1, <3>3, <4>1
    <3> QED BY <3>2, <3>3
  <2>3. i = M \/ i < M
    BY <1>0
  <2> QED BY <2>1, <2>2, <2>3
<1> HIDE DEF W
<1> DEFINE T == {r \in 0..M - 1 : M - r \in 1..K /\ ~W(M - r)}
<1>4. T = {}
  <2>1. T \subseteq Nat
    BY <1>0
  <2>2. ASSUME T # {} PROVE FALSE
    <3>1. PICK r \in T : \A y \in T : r =< y
      <4> HIDE DEF T
      <4> QED BY <2>1, <2>2, LeastNat
    <3> DEFINE i == M - r
    <3>2. r \in 0..M - 1 /\ i \in 1..K /\ ~W(i) /\ i \in 1..M
      BY <1>0, <3>1
    <3>3. i < M /\ i < K => W(i + 1)
      <4>1. ASSUME i < M, i < K PROVE W(i + 1)
        <5>1. r - 1 \in 0..M - 1 /\ M - (r - 1) = i + 1 /\ i + 1 \in 1..K /\ ~(r =< r - 1)
          BY <1>0, <3>2, <4>1
        <5>2. r - 1 \notin T
          BY <3>1, <5>1
        <5> HIDE DEF i
        <5> QED BY <5>1, <5>2
      <4> QED BY <4>1
    <3> HIDE DEF i
    <3> QED BY <1>3, <3>2, <3>3
  <2> QED BY <2>2
<1>5. W(l)
  <2>1. M - l \in 0..M - 1 /\ M - (M - l) = l
    BY <1>0
  <2> QED BY <1>4, <2>1
<1> QED BY <1>5 DEF W, At, R

\* isTopicMatched() walks over the characters of a filter and of a name, where
\* '+' jumps to the end of the level and '#' to the end of the name.  For
\* well-formed filters and names of any length, over any characters, that is
\* the match of their levels.
THEOREM MatcherIsLevels ==
  ASSUME NEW Chars, NEW f \in Seq(Chars), NEW n \in Seq(Chars),
         WellFormed(f), WellFormed(n), ~isWildcard(n)
  PROVE  isTopicMatched(f, n) <=> LevelsMatch(f, n)
<1>1. PICK g : Run(g, f, n) /\ isTopicMatched(f, n) = g[<<1, 1>>]
  BY MatcherRuns
<1>2. PICK M, c : Ends(f, M, c)
  BY LevelsEnd
<1>3. PICK K, d : Ends(n, K, d)
  BY LevelsEnd
<1>4. Matching(Chars, f, n, g, M, c, K, d)
  BY <1>1, <1>2, <1>3 DEF Matching
<1>5. /\ M \in Nat \ {0} /\ K \in Nat \ {0} /\ c[0] = 0 /\ d[0] = 0
      /\ Len(Levels(f)) = M /\ Len(Levels(n)) = K
  BY <1>2, <1>3 DEF Ends
<1>6. g[<<c[1 - 1] + 1, d[1 - 1] + 1>>] <=> Rest(f, n, M, K, 1)
  <2>1. 1 \in 1..M /\ 1 \in 1..K
    BY <1>5
  <2> QED BY <1>4, <2>1, RestMatches
<1>7. c[1 - 1] + 1 = 1 /\ d[1 - 1] + 1 = 1
  BY <1>5
<1>8. LevelsMatch(f, n) <=> Rest(f, n, M, K, 1)
  BY <1>5 DEF LevelsMatch, Rest, Last
<1> QED BY <1>1, <1>6, <1>7, <1>8

\* The statement of the run, for any bound on the length of the names.
THEOREM MatcherCorrect == MatcherAgrees /\ (Spec => []MatcherAgrees)
<1>1. ASSUME NEW n \in Texts({"a", "b", "/"}), NEW f \in Texts({"a", "/", "+", "#"})
      PROVE  isTopicMatched(f, n) <=> LevelsMatch(f, n)
  <2> DEFINE Chars == {"a", "b", "/", "+", "#"}
  <2>1. PICK k \in 1..MaxName : n \in [1..k -> {"a", "b", "/"}]
    BY DEF Texts
  <2>2. PICK l \in 1..MaxName : f \in [1..l -> {"a", "/", "+", "#"}]
    BY DEF Texts
  <2>3. n \in Seq(Chars) /\ ~isWildcard(n)
    BY <2>1 DEF isWildcard
  <2>4. f \in Seq(Chars)
    BY <2>2
  <2>5. WellFormed(f) /\ WellFormed(n)
    BY DEF Texts
  <2> HIDE DEF Chars
  <2> QED BY <2>3, <2>4, <2>5, MatcherIsLevels
<1>2. MatcherAgrees
  BY <1>1 DEF MatcherAgrees
<1> QED BY <1>2, PTL
============================================================================
