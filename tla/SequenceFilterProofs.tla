------------------------ MODULE SequenceFilterProofs ------------------------
(* What filtering a sequence keeps: exactly the wanted elements, in their    *)
(* order, none of them twice.  Induction over the positions is an argument   *)
(* about the least position at which a set of positions is reached.          *)
EXTENDS SequenceFilter, Integers, FiniteSetTheorems, FunctionTheorems, WellFoundedInduction,
        TLAPS

\* No element stands at two positions.
NoRepeat(s) == \A i, k \in 1..Len(s) : s[i] = s[k] => i = k

-----------------------------------------------------------------------------
\* Every set of natural numbers that is not empty has a least member.
LEMMA LeastMember ==
    ASSUME NEW T \in SUBSET Nat, T # {}
    PROVE  \E m \in T : \A n \in T : m <= n
<1> DEFINE R == OpToRel(<, Nat)
<1>1. IsWellFoundedOn(R, Nat)
  BY NatLessThanWellFounded
<1>2. \E m \in T : \A n \in T : <<n, m>> \notin R
  BY <1>1, WFMin
<1>3. \A m, n \in Nat : n < m => <<n, m>> \in R
  BY DEF OpToRel
<1> HIDE DEF R
<1>4. PICK m \in T : \A n \in T : <<n, m>> \notin R
  BY <1>2
<1>5. \A n \in T : m \in Nat /\ n \in Nat /\ ~(n < m)
  BY <1>3, <1>4
<1>6. \A n \in T : m <= n
  BY <1>5
<1> QED
  BY <1>6

\* Ranks of a set of positions: they start at 0, end at the size of the set and
\* rise by one at each member.
LEMMA Ranks ==
    ASSUME NEW m \in Nat, NEW K \in SUBSET (1..m)
    PROVE  /\ IsFiniteSet(K) /\ Cardinality(K) \in Nat /\ Cardinality(K) <= m
           /\ \A i \in Nat : Rank(K, i) \in Nat /\ Rank(K, i) <= Cardinality(K)
           /\ Rank(K, 0) = 0 /\ Rank(K, m) = Cardinality(K)
<1>0. \A k \in K : k \in Nat /\ 1 <= k /\ k <= m
  OBVIOUS
<1>1. IsFiniteSet(K) /\ Cardinality(K) \in Nat /\ Cardinality(K) <= m
  <2>1. IsFiniteSet(1..m) /\ Cardinality(1..m) = m
    BY FS_Interval
  <2> QED
    BY <2>1, FS_Subset, FS_CardinalityType
<1>2. ASSUME NEW i \in Nat
      PROVE  Rank(K, i) \in Nat /\ Rank(K, i) <= Cardinality(K)
  <2>1. {k \in K : k <= i} \subseteq K
    OBVIOUS
  <2> QED
    BY <1>1, <2>1, FS_Subset, FS_CardinalityType DEF Rank
<1>3. Rank(K, 0) = 0
  <2>1. \A k \in K : ~(k <= 0)
    BY <1>0
  <2>2. {k \in K : k <= 0} = {}
    BY <2>1
  <2> QED
    BY <2>2, FS_EmptySet DEF Rank
<1>4. Rank(K, m) = Cardinality(K)
  <2>1. {k \in K : k <= m} = K
    BY <1>0
  <2> QED
    BY <2>1 DEF Rank
<1> QED
  BY <1>1, <1>2, <1>3, <1>4

LEMMA RankStep ==
    ASSUME NEW m \in Nat, NEW K \in SUBSET (1..m), NEW i \in Nat
    PROVE  /\ i + 1 \in K => Rank(K, i + 1) = Rank(K, i) + 1
           /\ i + 1 \notin K => Rank(K, i + 1) = Rank(K, i)
<1> DEFINE A == {k \in K : k <= i}
           B == {k \in K : k <= i + 1}
<1>0. \A k \in K : k \in Nat /\ (k <= i + 1 <=> k <= i \/ k = i + 1)
  <2>1. \A k \in K : k \in Nat
    OBVIOUS
  <2>2. \A k \in Nat : k <= i + 1 <=> k <= i \/ k = i + 1
    OBVIOUS
  <2> QED
    BY <2>1, <2>2
<1>4. ~(i + 1 <= i)
  OBVIOUS
<1>1. IsFiniteSet(A) /\ i + 1 \notin A
  <2>1. IsFiniteSet(K) /\ A \subseteq K
    BY Ranks
  <2> QED
    BY <1>4, <2>1, FS_Subset
<1>2. CASE i + 1 \in K
  <2>1. B = A \cup {i + 1}
    BY <1>0, <1>2, Zenon
  <2>2. Cardinality(B) = Cardinality(A) + 1
    <3> HIDE DEF A, B
    <3> QED
      BY <1>1, <2>1, FS_AddElement
  <2> QED
    BY <1>2, <2>2 DEF Rank
<1>3. CASE i + 1 \notin K
  <2>1. B = A
    BY <1>0, <1>3, Zenon
  <2> QED
    BY <1>3, <2>1 DEF Rank
<1> QED
  BY <1>2, <1>3

\* A member above another one has a higher rank.
LEMMA RankRises ==
    ASSUME NEW m \in Nat, NEW K \in SUBSET (1..m), NEW i \in Nat, NEW k \in K, i < k
    PROVE  Rank(K, i) < Rank(K, k)
<1> DEFINE A == {x \in K : x <= i}
           B == {x \in K : x <= k}
<1>1. IsFiniteSet(A) /\ IsFiniteSet(B)
  <2>1. IsFiniteSet(K) /\ A \subseteq K /\ B \subseteq K
    BY Ranks
  <2> QED
    BY <2>1, FS_Subset
<1>2. A \subseteq B \ {k} /\ k \in B
  <2>1. k \in Nat /\ k <= k /\ ~(k <= i)
    OBVIOUS
  <2>2. \A x \in K : x \in Nat
    OBVIOUS
  <2>3. \A x \in K : x <= i => x <= k
    BY <2>1, <2>2
  <2> QED
    BY <2>1, <2>3
<1> HIDE DEF A, B
<1>3. IsFiniteSet(B \ {k}) /\ Cardinality(B \ {k}) = Cardinality(B) - 1
  BY <1>1, <1>2, FS_RemoveElement
<1>4. Cardinality(A) <= Cardinality(B \ {k})
  BY <1>2, <1>3, FS_Subset
<1>5. Cardinality(A) \in Nat /\ Cardinality(B) \in Nat
  BY <1>1, FS_CardinalityType
<1> QED
  BY <1>3, <1>4, <1>5 DEF Rank, A, B

\* Every number up to the size of the set is the rank of one member.
LEMMA RankReached ==
    ASSUME NEW m \in Nat, NEW K \in SUBSET (1..m), NEW n \in 1..Cardinality(K)
    PROVE  \E i \in K : Rank(K, i) = n
<1> DEFINE T == {i \in Nat : Rank(K, i) >= n}
<1>1. /\ Cardinality(K) \in Nat /\ Rank(K, 0) = 0 /\ Rank(K, m) = Cardinality(K)
      /\ \A i \in Nat : Rank(K, i) \in Nat
  BY Ranks
<1>2. T \in SUBSET Nat /\ m \in T
  BY <1>1
<1>3. PICK i \in T : \A k \in T : i <= k
  BY <1>2, LeastMember
<1>4. i \in Nat /\ Rank(K, i) >= n /\ i # 0
  BY <1>1, <1>3
<1>5. i - 1 \in Nat /\ Rank(K, i - 1) < n
  <2>1. i - 1 \in Nat /\ i - 1 \notin T
    BY <1>3, <1>4
  <2> QED
    BY <1>1, <2>1
<1>6. (i - 1) + 1 = i
  BY <1>4
<1>7. /\ i \in K => Rank(K, i) = Rank(K, i - 1) + 1
      /\ i \notin K => Rank(K, i) = Rank(K, i - 1)
  BY <1>5, <1>6, RankStep
<1> QED
  BY <1>1, <1>4, <1>5, <1>7

-----------------------------------------------------------------------------
\* What is kept of a sequence: one position of the sequence for each position
\* of the result, rising, and all wanted elements.
LEMMA KeptPositions ==
    ASSUME NEW U, NEW s \in Seq(U), NEW S
    PROVE  /\ Kept(s, S) \in Seq(U)
           /\ Len(Kept(s, S)) = Cardinality(KeptAt(s, S))
           /\ Cardinality(KeptAt(s, S)) \in 0..Len(s)
           /\ \A n \in 1..Cardinality(KeptAt(s, S)) :
                 \E i \in KeptAt(s, S) : Rank(KeptAt(s, S), i) = n /\ Kept(s, S)[n] = s[i]
           /\ \A i \in KeptAt(s, S) :
                 /\ Rank(KeptAt(s, S), i) \in 1..Cardinality(KeptAt(s, S))
                 /\ Kept(s, S)[Rank(KeptAt(s, S), i)] = s[i]
<1> DEFINE K == KeptAt(s, S)
           c == Cardinality(K)
           r == Kept(s, S)
           Pos(n) == CHOOSE i \in K : Rank(K, i) = n
<1>1. Len(s) \in Nat /\ K \in SUBSET (1..Len(s)) /\ \A i \in 1..Len(s) : s[i] \in U
  BY DEF KeptAt
<1>2. r = [n \in 1..c |-> s[Pos(n)]]
  BY DEF Kept
<1> HIDE DEF K, r
<1>3. c \in Nat /\ c <= Len(s) /\ \A i \in Nat : Rank(K, i) \in Nat /\ Rank(K, i) <= c
  BY <1>1, Ranks
<1>4. Rank(K, 0) = 0
  BY <1>1, Ranks
<1>5. \A n \in 1..c : Pos(n) \in K /\ Rank(K, Pos(n)) = n
  BY <1>1, RankReached
<1>6. \A i \in K : Rank(K, i) \in 1..c
  <2> SUFFICES ASSUME NEW i \in K
               PROVE  Rank(K, i) \in 1..c
    OBVIOUS
  <2>1. i \in Nat /\ 0 < i
    BY <1>1
  <2>2. Rank(K, 0) < Rank(K, i)
    BY <1>1, <2>1, RankRises
  <2> QED
    BY <1>3, <1>4, <2>1, <2>2
<1>7. \A i, k \in K : Rank(K, i) = Rank(K, k) => i = k
  <2> SUFFICES ASSUME NEW i \in K, NEW k \in K, i # k
               PROVE  Rank(K, i) # Rank(K, k)
    OBVIOUS
  <2>1. i \in Nat /\ k \in Nat
    BY <1>1
  <2>2. Rank(K, i) \in Nat /\ Rank(K, k) \in Nat
    BY <1>3, <2>1
  <2>3. i < k \/ k < i
    BY <2>1
  <2>4. Rank(K, i) < Rank(K, k) \/ Rank(K, k) < Rank(K, i)
    BY <1>1, <2>1, <2>3, RankRises
  <2> QED
    BY <2>2, <2>4
<1> HIDE DEF c, Pos
<1>8. \A n \in 1..c : Pos(n) \in K /\ r[n] = s[Pos(n)] /\ r[n] \in U
  BY <1>1, <1>2, <1>5
<1>9. r \in Seq(U) /\ Len(r) = c
  <2>1. r \in [1..c -> U]
    BY <1>2, <1>8
  <2> QED
    BY <1>3, <2>1
<1>10. ASSUME NEW i \in K
       PROVE  r[Rank(K, i)] = s[i]
  <2>1. Rank(K, i) \in 1..c
    BY <1>6
  <2>2. Pos(Rank(K, i)) \in K /\ Rank(K, Pos(Rank(K, i))) = Rank(K, i)
    BY <1>5, <2>1
  <2>3. Pos(Rank(K, i)) = i
    BY <1>7, <2>2
  <2> QED
    BY <1>8, <2>1, <2>3
<1> QED
  BY <1>3, <1>5, <1>6, <1>8, <1>9, <1>10 DEF K, r, c

-----------------------------------------------------------------------------
\* Filtering keeps the wanted members and no others.
LEMMA KeptMembers ==
    ASSUME NEW U, NEW s \in Seq(U), NEW S
    PROVE  Kept(s, S) \in Seq(U) /\ Members(Kept(s, S)) = Members(s) \cap S
<1> DEFINE K == KeptAt(s, S)
           r == Kept(s, S)
<1>1. /\ r \in Seq(U) /\ Len(r) = Cardinality(K)
      /\ \A n \in 1..Cardinality(K) : \E i \in K : r[n] = s[i]
      /\ \A i \in K : Rank(K, i) \in 1..Cardinality(K) /\ r[Rank(K, i)] = s[i]
  BY KeptPositions
<1>2. \A i : i \in K <=> i \in 1..Len(s) /\ s[i] \in S
  BY DEF KeptAt
<1> HIDE DEF K, r
<1>3. ASSUME NEW x \in Members(r)
      PROVE  x \in Members(s) \cap S
  <2>1. PICK n \in 1..Len(r) : x = r[n]
    BY DEF Members
  <2>2. PICK i \in K : r[n] = s[i]
    BY <1>1, <2>1
  <2> QED
    BY <1>2, <2>1, <2>2 DEF Members
<1>4. ASSUME NEW x \in Members(s), x \in S
      PROVE  x \in Members(r)
  <2>1. PICK i \in 1..Len(s) : x = s[i]
    BY DEF Members
  <2>2. i \in K
    BY <1>2, <1>4, <2>1
  <2> QED
    BY <1>1, <2>1, <2>2 DEF Members
<1> QED
  BY <1>1, <1>3, <1>4 DEF r

\* Filtering repeats nothing that the sequence did not repeat.
LEMMA KeptNoRepeat ==
    ASSUME NEW U, NEW s \in Seq(U), NEW S, NoRepeat(s)
    PROVE  NoRepeat(Kept(s, S))
<1> DEFINE K == KeptAt(s, S)
           r == Kept(s, S)
<1>1. /\ Len(r) = Cardinality(K)
      /\ \A n \in 1..Cardinality(K) : \E i \in K : Rank(K, i) = n /\ r[n] = s[i]
  BY KeptPositions
<1>2. \A i \in K : i \in 1..Len(s)
  BY DEF KeptAt
<1> HIDE DEF K, r
<1>3. ASSUME NEW m \in 1..Len(r), NEW n \in 1..Len(r), r[m] = r[n]
      PROVE  m = n
  <2>1. PICK i \in K : Rank(K, i) = m /\ r[m] = s[i]
    BY <1>1
  <2>2. PICK k \in K : Rank(K, k) = n /\ r[n] = s[k]
    BY <1>1
  <2>3. i = k
    BY <1>2, <1>3, <2>1, <2>2 DEF NoRepeat
  <2> QED
    BY <2>1, <2>2, <2>3
<1> QED
  BY <1>3 DEF NoRepeat, r

\* A new member at the end.
LEMMA AppendMembers ==
    ASSUME NEW U, NEW s \in Seq(U), NEW x \in U
    PROVE  /\ Append(s, x) \in Seq(U)
           /\ Members(Append(s, x)) = Members(s) \cup {x}
           /\ NoRepeat(s) /\ x \notin Members(s) => NoRepeat(Append(s, x))
<1> DEFINE r == Append(s, x)
<1>1. /\ r \in Seq(U) /\ Len(s) \in Nat /\ Len(r) = Len(s) + 1
      /\ \A i \in 1..Len(s) : r[i] = s[i]
      /\ r[Len(s) + 1] = x
  OBVIOUS
<1> HIDE DEF r
<1>2. \A i : i \in 1..Len(r) <=> i \in 1..Len(s) \/ i = Len(s) + 1
  BY <1>1
<1>3. Len(s) + 1 \notin 1..Len(s)
  BY <1>1
<1>4. ASSUME NEW y \in Members(r)
      PROVE  y \in Members(s) \cup {x}
  <2>1. PICK i \in 1..Len(r) : y = r[i]
    BY DEF Members
  <2> QED
    BY <1>1, <1>2, <2>1 DEF Members
<1>5. Members(s) \subseteq Members(r) /\ x \in Members(r)
  BY <1>1, <1>2 DEF Members
<1>6. ASSUME NoRepeat(s), x \notin Members(s)
      PROVE  NoRepeat(r)
  <2> SUFFICES ASSUME NEW i \in 1..Len(r), NEW k \in 1..Len(r), r[i] = r[k]
               PROVE  i = k
    BY DEF NoRepeat
  <2>1. \A n \in 1..Len(s) : r[n] # x
    BY <1>1, <1>6 DEF Members
  <2>2. CASE i \in 1..Len(s) /\ k \in 1..Len(s)
    BY <1>1, <1>6, <2>2 DEF NoRepeat
  <2>3. CASE i = Len(s) + 1 \/ k = Len(s) + 1
    BY <1>1, <1>2, <2>1, <2>3
  <2> QED
    BY <1>2, <2>2, <2>3
<1> QED
  BY <1>1, <1>4, <1>5, <1>6 DEF r

\* A position cuts a sequence in two and a member.
LEMMA CutAt ==
    ASSUME NEW U, NEW s \in Seq(U), NEW i \in 1..Len(s)
    PROVE  LET front == SubSeq(s, 1, i - 1)
               back == SubSeq(s, i + 1, Len(s))
           IN  /\ front \in Seq(U) /\ back \in Seq(U)
               /\ Members(s) = Members(front) \cup Members(back) \cup {s[i]}
               /\ NoRepeat(s) => /\ NoRepeat(front) /\ NoRepeat(back)
                                 /\ Members(front) \cap Members(back) = {}
                                 /\ s[i] \notin Members(front) \cup Members(back)
<1> DEFINE front == SubSeq(s, 1, i - 1)
           back == SubSeq(s, i + 1, Len(s))
<1>1. Len(s) \in Nat /\ i \in Nat /\ 1 <= i /\ i <= Len(s)
  OBVIOUS
<1>2. /\ front \in Seq(U) /\ Len(front) = i - 1
      /\ \A n \in 1..(i - 1) : front[n] = s[n]
  BY <1>1
<1>3. /\ back \in Seq(U) /\ Len(back) = Len(s) - i
      /\ \A n \in 1..(Len(s) - i) : back[n] = s[i + n]
  BY <1>1
<1> HIDE DEF front, back
<1>4. \A n : n \in 1..Len(s) => \/ n \in 1..(i - 1) \/ n = i
                                \/ n - i \in 1..(Len(s) - i) /\ i + (n - i) = n
  BY <1>1
<1>5. ASSUME NEW n \in 1..(i - 1)
      PROVE  n \in 1..Len(s) /\ n < i
  BY <1>1
<1>6. ASSUME NEW n \in 1..(Len(s) - i)
      PROVE  i + n \in 1..Len(s) /\ i < i + n
  BY <1>1
<1>7. \A x \in Members(front) : \E n \in 1..Len(s) : n < i /\ x = s[n]
  BY <1>2, <1>5 DEF Members
<1>8. \A x \in Members(back) : \E n \in 1..Len(s) : i < n /\ x = s[n]
  BY <1>3, <1>6 DEF Members
<1>9. ASSUME NEW x \in Members(s)
      PROVE  x \in Members(front) \cup Members(back) \cup {s[i]}
  <2>1. PICK n \in 1..Len(s) : x = s[n]
    BY DEF Members
  <2>2. CASE n \in 1..(i - 1)
    BY <1>2, <2>1, <2>2 DEF Members
  <2>3. CASE n - i \in 1..(Len(s) - i) /\ i + (n - i) = n
    BY <1>3, <2>1, <2>3 DEF Members
  <2> QED
    BY <1>4, <2>1, <2>2, <2>3
<1>10. Members(front) \cup Members(back) \cup {s[i]} \subseteq Members(s)
  BY <1>7, <1>8 DEF Members
<1>11. ASSUME NoRepeat(s)
       PROVE  /\ NoRepeat(front) /\ NoRepeat(back)
              /\ Members(front) \cap Members(back) = {}
              /\ s[i] \notin Members(front) \cup Members(back)
  <2>1. \A m, n \in 1..Len(s) : m < n => s[m] # s[n]
    <3>1. \A m, n \in 1..Len(s) : m < n => m # n
      OBVIOUS
    <3> QED
      BY <1>11, <3>1 DEF NoRepeat
  <2>2. NoRepeat(front)
    BY <1>2, <1>5, <1>11 DEF NoRepeat
  <2>3. NoRepeat(back)
    <3> SUFFICES ASSUME NEW m \in 1..Len(back), NEW n \in 1..Len(back), back[m] = back[n]
                 PROVE  m = n
      BY DEF NoRepeat
    <3>1. m \in 1..(Len(s) - i) /\ n \in 1..(Len(s) - i)
      BY <1>3
    <3>2. back[m] = s[i + m] /\ back[n] = s[i + n]
      BY <1>3, <3>1
    <3>3. i + m \in 1..Len(s) /\ i + n \in 1..Len(s)
      BY <1>6, <3>1
    <3>4. i + m = i + n
      BY <1>11, <3>2, <3>3 DEF NoRepeat
    <3> QED
      BY <1>1, <3>1, <3>4
  <2>4. Members(front) \cap Members(back) = {}
    <3> SUFFICES ASSUME NEW x \in Members(front), x \in Members(back)
                 PROVE  FALSE
      OBVIOUS
    <3>1. PICK m \in 1..Len(s) : m < i /\ x = s[m]
      BY <1>7
    <3>2. PICK n \in 1..Len(s) : i < n /\ x = s[n]
      BY <1>8
    <3>3. m < n
      BY <1>1, <3>1, <3>2
    <3> QED
      BY <2>1, <3>1, <3>2, <3>3
  <2>5. s[i] \notin Members(front)
    BY <1>7, <2>1
  <2>6. s[i] \notin Members(back)
    BY <1>8, <2>1
  <2> QED
    BY <2>2, <2>3, <2>4, <2>5, <2>6
<1> QED
  BY <1>2, <1>3, <1>9, <1>10, <1>11 DEF front, back

\* One sequence behind another.
LEMMA ConcatMembers ==
    ASSUME NEW U, NEW s \in Seq(U), NEW t \in Seq(U)
    PROVE  /\ s \o t \in Seq(U)
           /\ Members(s \o t) = Members(s) \cup Members(t)
           /\ NoRepeat(s) /\ NoRepeat(t) /\ Members(s) \cap Members(t) = {}
              => NoRepeat(s \o t)
<1> DEFINE r == s \o t
           a == Len(s)
           b == Len(t)
<1>1. /\ r \in Seq(U) /\ a \in Nat /\ b \in Nat /\ Len(r) = a + b
      /\ \A n \in 1..a : r[n] = s[n]
  OBVIOUS
<1>2. \A n \in 1..b : r[a + n] = t[n]
  OBVIOUS
<1>0. \A n : (n \in 1..Len(s) <=> n \in 1..a) /\ (n \in 1..Len(t) <=> n \in 1..b)
  OBVIOUS
<1> HIDE DEF r, a, b
<1>3. \A n : n \in 1..Len(r) => n \in 1..a \/ (n - a \in 1..b /\ a + (n - a) = n)
  BY <1>1
<1>4. (\A n \in 1..a : n \in 1..Len(r)) /\ (\A n \in 1..b : a + n \in 1..Len(r))
  BY <1>1
<1>5. ASSUME NEW x \in Members(r)
      PROVE  x \in Members(s) \cup Members(t)
  <2>1. PICK n \in 1..Len(r) : x = r[n]
    BY DEF Members
  <2>2. CASE n \in 1..a
    BY <1>0, <1>1, <2>1, <2>2 DEF Members
  <2>3. CASE n - a \in 1..b /\ a + (n - a) = n
    BY <1>0, <1>2, <2>1, <2>3 DEF Members
  <2> QED
    BY <1>3, <2>1, <2>2, <2>3
<1>6. \A x \in Members(s) : x \in Members(r)
  BY <1>0, <1>1, <1>4 DEF Members
<1>7. \A x \in Members(t) : x \in Members(r)
  BY <1>0, <1>2, <1>4 DEF Members
<1>8. ASSUME NoRepeat(s), NoRepeat(t), Members(s) \cap Members(t) = {}
      PROVE  NoRepeat(r)
  <2> SUFFICES ASSUME NEW m \in 1..Len(r), NEW n \in 1..Len(r), r[m] = r[n]
               PROVE  m = n
    BY DEF NoRepeat
  <2>1. CASE m \in 1..a /\ n \in 1..a
    BY <1>0, <1>1, <1>8, <2>1 DEF NoRepeat
  <2>2. CASE m \in 1..a /\ n - a \in 1..b /\ a + (n - a) = n
    <3>1. r[m] \in Members(s) /\ r[n] \in Members(t)
      BY <1>0, <1>1, <1>2, <2>2 DEF Members
    <3> QED
      BY <1>8, <3>1
  <2>3. CASE n \in 1..a /\ m - a \in 1..b /\ a + (m - a) = m
    <3>1. r[n] \in Members(s) /\ r[m] \in Members(t)
      BY <1>0, <1>1, <1>2, <2>3 DEF Members
    <3> QED
      BY <1>8, <3>1
  <2>4. CASE /\ m - a \in 1..b /\ a + (m - a) = m
             /\ n - a \in 1..b /\ a + (n - a) = n
    <3>1. r[m] = t[m - a] /\ r[n] = t[n - a]
      BY <1>2, <2>4
    <3>2. m - a = n - a
      BY <1>0, <1>8, <2>4, <3>1 DEF NoRepeat
    <3> QED
      BY <2>4, <3>2
  <2> QED
    BY <1>3, <2>1, <2>2, <2>3, <2>4
<1> QED
  BY <1>1, <1>5, <1>6, <1>7, <1>8 DEF r

\* A sequence without repetition is as long as it has members.
LEMMA LengthCounts ==
    ASSUME NEW U, NEW s \in Seq(U)
    PROVE  /\ IsFiniteSet(Members(s))
           /\ NoRepeat(s) => Len(s) = Cardinality(Members(s))
<1> DEFINE n == Len(s)
           f == [i \in 1..n |-> s[i]]
<1>1. n \in Nat
  OBVIOUS
<1>2. IsFiniteSet(1..n) /\ Cardinality(1..n) = n
  BY <1>1, FS_Interval
<1>3. f \in Surjection(1..n, Members(s))
  BY DEF Surjection, Members
<1>4. IsFiniteSet(Members(s))
  BY <1>2, <1>3, FS_Surjection
<1>5. ASSUME NoRepeat(s)
      PROVE  Cardinality(1..n) = Cardinality(Members(s))
  <2>1. \A i, k \in 1..n : f[i] = f[k] => i = k
    BY <1>5 DEF NoRepeat
  <2>2. f \in Bijection(1..n, Members(s))
    BY <1>3, <2>1 DEF Bijection, Injection, IsInjective, Surjection
  <2>3. ExistsBijection(1..n, Members(s))
    BY <2>2 DEF ExistsBijection
  <2> QED
    BY <1>2, <1>4, <2>3, FS_Bijection
<1> QED
  BY <1>2, <1>4, <1>5
=============================================================================
