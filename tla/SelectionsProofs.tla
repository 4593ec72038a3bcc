-------------------------- MODULE SelectionsProofs --------------------------
(***************************************************************************)
(* What Selections promises of every list.                                 *)
(***************************************************************************)
EXTENDS Selections, FiniteSetTheorems, WellFoundedInduction, TLAPS

\* The members of a set of numbers below a bound.
LEMMA Bounded ==
  ASSUME NEW N \in Nat, NEW S \in SUBSET (0..N), NEW k \in S
  PROVE  k \in Nat /\ k <= N
<1>1. k \in 0..N
  OBVIOUS
<1> QED BY <1>1

\* A set of natural numbers that is not empty has a least member.
LEMMA LeastMember ==
  ASSUME NEW S \in SUBSET Nat, S # {}
  PROVE  \E m \in S : \A k \in S : m <= k
<1>1. PICK m \in S : \A k \in S : ~ (<<k, m>> \in OpToRel(<, Nat))
  BY NatLessThanWellFounded, WFMin
<1>2. \A k \in S : ~ (k < m)
  BY <1>1 DEF OpToRel
<1> QED BY <1>2

\* If it is bounded it has a greatest.
LEMMA GreatestMember ==
  ASSUME NEW N \in Nat, NEW S \in SUBSET (0..N), S # {}
  PROVE  \E m \in S : \A k \in S : k <= m
<1> DEFINE T == {N - k : k \in S}
<1>0. \A k \in S : k \in Nat /\ k <= N
  BY Bounded
<1>1. T \in SUBSET Nat /\ T # {}
  <2>1. ASSUME NEW k \in S
        PROVE  N - k \in Nat
    BY <1>0
  <2> QED BY <2>1
<1>2. PICK t \in T : \A k \in T : t <= k
  BY <1>1, LeastMember
<1>3. PICK m \in S : t = N - m
  BY <1>2
<1>4. \A k \in S : N - m <= N - k
  BY <1>2, <1>3
<1>5. \A k \in S : k <= m
  BY <1>0, <1>4
<1> QED BY <1>3, <1>5

\* The members up to one of them.
LEMMA UpToFacts ==
  ASSUME NEW N \in Nat, NEW S \in SUBSET (0..N)
  PROVE  /\ IsFiniteSet(S) /\ Cardinality(S) \in Nat
         /\ \A k \in S : /\ k \in Nat /\ k <= N
                         /\ k \in UpTo(S, k) /\ UpTo(S, k) \in SUBSET S
                         /\ IsFiniteSet(UpTo(S, k))
                         /\ Cardinality(UpTo(S, k)) \in 1..Cardinality(S)
<1>1. IsFiniteSet(0..N)
  BY FS_Interval
<1>2. IsFiniteSet(S)
  BY <1>1, FS_Subset
<1>3. Cardinality(S) \in Nat
  BY <1>2, FS_CardinalityType
<1>4. ASSUME NEW k \in S
      PROVE  /\ k \in Nat /\ k <= N
             /\ k \in UpTo(S, k) /\ UpTo(S, k) \in SUBSET S
             /\ IsFiniteSet(UpTo(S, k))
             /\ Cardinality(UpTo(S, k)) \in 1..Cardinality(S)
  <2>1. k \in Nat /\ k <= N
    BY Bounded
  <2>2. k \in UpTo(S, k) /\ UpTo(S, k) \in SUBSET S
    BY <2>1 DEF UpTo
  <2>3. IsFiniteSet(UpTo(S, k)) /\ Cardinality(UpTo(S, k)) <= Cardinality(S)
    BY <1>2, <2>2, FS_Subset
  <2>4. Cardinality(UpTo(S, k)) \in Nat
    BY <2>3, FS_CardinalityType
  <2>5. Cardinality(UpTo(S, k)) # 0
    BY <2>2, <2>3, FS_EmptySet
  <2>6. Cardinality(UpTo(S, k)) \in 1..Cardinality(S)
    BY <1>3, <2>3, <2>4, <2>5
  <2> QED BY <2>1, <2>2, <2>3, <2>6
<1> QED BY <1>2, <1>3, <1>4

\* A greater member has more up to it.
LEMMA UpToGrows ==
  ASSUME NEW N \in Nat, NEW S \in SUBSET (0..N), NEW j \in S, NEW k \in S, j < k
  PROVE  Cardinality(UpTo(S, j)) < Cardinality(UpTo(S, k))
<1>1. j \in Nat /\ k \in Nat
  BY Bounded
<1>2. ASSUME NEW i \in S, i <= j
      PROVE  i <= k
  <2>1. i \in Nat
    BY Bounded
  <2> QED BY <1>1, <1>2, <2>1
<1>3. UpTo(S, j) \in SUBSET UpTo(S, k) /\ k \notin UpTo(S, j)
  <2>1. \A i \in UpTo(S, j) : i \in S /\ i <= j
    BY DEF UpTo
  <2>2. \A i \in UpTo(S, j) : i \in UpTo(S, k)
    BY <1>2, <2>1 DEF UpTo
  <2>3. ~ (k <= j)
    BY <1>1
  <2> QED BY <2>1, <2>2, <2>3
<1>4. k \in UpTo(S, k) /\ IsFiniteSet(UpTo(S, k))
  BY UpToFacts
<1>5. /\ Cardinality(UpTo(S, j)) <= Cardinality(UpTo(S, k))
      /\ Cardinality(UpTo(S, j)) # Cardinality(UpTo(S, k))
  BY <1>3, <1>4, FS_Subset
<1>6. Cardinality(UpTo(S, j)) \in Nat /\ Cardinality(UpTo(S, k)) \in Nat
  BY UpToFacts
<1> QED BY <1>5, <1>6

\* For each n there is a member that n members are up to.
LEMMA RankTaken ==
  ASSUME NEW N \in Nat, NEW S \in SUBSET (0..N), NEW n \in 1..Cardinality(S)
  PROVE  \E k \in S : Cardinality(UpTo(S, k)) = n
<1> DEFINE High == {k \in S : n <= Cardinality(UpTo(S, k))}
<1>1. IsFiniteSet(S) /\ Cardinality(S) \in Nat /\ n \in Nat
  BY UpToFacts
<1>2. \A k \in S : k \in Nat /\ Cardinality(UpTo(S, k)) \in Nat
  BY UpToFacts
<1>3. High # {}
  <2>1. S # {}
    BY <1>1, FS_EmptySet
  <2>2. PICK m \in S : \A k \in S : k <= m
    BY <2>1, GreatestMember
  <2>3. UpTo(S, m) = S
    BY <2>2, Zenon DEF UpTo
  <2> QED BY <1>1, <2>3
<1>4. PICK k \in High : \A j \in High : k <= j
  <2>1. High \in SUBSET Nat
    BY <1>2
  <2> HIDE DEF High
  <2> QED BY <1>3, <2>1, LeastMember
<1>5. k \in S /\ n <= Cardinality(UpTo(S, k)) /\ k \in Nat
  BY <1>2, <1>4
<1>6. \A j \in S : j < k => Cardinality(UpTo(S, j)) < n
  BY <1>1, <1>2, <1>4, <1>5
<1> HIDE DEF High
<1> DEFINE Less == {j \in S : j < k}
<1>7. IsFiniteSet(Less) /\ Cardinality(Less) \in Nat
  <2>1. Less \in SUBSET S
    OBVIOUS
  <2> QED BY <1>1, <2>1, FS_Subset, FS_CardinalityType
<1>8. Cardinality(UpTo(S, k)) = Cardinality(Less) + 1
  <2>0. ASSUME NEW j \in S
        PROVE  j <= k <=> (j < k \/ j = k)
    BY <1>2, <1>5
  <2>1. UpTo(S, k) = Less \cup {k}
    BY <1>5, <2>0, Zenon DEF UpTo
  <2>2. k \notin Less
    BY <1>5
  <2> QED BY <1>7, <2>1, <2>2, FS_AddElement
<1>9. Cardinality(Less) < n
  <2>1. CASE Less = {}
    BY <2>1, FS_EmptySet
  <2>2. CASE Less # {}
    <3>1. Less \in SUBSET (0..N)
      OBVIOUS
    <3>2. PICK m \in Less : \A j \in Less : j <= m
      BY <2>2, <3>1, GreatestMember
    <3>3. m \in S /\ m < k
      BY <3>2
    <3>4. ASSUME NEW j \in S
          PROVE  j <= m <=> j < k
      <4>1. j \in Nat /\ m \in Nat
        BY <1>2, <3>3
      <4>2. j < k => j <= m
        BY <3>2
      <4> QED BY <1>5, <3>3, <4>1, <4>2
    <3>5. UpTo(S, m) = Less
      BY <3>4 DEF UpTo
    <3> QED BY <1>6, <3>3, <3>5
  <2> QED BY <2>1, <2>2
<1> QED BY <1>1, <1>5, <1>7, <1>8, <1>9

\* Nth lists the members, each once, the least first.
LEMMA NthLists ==
  ASSUME NEW N \in Nat, NEW S \in SUBSET (0..N)
  PROVE  /\ Cardinality(S) \in Nat
         /\ \A n \in 1..Cardinality(S) : Nth(S, n) \in S
         /\ \A k \in S : \E n \in 1..Cardinality(S) : Nth(S, n) = k
         /\ \A m, n \in 1..Cardinality(S) : m < n => Nth(S, m) < Nth(S, n)
<1>1. \A n \in 1..Cardinality(S) : Nth(S, n) \in S /\ Cardinality(UpTo(S, Nth(S, n))) = n
  BY RankTaken DEF Nth
<1>2. \A k \in S : k \in Nat /\ Cardinality(UpTo(S, k)) \in 1..Cardinality(S)
  BY UpToFacts
<1>3. ASSUME NEW k \in S
      PROVE  \E n \in 1..Cardinality(S) : Nth(S, n) = k
  <2>1. PICK n \in 1..Cardinality(S) : n = Cardinality(UpTo(S, k))
    BY <1>2
  <2>2. Nth(S, n) \in S /\ Cardinality(UpTo(S, Nth(S, n))) = Cardinality(UpTo(S, k))
    BY <1>1, <2>1
  <2>3. Nth(S, n) \in Nat /\ k \in Nat /\ Cardinality(UpTo(S, k)) \in Nat
    BY <1>2, <2>2, UpToFacts
  <2>4. Nth(S, n) < k => Cardinality(UpTo(S, Nth(S, n))) < Cardinality(UpTo(S, k))
    BY <2>2, UpToGrows
  <2>5. k < Nth(S, n) => Cardinality(UpTo(S, k)) < Cardinality(UpTo(S, Nth(S, n)))
    BY <2>2, UpToGrows
  <2>6. ~ (Nth(S, n) < k) /\ ~ (k < Nth(S, n))
    BY <2>2, <2>3, <2>4, <2>5
  <2> QED BY <2>3, <2>6
<1>4. ASSUME NEW m \in 1..Cardinality(S), NEW n \in 1..Cardinality(S), m < n
      PROVE  Nth(S, m) < Nth(S, n)
  <2>1. /\ Nth(S, m) \in S /\ Cardinality(UpTo(S, Nth(S, m))) = m
        /\ Nth(S, n) \in S /\ Cardinality(UpTo(S, Nth(S, n))) = n
    BY <1>1
  <2>2. Nth(S, m) \in Nat /\ Nth(S, n) \in Nat
    BY <1>2, <2>1
  <2>3. m \in Nat /\ n \in Nat
    BY UpToFacts
  <2>4. Nth(S, m) # Nth(S, n)
    BY <1>4, <2>1, <2>3
  <2>5. Nth(S, n) < Nth(S, m)
        => Cardinality(UpTo(S, Nth(S, n))) < Cardinality(UpTo(S, Nth(S, m)))
    BY <2>1, UpToGrows
  <2>6. ~ (Nth(S, n) < Nth(S, m))
    BY <1>4, <2>1, <2>3, <2>5
  <2> QED BY <2>2, <2>4, <2>6
<1>5. Cardinality(S) \in Nat
  BY UpToFacts
<1> QED BY <1>1, <1>3, <1>4, <1>5

\* So a selection of the places of a list is no longer than the list, and
\* each of its items is one of them.
LEMMA ItemsSelected ==
  ASSUME NEW s, Len(s) \in Nat, NEW S \in SUBSET (1..Len(s))
  PROVE  /\ Cardinality(S) \in Nat /\ Cardinality(S) <= Len(s)
         /\ Len(ItemsAt(s, S)) = Cardinality(S)
         /\ \A n \in 1..Cardinality(S) : Nth(S, n) \in S /\ ItemsAt(s, S)[n] = s[Nth(S, n)]
<1> DEFINE N == Len(s)
<1> HIDE DEF N
<1>1. N \in Nat /\ S \in SUBSET (0..N)
  BY DEF N
<1>2. Cardinality(S) \in Nat /\ \A n \in 1..Cardinality(S) : Nth(S, n) \in S
  BY <1>1, NthLists
<1>3. IsFiniteSet(1..N) /\ Cardinality(1..N) = N
  BY <1>1, FS_Interval
<1>4. Cardinality(S) <= Cardinality(1..N)
  BY <1>3, FS_Subset DEF N
<1> QED BY <1>2, <1>3, <1>4 DEF ItemsAt, N

\* What joining two lists gives.
LEMMA Joined ==
  ASSUME NEW S, NEW s \in Seq(S), NEW t \in Seq(S)
  PROVE  /\ s \o t \in Seq(S) /\ Len(s \o t) = Len(s) + Len(t)
         /\ \A i \in 1..Len(s) : (s \o t)[i] = s[i]
         /\ \A i \in 1..Len(t) : (s \o t)[Len(s) + i] = t[i]
<1>1. Len(s) \in Nat /\ Len(t) \in Nat
  OBVIOUS
<1> QED BY <1>1

\* A place of a joined sequence is one of the first part or of the second.
LEMMA JoinedPlaces ==
  ASSUME NEW n \in Nat, NEW m \in Nat
  PROVE  /\ \A i \in 1..n : i \in 1..(n + m)
         /\ \A i \in 1..m : n + i \in 1..(n + m)
         /\ \A i \in 1..(n + m) : i \in 1..n \/ \E j \in 1..m : i = n + j
<1>1. ASSUME NEW i \in 1..(n + m), i \notin 1..n
      PROVE  \E j \in 1..m : i = n + j
  <2>1. i - n \in 1..m /\ i = n + (i - n)
    BY <1>1
  <2> QED BY <2>1
<1> QED BY <1>1
=============================================================================
