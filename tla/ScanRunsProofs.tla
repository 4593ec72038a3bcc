--------------------------- MODULE ScanRunsProofs ---------------------------
(***************************************************************************)
(* Theorems about scans that go on at the same time, for any inputs of any *)
(* kind, any advisories, any times, any number of runs and cuts, any order *)
(* in which rows are listed, and any order of the reads of a page.         *)
(***************************************************************************)
EXTENDS ScanRuns, SelectionsProofs

-----------------------------------------------------------------------------
(* Induction on sets of numbers, and definitions by recursion.             *)

\* A set of numbers that has 0 and, with a number, the next has them all.
LEMMA SetInduction ==
  ASSUME NEW S \in SUBSET Nat, 0 \in S, \A n \in S : n + 1 \in S
  PROVE  \A n \in Nat : n \in S
<1> SUFFICES ASSUME Nat \ S # {}
             PROVE  FALSE
  OBVIOUS
<1>1. PICK m \in Nat \ S : \A k \in Nat \ S : m <= k
  BY LeastMember
<1>2. m # 0
  OBVIOUS
<1>3. m - 1 \in Nat /\ ~ (m <= m - 1)
  BY <1>2
<1>4. m - 1 \in S
  BY <1>1, <1>3
<1>5. (m - 1) + 1 \in S
  BY <1>4
<1> QED BY <1>3, <1>5

\* g gives the first values, up to the n-th, of the sequence that starts with
\* s0 and goes on by G.
Starts(S, s0, G, n, g) ==
  /\ g \in [0..n -> S] /\ g[0] = s0
  /\ \A i \in Nat : i < n => g[i + 1] = G[<<i, g[i]>>]

\* Such a start exists up to every n.
LEMMA StartsExist ==
  ASSUME NEW S, NEW s0 \in S, NEW G, \A n \in Nat : \A x \in S : G[<<n, x>>] \in S
  PROVE  \A n \in Nat : \E g \in [0..n -> S] : Starts(S, s0, G, n, g)
<1> DEFINE Good == {n \in Nat : \E g \in [0..n -> S] : Starts(S, s0, G, n, g)}
<1>1. 0 \in Good
  <2>1. [i \in 0..0 |-> s0] \in [0..0 -> S] /\ [i \in 0..0 |-> s0][0] = s0
    OBVIOUS
  <2>2. Starts(S, s0, G, 0, [i \in 0..0 |-> s0])
    BY <2>1 DEF Starts
  <2> QED BY <2>1, <2>2
<1>2. ASSUME NEW n \in Good
      PROVE  n + 1 \in Good
  <2>1. n \in Nat
    OBVIOUS
  <2>2. PICK g \in [0..n -> S] : Starts(S, s0, G, n, g)
    OBVIOUS
  <2> DEFINE h == [i \in 0..(n + 1) |-> IF i = n + 1 THEN G[<<n, g[n]>>] ELSE g[i]]
  <2>3. g[n] \in S /\ G[<<n, g[n]>>] \in S
    <3>1. n \in 0..n
      BY <2>1
    <3> QED BY <2>1, <3>1
  <2>4. h \in [0..(n + 1) -> S]
    BY <2>1, <2>3
  <2>5. h[0] = s0
    BY <2>1, <2>2 DEF Starts
  <2>6. ASSUME NEW i \in Nat, i < n + 1
        PROVE  h[i + 1] = G[<<i, h[i]>>]
    <3>1. i \in 0..(n + 1) /\ i + 1 \in 0..(n + 1) /\ i # n + 1
      BY <2>1, <2>6
    <3>2. h[i] = g[i]
      BY <3>1
    <3>3. CASE i = n
      BY <3>1, <3>2, <3>3
    <3>4. CASE i # n
      <4>1. i < n /\ i + 1 # n + 1
        BY <2>1, <2>6, <3>4
      <4>2. h[i + 1] = g[i + 1]
        BY <3>1, <4>1
      <4> QED BY <2>2, <3>2, <4>1, <4>2 DEF Starts
    <3> QED BY <3>3, <3>4
  <2>7. Starts(S, s0, G, n + 1, h)
    <3> HIDE DEF h
    <3> QED BY <2>4, <2>5, <2>6 DEF Starts
  <2> HIDE DEF h
  <2> QED BY <2>1, <2>4, <2>7
<1> HIDE DEF Good
<1>3. Good \in SUBSET Nat
  BY DEF Good
<1>4. \A n \in Nat : n \in Good
  BY <1>1, <1>2, <1>3, SetInduction
<1> QED BY <1>4 DEF Good

\* Two of them agree where both are defined.
LEMMA StartsAgree ==
  ASSUME NEW S, NEW s0, NEW G, NEW m \in Nat, NEW n \in Nat, NEW g, NEW h,
         Starts(S, s0, G, m, g), Starts(S, s0, G, n, h)
  PROVE  \A i \in Nat : i <= m /\ i <= n => g[i] = h[i]
<1> DEFINE Same == {i \in Nat : i <= m /\ i <= n => g[i] = h[i]}
<1>1. 0 \in Same
  BY DEF Starts
<1>2. ASSUME NEW i \in Same
      PROVE  i + 1 \in Same
  <2>1. SUFFICES ASSUME i + 1 <= m, i + 1 <= n
                 PROVE  g[i + 1] = h[i + 1]
    OBVIOUS
  <2>2. i \in Nat /\ i < m /\ i < n /\ i <= m /\ i <= n
    BY <2>1
  <2>3. g[i] = h[i]
    BY <2>2
  <2> QED BY <2>2, <2>3 DEF Starts
<1> HIDE DEF Same
<1>3. Same \in SUBSET Nat
  BY DEF Same
<1>4. \A i \in Nat : i \in Same
  BY <1>1, <1>2, <1>3, SetInduction
<1> QED BY <1>4 DEF Same

\* So the sequence exists.
Iterates(S, s0, G, f) ==
  f \in [Nat -> S] /\ f[0] = s0 /\ \A n \in Nat : f[n + 1] = G[<<n, f[n]>>]

\* The sequence that starts with s0 and goes on by G exists.
LEMMA Iteration ==
  ASSUME NEW S, NEW s0 \in S, NEW G, \A n \in Nat : \A x \in S : G[<<n, x>>] \in S
  PROVE  \E f : Iterates(S, s0, G, f)
<1> DEFINE pick == [n \in Nat |-> CHOOSE g \in [0..n -> S] : Starts(S, s0, G, n, g)]
           f == [n \in Nat |-> pick[n][n]]
<1>1. ASSUME NEW n \in Nat
      PROVE  pick[n] \in [0..n -> S] /\ Starts(S, s0, G, n, pick[n])
  BY StartsExist
<1> HIDE DEF pick
<1>2. f \in [Nat -> S]
  <2>1. ASSUME NEW n \in Nat
        PROVE  pick[n][n] \in S
    <3>1. n \in 0..n
      OBVIOUS
    <3> QED BY <1>1, <3>1
  <2> QED BY <2>1
<1>3. f[0] = s0
  <2>1. Starts(S, s0, G, 0, pick[0])
    BY <1>1
  <2> QED BY <2>1 DEF Starts
<1>4. ASSUME NEW n \in Nat
      PROVE  f[n + 1] = G[<<n, f[n]>>]
  <2> DEFINE m == n + 1
             g == pick[n]
             h == pick[m]
  <2>1. m \in Nat /\ n < m /\ n <= m /\ n <= n
    OBVIOUS
  <2>2. Starts(S, s0, G, n, g) /\ Starts(S, s0, G, m, h)
    BY <1>1, <2>1
  <2>3. g[n] = h[n]
    <3> HIDE DEF m, g, h
    <3> QED BY <2>1, <2>2, StartsAgree
  <2>4. h[n + 1] = G[<<n, h[n]>>]
    BY <2>1, <2>2 DEF Starts
  <2> QED BY <2>1, <2>3, <2>4
<1> HIDE DEF f
<1>5. Iterates(S, s0, G, f)
  BY <1>2, <1>3, <1>4 DEF Iterates
<1> QED BY <1>5

-----------------------------------------------------------------------------
(* Sequences and sets.                                                     *)

\* A list of lists put together is a list of the same items.
LEMMA Flattened ==
  ASSUME NEW S, NEW seqs \in Seq(Seq(S))
  PROVE  FlattenSeq(seqs) \in Seq(S)
<1> DEFINE N == Len(seqs)
           Next1(p) == IF p[1] + 2 \in 1..N THEN p[2] \o seqs[p[1] + 2] ELSE p[2]
           G == [p \in Nat \X Seq(S) |-> Next1(p)]
           IsFlat(f) == f = [i \in 1..N |-> IF i = 1 THEN seqs[i] ELSE f[i - 1] \o seqs[i]]
           flatten == CHOOSE f : IsFlat(f)
<1>1. N \in Nat /\ \A i \in 1..N : seqs[i] \in Seq(S)
  OBVIOUS
<1>2. CASE N = 0
  <2>1. FlattenSeq(seqs) = seqs /\ seqs = <<>>
    BY <1>2 DEF FlattenSeq
  <2> QED BY <2>1
<1>3. CASE N # 0
  <2>1. 1 \in 1..N
    BY <1>1, <1>3
  <2>2. \A n \in Nat : \A x \in Seq(S) : G[<<n, x>>] \in Seq(S)
    <3>1. ASSUME NEW p \in Nat \X Seq(S)
          PROVE  Next1(p) \in Seq(S)
      <4>1. p[2] \in Seq(S)
        OBVIOUS
      <4>2. CASE p[1] + 2 \in 1..N
        <5>1. seqs[p[1] + 2] \in Seq(S)
          BY <1>1, <4>2
        <5>2. p[2] \o seqs[p[1] + 2] \in Seq(S)
          BY <4>1, <5>1, Joined
        <5> QED BY <4>2, <5>2
      <4>3. CASE p[1] + 2 \notin 1..N
        BY <4>1, <4>3
      <4> QED BY <4>2, <4>3
    <3> QED BY <3>1
  <2>3. seqs[1] \in Seq(S)
    BY <1>1, <2>1
  <2>4. PICK g : g \in [Nat -> Seq(S)] /\ g[0] = seqs[1]
                 /\ \A n \in Nat : g[n + 1] = G[<<n, g[n]>>]
    <3> DEFINE U == Seq(S)
               s0 == seqs[1]
    <3>1. s0 \in U /\ \A n \in Nat : \A x \in U : G[<<n, x>>] \in U
      BY <2>2, <2>3
    <3> HIDE DEF G, U, s0
    <3>2. \E g : Iterates(U, s0, G, g)
      BY <3>1, Iteration
    <3> QED BY <3>2 DEF Iterates, U, s0
  <2> DEFINE h == [i \in 1..N |-> g[i - 1]]
  <2>5. IsFlat(h)
    <3>1. ASSUME NEW i \in 1..N, i # 1
          PROVE  g[i - 1] = h[i - 1] \o seqs[i]
      <4>1. i - 2 \in Nat /\ (i - 2) + 1 = i - 1 /\ (i - 2) + 2 = i /\ i - 1 \in 1..N
            /\ (i - 1) - 1 = i - 2
        BY <1>1, <3>1
      <4>2. g[i - 1] = G[<<i - 2, g[i - 2]>>]
        <5> HIDE DEF G, h
        <5>1. g[(i - 2) + 1] = G[<<i - 2, g[i - 2]>>]
          BY <2>4, <4>1
        <5> QED BY <4>1, <5>1
      <4>3. <<i - 2, g[i - 2]>> \in Nat \X Seq(S)
        <5>1. g[i - 2] \in Seq(S)
          BY <2>4, <4>1
        <5> QED BY <4>1, <5>1
      <4>4. G[<<i - 2, g[i - 2]>>] = g[i - 2] \o seqs[i]
        <5>1. G[<<i - 2, g[i - 2]>>] = Next1(<<i - 2, g[i - 2]>>)
          BY <4>3
        <5> DEFINE j == i - 2
                   x == g[i - 2]
        <5>2. j + 2 \in 1..N /\ j + 2 = i
          BY <4>1
        <5>3. Next1(<<j, x>>) = x \o seqs[i]
          <6> HIDE DEF j, x, N
          <6> QED BY <5>2
        <5> QED BY <5>1, <5>3
      <4>5. h[i - 1] = g[i - 2]
        BY <4>1
      <4> QED BY <4>2, <4>4, <4>5
    <3>2. \A i \in 1..N : g[i - 1] = IF i = 1 THEN seqs[i] ELSE h[i - 1] \o seqs[i]
      <4>1. g[1 - 1] = seqs[1]
        BY <2>4
      <4> HIDE DEF h, G
      <4> QED BY <3>1, <4>1
    <3> QED BY <3>2
  <2>6. IsFlat(flatten)
    <3> HIDE DEF h, IsFlat
    <3> QED BY <2>5
  <2>7. FlattenSeq(seqs) = flatten[N]
    BY <1>3 DEF FlattenSeq
  <2> DEFINE T == {n \in Nat : n + 1 \in 1..N => flatten[n + 1] \in Seq(S)}
  <2>8. flatten[1] = seqs[1] /\ \A i \in 1..N : i # 1 => flatten[i] = flatten[i - 1] \o seqs[i]
    <3> HIDE DEF flatten
    <3> QED BY <2>1, <2>6
  <2> HIDE DEF flatten, IsFlat, G
  <2>9. 0 \in T
    <3>1. flatten[0 + 1] \in Seq(S)
      BY <2>3, <2>8
    <3> QED BY <3>1
  <2>10. ASSUME NEW n \in T
         PROVE  n + 1 \in T
    <3>1. SUFFICES ASSUME (n + 1) + 1 \in 1..N
                   PROVE  flatten[(n + 1) + 1] \in Seq(S)
      OBVIOUS
    <3>2. n \in Nat /\ n + 1 \in 1..N /\ (n + 1) + 1 # 1 /\ ((n + 1) + 1) - 1 = n + 1
      BY <1>1, <3>1
    <3>3. flatten[n + 1] \in Seq(S) /\ seqs[(n + 1) + 1] \in Seq(S)
      BY <1>1, <3>1, <3>2
    <3>4. flatten[n + 1] \o seqs[(n + 1) + 1] \in Seq(S)
      BY <3>3, Joined
    <3>5. flatten[(n + 1) + 1] = flatten[n + 1] \o seqs[(n + 1) + 1]
      BY <2>8, <3>1, <3>2
    <3> QED BY <3>4, <3>5
  <2>11. \A n \in Nat : n \in T
    <3>1. T \in SUBSET Nat
      OBVIOUS
    <3> HIDE DEF T
    <3> QED BY <2>9, <2>10, <3>1, SetInduction
  <2>12. N - 1 \in Nat /\ (N - 1) + 1 = N /\ N \in 1..N
    BY <1>1, <1>3
  <2>13. flatten[N] \in Seq(S)
    BY <2>11, <2>12
  <2> QED BY <2>7, <2>13
<1> QED BY <1>2, <1>3

\* The items of a finite set as a list.
LEMMA Listed ==
  ASSUME NEW S, IsFiniteSet(S)
  PROVE  SetToSeq(S) \in Seq(S)
<1> DEFINE n == Cardinality(S)
<1>1. n \in Nat /\ \E f : f \in Bijection(1..n, S)
  BY FS_CardinalityType, FS_NatBijection, FS_CountingElements DEF ExistsBijection
<1>2. PICK f : f \in Bijection(1..n, S)
  BY <1>1
<1>3. f \in [1..n -> S] /\ IsInjective(f)
  BY <1>2 DEF Bijection, Injection, IsInjective
<1>4. SetToSeq(S) \in [1..n -> S]
  BY <1>3 DEF SetToSeq
<1> QED BY <1>1, <1>4

\* A finite set of numbers has a greatest.
LEMMA FiniteMax ==
  ASSUME NEW S \in SUBSET Nat, IsFiniteSet(S), S # {}
  PROVE  \E x \in S : \A y \in S : x >= y
<1> DEFINE Good == {n \in Nat : \A T \in SUBSET Nat :
                      IsFiniteSet(T) /\ Cardinality(T) = n /\ T # {} => \E x \in T : \A y \in T : x >= y}
<1>1. 0 \in Good
  BY FS_EmptySet
<1>2. ASSUME NEW n \in Good
      PROVE  n + 1 \in Good
  <2>1. SUFFICES ASSUME NEW T \in SUBSET Nat, IsFiniteSet(T), Cardinality(T) = n + 1, T # {}
                 PROVE  \E x \in T : \A y \in T : x >= y
    OBVIOUS
  <2>2. PICK t \in T : TRUE
    BY <2>1
  <2> DEFINE U == T \ {t}
  <2>3. IsFiniteSet(U) /\ Cardinality(U) = n /\ U \in SUBSET Nat
    <3>1. IsFiniteSet(U) /\ Cardinality(U) = Cardinality(T) - 1
      BY <2>1, <2>2, FS_RemoveElement
    <3>2. n \in Nat
      OBVIOUS
    <3> QED BY <2>1, <3>1, <3>2
  <2>4. CASE U = {}
    <3>1. \A y \in T : y = t
      BY <2>4
    <3>2. t \in Nat /\ t >= t
      OBVIOUS
    <3> QED BY <3>1, <3>2
  <2>5. CASE U # {}
    <3>1. PICK x \in U : \A y \in U : x >= y
      BY <2>3, <2>5
    <3>2. x \in Nat /\ t \in Nat
      OBVIOUS
    <3>3. CASE x >= t
      BY <3>1, <3>3
    <3>4. CASE ~ (x >= t)
      <4>1. \A y \in U : y \in Nat /\ x >= y
        BY <3>1
      <4>2. \A y \in U : t >= y
        BY <3>2, <3>4, <4>1
      <4>3. \A y \in T : t >= y
        BY <3>2, <4>2
      <4> QED BY <4>3
    <3> QED BY <3>3, <3>4
  <2> QED BY <2>4, <2>5
<1> HIDE DEF Good
<1>3. Good \in SUBSET Nat
  BY DEF Good
<1>4. \A n \in Nat : n \in Good
  BY <1>1, <1>2, <1>3, SetInduction
<1>5. Cardinality(S) \in Nat
  BY FS_CardinalityType
<1> QED BY <1>4, <1>5 DEF Good

\* What MaxOf gives: a member, or 0, that none exceeds.
LEMMA MaxOfFacts ==
  ASSUME NEW S \in SUBSET Nat, IsFiniteSet(S)
  PROVE  /\ MaxOf(S) \in Nat /\ MaxOf(S) \in S \cup {0}
         /\ \A y \in S : y <= MaxOf(S)
<1>1. IsFiniteSet(S \cup {0}) /\ S \cup {0} \in SUBSET Nat
  BY FS_AddElement
<1>2. \E x \in S \cup {0} : \A y \in S \cup {0} : x >= y
  BY <1>1, FiniteMax
<1>3. MaxOf(S) \in S \cup {0} /\ \A y \in S \cup {0} : MaxOf(S) >= y
  <2> DEFINE T == S \cup {0}
  <2> HIDE DEF T
  <2>1. \E x \in T : \A y \in T : x >= y
    BY <1>2 DEF T
  <2>2. MaxOf(S) = CHOOSE x \in T : \A y \in T : x >= y
    BY DEF MaxOf, Max, T
  <2>3. MaxOf(S) \in T /\ \A y \in T : MaxOf(S) >= y
    BY <2>1, <2>2, Zenon
  <2> QED BY <2>3 DEF T
<1>4. MaxOf(S) \in Nat
  BY <1>1, <1>3, Zenon
<1>5. ASSUME NEW y \in S
      PROVE  y <= MaxOf(S)
  <2>1. y \in Nat /\ MaxOf(S) >= y
    BY <1>3
  <2> QED BY <1>4, <2>1
<1> QED BY <1>3, <1>4, <1>5

\* More members give no less.
LEMMA MaxOfGrows ==
  ASSUME NEW S \in SUBSET Nat, NEW T \in SUBSET Nat, IsFiniteSet(S), IsFiniteSet(T),
         \A x \in S : \E y \in T : x <= y
  PROVE  MaxOf(S) <= MaxOf(T)
<1>1. /\ MaxOf(S) \in Nat /\ MaxOf(S) \in S \cup {0}
      /\ MaxOf(T) \in Nat /\ \A y \in T : y <= MaxOf(T)
  BY MaxOfFacts
<1>2. CASE MaxOf(S) = 0
  BY <1>1, <1>2
<1>3. CASE MaxOf(S) \in S
  <2>1. PICK y \in T : MaxOf(S) <= y
    BY <1>3
  <2>2. y \in Nat /\ y <= MaxOf(T)
    BY <1>1
  <2> QED BY <1>1, <2>1, <2>2
<1> QED BY <1>1, <1>2, <1>3

\* The last of some places of a list is one of them.
LEMMA LastPlace ==
  ASSUME NEW n \in Nat, NEW S \in SUBSET (1..n), S # {}
  PROVE  Max(S) \in S
<1>1. S \in SUBSET (0..n)
  OBVIOUS
<1>2. PICK m \in S : \A k \in S : k <= m
  BY <1>1, GreatestMember
<1>3. \E x \in S : \A y \in S : x >= y
  BY <1>2
<1> QED BY <1>3, Zenon DEF Max

\* The values of a function on a finite set are finitely many.
LEMMA FiniteImage ==
  ASSUME NEW S, IsFiniteSet(S), NEW f
  PROVE  IsFiniteSet({f[x] : x \in S})
<1> DEFINE T == {f[x] : x \in S}
           g == [x \in S |-> f[x]]
<1>1. g \in Surjection(S, T)
  BY DEF Surjection
<1> QED BY <1>1, FS_Surjection

-----------------------------------------------------------------------------
(* What is reached from some keys.                                         *)

\* The ends of the edges from some keys.
Ends(K, E) == {e.to : e \in {x \in E : x.from \in K}}

\* A sequence of sets of keys that grows along the edges, up to Reach.
Grows(step, K, E) ==
  /\ step[0] = K
  /\ \A n \in Nat : step[n + 1] = step[n] \cup Ends(step[n], E)
  /\ Reach(K, E) = step[Cardinality(E)]

LEMMA ReachSteps ==
  ASSUME NEW K, NEW E, IsFiniteSet(E)
  PROVE  \E step : Grows(step, K, E)
<1> DEFINE V == K \cup {e.to : e \in E}
           G == [p \in Nat \X SUBSET V |-> p[2] \cup Ends(p[2], E)]
           IsStep(s) == s = [n \in Nat |->
                               IF n = 0 THEN K
                               ELSE s[n - 1] \cup {e.to : e \in {x \in E : x.from \in s[n - 1]}}]
           step == CHOOSE s : IsStep(s)
<1>1. Reach(K, E) = step[Cardinality(E)]
  BY DEF Reach
<1>2. \E f : Iterates(SUBSET V, K, G, f)
  <2>1. ASSUME NEW n \in Nat, NEW x \in SUBSET V
        PROVE  G[<<n, x>>] \in SUBSET V
    <3>1. G[<<n, x>>] = x \cup Ends(x, E)
      OBVIOUS
    <3>2. Ends(x, E) \in SUBSET V
      BY DEF Ends
    <3> HIDE DEF G, V
    <3> QED BY <3>1, <3>2
  <2>2. K \in SUBSET V
    OBVIOUS
  <2> HIDE DEF G, V
  <2> QED BY <2>1, <2>2, Iteration
<1>3. PICK f : Iterates(SUBSET V, K, G, f)
  BY <1>2
<1>4. IsStep(f)
  <2>1. ASSUME NEW n \in Nat, n # 0
        PROVE  f[n] = f[n - 1] \cup Ends(f[n - 1], E)
    <3> DEFINE m == n - 1
    <3>1. m \in Nat /\ m + 1 = n
      BY <2>1
    <3> HIDE DEF m
    <3>2. f[m + 1] = G[<<m, f[m]>>] /\ f[m] \in SUBSET V
      BY <1>3, <3>1 DEF Iterates
    <3>3. G[<<m, f[m]>>] = f[m] \cup Ends(f[m], E)
      BY <3>1, <3>2
    <3> QED BY <3>1, <3>2, <3>3 DEF m
  <2>2. f \in [Nat -> SUBSET V] /\ f[0] = K
    BY <1>3 DEF Iterates
  <2> HIDE DEF G, V
  <2> QED BY <2>1, <2>2 DEF Ends
<1>5. IsStep(step)
  <2> HIDE DEF IsStep
  <2> QED BY <1>4
<1>6. step[0] = K /\ \A n \in Nat : n # 0 => step[n] = step[n - 1] \cup Ends(step[n - 1], E)
  <2> HIDE DEF step
  <2> QED BY <1>5 DEF Ends
<1>7. ASSUME NEW n \in Nat
      PROVE  step[n + 1] = step[n] \cup Ends(step[n], E)
  <2> DEFINE m == n + 1
  <2>1. m \in Nat /\ m # 0 /\ m - 1 = n
    OBVIOUS
  <2> HIDE DEF m, step
  <2>2. step[m] = step[m - 1] \cup Ends(step[m - 1], E)
    BY <1>6, <2>1
  <2> QED BY <2>1, <2>2 DEF m
<1> HIDE DEF step
<1>8. Grows(step, K, E)
  BY <1>1, <1>6, <1>7 DEF Grows
<1> QED BY <1>8

\* It has the keys it starts from, and is in every set that has them and is
\* closed under the edges.
LEMMA ReachLeast ==
  ASSUME NEW K, NEW E, IsFiniteSet(E)
  PROVE  /\ K \subseteq Reach(K, E)
         /\ \A C : K \subseteq C /\ (\A e \in E : e.from \in C => e.to \in C) => Reach(K, E) \subseteq C
<1>0. PICK step : Grows(step, K, E)
  BY ReachSteps
<1>1. /\ step[0] = K
      /\ \A n \in Nat : step[n + 1] = step[n] \cup Ends(step[n], E)
      /\ Reach(K, E) = step[Cardinality(E)]
  BY <1>0 DEF Grows
<1>2. Cardinality(E) \in Nat
  BY FS_CardinalityType
<1>3. K \subseteq Reach(K, E)
  <2> DEFINE T == {n \in Nat : K \subseteq step[n]}
  <2>1. 0 \in T
    BY <1>1
  <2>2. ASSUME NEW n \in T
        PROVE  n + 1 \in T
    BY <1>1
  <2>3. T \in SUBSET Nat
    OBVIOUS
  <2> HIDE DEF T
  <2>4. Cardinality(E) \in T
    BY <1>2, <2>1, <2>2, <2>3, SetInduction
  <2> QED BY <1>1, <2>4 DEF T
<1>4. ASSUME NEW C, K \subseteq C, \A e \in E : e.from \in C => e.to \in C
      PROVE  Reach(K, E) \subseteq C
  <2> DEFINE T == {n \in Nat : step[n] \subseteq C}
  <2>1. 0 \in T
    BY <1>1, <1>4
  <2>2. ASSUME NEW n \in T
        PROVE  n + 1 \in T
    <3>1. step[n + 1] = step[n] \cup Ends(step[n], E) /\ step[n] \subseteq C
      BY <1>1
    <3>2. Ends(step[n], E) \subseteq C
      BY <1>4, <3>1 DEF Ends
    <3> QED BY <3>1, <3>2
  <2>3. T \in SUBSET Nat
    OBVIOUS
  <2> HIDE DEF T
  <2>4. Cardinality(E) \in T
    BY <1>2, <2>1, <2>2, <2>3, SetInduction
  <2> QED BY <1>1, <2>4 DEF T
<1> QED BY <1>3, <1>4

\* It is closed: a step that adds a key uses an edge none before it used, and
\* there are only so many edges.
LEMMA ReachClosed ==
  ASSUME NEW K, NEW E, IsFiniteSet(E), NEW e \in E, e.from \in Reach(K, E)
  PROVE  e.to \in Reach(K, E)
<1>0. PICK step : Grows(step, K, E)
  BY ReachSteps
<1>1. /\ step[0] = K
      /\ \A n \in Nat : step[n + 1] = step[n] \cup Ends(step[n], E)
      /\ Reach(K, E) = step[Cardinality(E)]
  BY <1>0 DEF Grows
<1> DEFINE used(n) == {x \in E : x.from \in step[n]}
           T == {n \in Nat : step[n + 1] = step[n] \/ Cardinality(used(n)) >= n + 1}
<1>2. ASSUME NEW n \in Nat
      PROVE  IsFiniteSet(used(n)) /\ Cardinality(used(n)) \in Nat /\ Cardinality(used(n)) <= Cardinality(E)
  <2>1. used(n) \in SUBSET E
    OBVIOUS
  <2> HIDE DEF used
  <2> QED BY <2>1, FS_Subset, FS_CardinalityType
<1>3. 0 \in T
  <2>1. CASE Ends(step[0], E) = {}
    BY <1>1, <2>1
  <2>2. CASE Ends(step[0], E) # {}
    <3>1. used(0) # {}
      BY <2>2 DEF Ends
    <3> HIDE DEF used
    <3>2. Cardinality(used(0)) # 0 /\ Cardinality(used(0)) \in Nat
      BY <1>2, <3>1, FS_EmptySet
    <3>3. Cardinality(used(0)) >= 0 + 1
      BY <3>2
    <3> QED BY <3>3
  <2> QED BY <2>1, <2>2
<1>4. ASSUME NEW n \in T
      PROVE  n + 1 \in T
  <2> DEFINE m == n + 1
  <2>1. n \in Nat /\ m \in Nat
    OBVIOUS
  <2>2. step[m] = step[n] \cup Ends(step[n], E)
    BY <1>1, <2>1
  <2>3. step[m + 1] = step[m] \cup Ends(step[m], E)
    <3> HIDE DEF m
    <3> QED BY <1>1, <2>1
  <2>4. CASE step[m] = step[n]
    <3>1. step[m + 1] = step[m]
      BY <2>2, <2>3, <2>4
    <3> QED BY <2>1, <3>1
  <2>5. CASE step[m] # step[n] /\ step[m + 1] = step[m]
    BY <2>1, <2>5
  <2>6. CASE step[m] # step[n] /\ step[m + 1] # step[m]
    <3>1. Cardinality(used(n)) >= n + 1
      BY <2>6
    <3>2. PICK x \in used(m) : x.to \notin step[m]
      BY <2>3, <2>6 DEF Ends
    <3>3. used(n) \in SUBSET used(m) /\ x \notin used(n)
      BY <2>2, <3>2 DEF Ends
    <3> HIDE DEF used, T, m
    <3>4. Cardinality(used(n)) <= Cardinality(used(m)) /\ Cardinality(used(n)) # Cardinality(used(m))
      BY <1>2, <2>1, <3>2, <3>3, FS_Subset
    <3>5. Cardinality(used(n)) \in Nat /\ Cardinality(used(m)) \in Nat
      BY <1>2, <2>1
    <3>6. m = n + 1
      BY DEF m
    <3>7. Cardinality(used(m)) >= m + 1
      BY <2>1, <3>1, <3>4, <3>5, <3>6
    <3> QED BY <2>1, <3>7 DEF T, m
  <2> QED BY <2>4, <2>5, <2>6
<1>5. Cardinality(E) \in Nat
  BY FS_CardinalityType
<1>6. Cardinality(E) \in T
  <2>1. T \in SUBSET Nat
    OBVIOUS
  <2> HIDE DEF T
  <2> QED BY <1>3, <1>4, <1>5, <2>1, SetInduction
<1>7. step[Cardinality(E) + 1] = step[Cardinality(E)]
  <2> DEFINE c == Cardinality(E)
             u == Cardinality(used(c))
  <2>1. c \in Nat /\ u \in Nat /\ u <= c
    BY <1>2, <1>5
  <2>2. step[c + 1] = step[c] \/ u >= c + 1
    BY <1>6
  <2> HIDE DEF c, u
  <2>3. step[c + 1] = step[c]
    BY <2>1, <2>2
  <2> QED BY <2>3 DEF c
<1>8. Ends(step[Cardinality(E)], E) \subseteq step[Cardinality(E)]
  BY <1>1, <1>5, <1>7
<1> QED BY <1>1, <1>8 DEF Ends

\* From more keys, by more edges, no less is reached.
LEMMA ReachGrows ==
  ASSUME NEW K, NEW E, NEW L, NEW F, IsFiniteSet(F), K \subseteq L, E \subseteq F
  PROVE  Reach(K, E) \subseteq Reach(L, F)
<1>1. IsFiniteSet(E)
  BY FS_Subset
<1>2. K \subseteq Reach(L, F)
  BY ReachLeast
<1>3. \A e \in E : e.from \in Reach(L, F) => e.to \in Reach(L, F)
  BY ReachClosed
<1> QED BY <1>1, <1>2, <1>3, ReachLeast

\* A key reaches itself and what the ends of its edges reach.
LEMMA ReachUnfold ==
  ASSUME NEW E, IsFiniteSet(E), NEW k
  PROVE  /\ k \in Reach({k}, E)
         /\ \A e \in E : e.from = k => Reach({e.to}, E) \subseteq Reach({k}, E)
         /\ \A x \in Reach({k}, E) : x = k \/ \E e \in E : e.from = k /\ x \in Reach({e.to}, E)
<1> DEFINE C == {k} \cup UNION {Reach({e.to}, E) : e \in {y \in E : y.from = k}}
<1>1. k \in Reach({k}, E)
  BY ReachLeast
<1>2. ASSUME NEW e \in E, e.from = k
      PROVE  Reach({e.to}, E) \subseteq Reach({k}, E)
  <2>1. {e.to} \subseteq Reach({k}, E)
    BY <1>1, <1>2, ReachClosed
  <2>2. \A x \in E : x.from \in Reach({k}, E) => x.to \in Reach({k}, E)
    BY ReachClosed
  <2> DEFINE R == Reach({k}, E)
  <2>3. {e.to} \subseteq R /\ (\A x \in E : x.from \in R => x.to \in R)
    BY <2>1, <2>2
  <2> HIDE DEF R
  <2>4. Reach({e.to}, E) \subseteq R
    BY <2>3, ReachLeast
  <2> QED BY <2>4 DEF R
<1>3. ASSUME NEW x \in E, x.from \in C
      PROVE  x.to \in C
  <2>1. CASE x.from = k
    <3>1. x.to \in Reach({x.to}, E)
      BY ReachLeast
    <3> QED BY <2>1, <3>1
  <2>2. CASE x.from # k
    <3>1. PICK e \in E : e.from = k /\ x.from \in Reach({e.to}, E)
      BY <1>3, <2>2
    <3>2. x.to \in Reach({e.to}, E)
      BY <3>1, ReachClosed
    <3> QED BY <3>1, <3>2
  <2> QED BY <2>1, <2>2
<1>4. Reach({k}, E) \subseteq C
  <2>1. {k} \subseteq C
    OBVIOUS
  <2> HIDE DEF C
  <2> QED BY <1>3, <2>1, ReachLeast
<1>5. \A x \in Reach({k}, E) : x = k \/ \E e \in E : e.from = k /\ x \in Reach({e.to}, E)
  BY <1>4
<1> QED BY <1>1, <1>2, <1>5

\* Finitely many keys are reached, all of them ends of edges but the first.
LEMMA ReachFinite ==
  ASSUME NEW E, IsFiniteSet(E), NEW k
  PROVE  /\ IsFiniteSet(Reach({k}, E))
         /\ \A x \in Reach({k}, E) : x = k \/ \E e \in E : e.to = x
<1> DEFINE f == [e \in E |-> e.to]
           V == {f[e] : e \in E} \cup {k}
<1>1. IsFiniteSet({f[e] : e \in E})
  <2> HIDE DEF f
  <2> QED BY FiniteImage
<1>2. IsFiniteSet(V)
  <2> HIDE DEF f
  <2> QED BY <1>1, FS_AddElement
<1>3. {k} \subseteq V /\ \A e \in E : e.to \in V
  OBVIOUS
<1>4. \A x \in V : x = k \/ \E e \in E : e.to = x
  OBVIOUS
<1> HIDE DEF V
<1>5. Reach({k}, E) \subseteq V
  BY <1>3, ReachLeast
<1> QED BY <1>2, <1>4, <1>5, FS_Subset

-----------------------------------------------------------------------------
(* The search of propagateRisk.                                            *)

Nodes(K, E) == K \cup {e.to : e \in E}

\* The edges it follows: those from assets that are listed.
From(K, E) == {e \in E : e.from \in K}

Searchable(K, E, own, order) ==
  /\ IsFiniteSet(K) /\ IsFiniteSet(E) /\ own \in [Nodes(K, E) -> Nat]
  /\ Len(order.assets) \in Nat /\ Len(order.edges) \in Nat

Frames(V) == [id : V, best : Nat, cause : SUBSET V]
Results(V) == [impact : Nat, cause : SUBSET V, inherited : BOOLEAN]

\* The states of a search.
IsSearch(s, V, F) ==
  /\ s = [stack |-> s.stack, done |-> s.done, memo |-> s.memo]
  /\ s.stack \in Seq(Frames(V)) /\ s.done \in SUBSET F
  /\ DOMAIN s.memo \in SUBSET V /\ s.memo \in [DOMAIN s.memo -> Results(V)]

\* A worst score n with its cause c: an own score of what is reached.
Explains(own, F, k, n, c) ==
  IF n = 0 THEN c = {} ELSE \E x \in Reach({k}, F) : own[x] = n /\ c = {x}

\* What is known of k when the edges done are merged; off the cycles, that its
\* worst score is its own or that of a dependency, and that none is worse.
Settles(done, memo, own, F, k, n, c) ==
  /\ n >= own[k] /\ Explains(own, F, k, n, c)
  /\ \A e \in done : e.from = k => n >= own[e.to]
  /\ ~OnCycle(k, F) =>
       /\ \A e \in done : e.from = k => e.to \in DOMAIN memo /\ n >= memo[e.to].impact
       /\ \/ n = own[k]
          \/ \E e \in done : e.from = k /\ e.to \in DOMAIN memo /\ n = memo[e.to].impact

Calls(s) == {s.stack[i].id : i \in 1..Len(s.stack)}
Entered(s) == DOMAIN s.memo \cup Calls(s)

\* The calls under way are distinct and each is reached from those before it;
\* what has returned has all its edges merged.
SearchOK(s, own, F) ==
  /\ \A i \in 1..Len(s.stack) :
       LET t == s.stack[i]
       IN  t.id \notin DOMAIN s.memo /\ Settles(s.done, s.memo, own, F, t.id, t.best, t.cause)
  /\ \A i, j \in 1..Len(s.stack) : i # j => s.stack[i].id # s.stack[j].id
  /\ \A i, j \in 1..Len(s.stack) : i <= j => s.stack[j].id \in Reach({s.stack[i].id}, F)
  /\ \A k \in DOMAIN s.memo :
       LET r == s.memo[k]
       IN  /\ Settles(s.done, s.memo, own, F, k, r.impact, r.cause)
           /\ r.inherited <=> r.impact > own[k]
           /\ \A e \in F : e.from = k => e \in s.done
  /\ \A e \in s.done : e.from \in Entered(s)

\* A step enters an asset, takes an edge or leaves an asset: each once.
Advances(s, t) ==
  \/ /\ t.done = s.done /\ DOMAIN t.memo = DOMAIN s.memo
     /\ \E x : x \notin Entered(s) /\ Entered(t) = Entered(s) \cup {x}
  \/ /\ Entered(t) = Entered(s) /\ DOMAIN t.memo = DOMAIN s.memo
     /\ \E x : x \notin s.done /\ t.done = s.done \cup {x}
  \/ /\ Entered(t) = Entered(s) /\ t.done = s.done
     /\ \E x : x \notin DOMAIN s.memo /\ DOMAIN t.memo = DOMAIN s.memo \cup {x}

\* The first of some keys, or of some edge ends, is one of them.
LEMMA FirstIn ==
  ASSUME NEW S, S # {}, NEW order, Len(order) \in Nat
  PROVE  First(S, order) \in S
<1> DEFINE named == {i \in 1..Len(order) : order[i] \in S}
<1>1. CASE named = {}
  BY <1>1 DEF First
<1>2. CASE named # {}
  <2>1. named \in SUBSET Nat
    OBVIOUS
  <2>2. \E m \in named : \A k \in named : m <= k
    <3> HIDE DEF named
    <3> QED BY <1>2, <2>1, LeastMember
  <2>3. Min(named) \in named
    <3> HIDE DEF named
    <3> QED BY <2>2, Zenon DEF Min
  <2> QED BY <1>2, <2>3 DEF First
<1> QED BY <1>1, <1>2

\* One more edge of another asset, or one more result, leaves what is known.
LEMMA SettlesOn ==
  ASSUME NEW done, NEW memo, NEW own, NEW F, NEW k, NEW n, NEW c, NEW moreDone, NEW moreMemo,
         Settles(done, memo, own, F, k, n, c),
         done \subseteq moreDone, \A e \in moreDone : e.from = k => e \in done,
         DOMAIN memo \subseteq DOMAIN moreMemo, \A x \in DOMAIN memo : moreMemo[x] = memo[x]
  PROVE  Settles(moreDone, moreMemo, own, F, k, n, c)
<1>1. \A e \in moreDone : e.from = k => n >= own[e.to]
  BY DEF Settles
<1>2. ASSUME ~OnCycle(k, F)
      PROVE  /\ \A e \in moreDone : e.from = k => e.to \in DOMAIN moreMemo /\ n >= moreMemo[e.to].impact
             /\ \/ n = own[k]
                \/ \E e \in moreDone : e.from = k /\ e.to \in DOMAIN moreMemo /\ n = moreMemo[e.to].impact
  BY <1>2 DEF Settles
<1> QED BY <1>1, <1>2 DEF Settles

\* An asset is entered: it is new, and reached from all calls under way.
LEMMA EnterOK ==
  ASSUME NEW K, NEW E, NEW own, own \in [Nodes(K, E) -> Nat], IsFiniteSet(E),
         NEW s, IsSearch(s, Nodes(K, E), From(K, E)), SearchOK(s, own, From(K, E)),
         NEW k \in Nodes(K, E), k \notin Entered(s),
         \A i \in 1..Len(s.stack) : k \in Reach({s.stack[i].id}, From(K, E))
  PROVE  LET t == Enter(s, own, k)
         IN  /\ IsSearch(t, Nodes(K, E), From(K, E)) /\ SearchOK(t, own, From(K, E))
             /\ Advances(s, t)
<1> DEFINE V == Nodes(K, E)
           F == From(K, E)
           f == [id |-> k, best |-> own[k], cause |-> OwnCause(own, k)]
           t == Enter(s, own, k)
           N == Len(s.stack)
<1>0. own[k] \in Nat /\ IsFiniteSet(F) /\ F \in SUBSET E
  <2>1. F \in SUBSET E
    BY DEF From
  <2>2. IsFiniteSet(F)
    <3> HIDE DEF F
    <3> QED BY <2>1, FS_Subset
  <2> QED BY <2>1, <2>2
<1>1. f \in Frames(V)
  BY <1>0 DEF Frames, OwnCause
<1>2. t.stack = Append(s.stack, f) /\ t.done = s.done /\ t.memo = s.memo
      /\ t = [stack |-> t.stack, done |-> t.done, memo |-> t.memo]
  <2>1. s = [stack |-> s.stack, done |-> s.done, memo |-> s.memo]
    BY DEF IsSearch
  <2> DEFINE new == Append(s.stack, f)
  <2>2. t = [s EXCEPT !.stack = new]
    BY DEF Enter
  <2> HIDE DEF new, f, t
  <2>3. t = [stack |-> new, done |-> s.done, memo |-> s.memo]
    BY <2>1, <2>2
  <2> QED BY <2>3 DEF new
<1>3. s.stack \in Seq(Frames(V)) /\ N \in Nat
  BY DEF IsSearch
<1> HIDE DEF f, t, V, F
<1>4. /\ t.stack \in Seq(Frames(V)) /\ Len(t.stack) = N + 1 /\ t.stack[N + 1] = f
      /\ \A i \in 1..N : t.stack[i] = s.stack[i]
      /\ \A i \in 1..(N + 1) : i \in 1..N \/ i = N + 1
  BY <1>1, <1>2, <1>3
<1>5. IsSearch(t, V, F)
  BY <1>2, <1>4 DEF IsSearch, V, F
<1>6. f.id = k /\ f.best = own[k] /\ f.cause = OwnCause(own, k)
  BY DEF f
<1>7. Settles(s.done, s.memo, own, F, k, own[k], OwnCause(own, k))
  <2>1. \A e \in s.done : e.from # k
    BY DEF SearchOK
  <2>2. k \in Reach({k}, F)
    BY <1>0, ReachUnfold
  <2>3. Explains(own, F, k, own[k], OwnCause(own, k))
    BY <1>0, <2>2 DEF Explains, OwnCause
  <2> QED BY <1>0, <2>1, <2>3 DEF Settles
<1>7a. Calls(t) = Calls(s) \cup {k}
  <2>1. \A i \in 1..N : i \in 1..Len(t.stack) /\ t.stack[i].id = s.stack[i].id
    BY <1>3, <1>4
  <2>2. N + 1 \in 1..Len(t.stack) /\ t.stack[N + 1].id = k
    BY <1>3, <1>4, <1>6
  <2>3. \A i \in 1..Len(t.stack) : t.stack[i].id = k \/ \E j \in 1..N : t.stack[i].id = s.stack[j].id
    BY <1>4, <2>2, <2>1
  <2> HIDE DEF N
  <2>4. Calls(t) \subseteq Calls(s) \cup {k}
    BY <2>3 DEF Calls, N
  <2>5. Calls(s) \cup {k} \subseteq Calls(t)
    BY <2>1, <2>2 DEF Calls, N
  <2> QED BY <2>4, <2>5
<1>8. SearchOK(t, own, F)
  <2>2. \A i \in 1..N : s.stack[i].id # k /\ k \in Reach({s.stack[i].id}, F)
    BY DEF Entered, Calls, F
  <2>3. k \in Reach({k}, F) /\ k \notin DOMAIN s.memo
    BY <1>0, ReachUnfold DEF Entered
  <2>4. SearchOK(s, own, F)
    BY DEF F
  <2>5. \A i \in 1..Len(t.stack) :
          /\ t.stack[i].id \notin DOMAIN t.memo
          /\ Settles(t.done, t.memo, own, F, t.stack[i].id, t.stack[i].best, t.stack[i].cause)
    BY <1>2, <1>4, <1>6, <1>7, <2>3, <2>4 DEF SearchOK
  <2>6. \A i, j \in 1..Len(t.stack) : i # j => t.stack[i].id # t.stack[j].id
    <3>1. ASSUME NEW i \in 1..N, NEW j \in 1..N, i # j
          PROVE  t.stack[i].id # t.stack[j].id
      BY <1>4, <2>4, <3>1 DEF SearchOK
    <3>2. ASSUME NEW i \in 1..N
          PROVE  t.stack[i].id # t.stack[N + 1].id
      BY <1>4, <1>6, <2>2
    <3>3. ASSUME NEW i \in 1..Len(t.stack), NEW j \in 1..Len(t.stack), i # j
          PROVE  t.stack[i].id # t.stack[j].id
      <4>1. (i \in 1..N \/ i = N + 1) /\ (j \in 1..N \/ j = N + 1)
        BY <1>4
      <4>2. CASE i \in 1..N /\ j \in 1..N
        BY <3>1, <3>3, <4>2
      <4>3. CASE i \in 1..N /\ j = N + 1
        BY <3>2, <4>3
      <4>4. CASE i = N + 1 /\ j \in 1..N
        BY <3>2, <4>4
      <4>5. CASE i = N + 1 /\ j = N + 1
        BY <3>3, <4>5
      <4> QED BY <4>1, <4>2, <4>3, <4>4, <4>5
    <3> QED BY <3>3
  <2>7. \A i, j \in 1..Len(t.stack) : i <= j => t.stack[j].id \in Reach({t.stack[i].id}, F)
    <3>1. ASSUME NEW i \in 1..Len(t.stack), NEW j \in 1..Len(t.stack), i <= j
          PROVE  t.stack[j].id \in Reach({t.stack[i].id}, F)
      <4>1. CASE j \in 1..N
        <5>1. i \in 1..N
          BY <1>3, <3>1, <4>1
        <5> QED BY <1>4, <2>4, <3>1, <4>1, <5>1 DEF SearchOK
      <4>2. CASE j = N + 1
        BY <1>4, <1>6, <2>2, <2>3, <4>2
      <4> QED BY <1>4, <4>1, <4>2
    <3> QED BY <3>1
  <2>8. \A e \in t.done : e.from \in Entered(t)
    BY <1>2, <1>7a, <2>4 DEF SearchOK, Entered
  <2>9. \A x \in DOMAIN t.memo :
          /\ Settles(t.done, t.memo, own, F, x, t.memo[x].impact, t.memo[x].cause)
          /\ t.memo[x].inherited <=> t.memo[x].impact > own[x]
          /\ \A e \in F : e.from = x => e \in t.done
    BY <1>2, <2>4 DEF SearchOK
  <2> QED BY <2>5, <2>6, <2>7, <2>8, <2>9 DEF SearchOK
<1>9. Advances(s, t)
  <2> QED BY <1>2, <1>7a DEF Advances, Entered
<1> QED BY <1>5, <1>8, <1>9 DEF t, V, F

\* An edge of the last call is taken: by what the memo says of its end or, on a
\* cycle, by the own score of its end.
LEMMA TakeOK ==
  ASSUME NEW K, NEW E, NEW own, own \in [Nodes(K, E) -> Nat], IsFiniteSet(E),
         NEW s, IsSearch(s, Nodes(K, E), From(K, E)), SearchOK(s, own, From(K, E)),
         s.stack # <<>>, NEW e \in From(K, E), e \notin s.done,
         e.from = s.stack[Len(s.stack)].id,
         NEW n \in Nat, NEW c \in SUBSET Nodes(K, E),
         n >= own[e.to], Explains(own, From(K, E), e.to, n, c),
         \/ e.to \in DOMAIN s.memo /\ n = s.memo[e.to].impact
         \/ OnCycle(e.from, From(K, E))
  PROVE  LET t == Take(s, e, n, c)
         IN  /\ IsSearch(t, Nodes(K, E), From(K, E)) /\ SearchOK(t, own, From(K, E))
             /\ Advances(s, t)
<1> DEFINE V == Nodes(K, E)
           F == From(K, E)
           t == Take(s, e, n, c)
           N == Len(s.stack)
           f == s.stack[N]
           g == Merge(f, e.to, n, c)
<1>0. IsFiniteSet(F) /\ F \in SUBSET E /\ e \in E
  <2>1. F \in SUBSET E
    BY DEF From
  <2>2. IsFiniteSet(F)
    <3> HIDE DEF F
    <3> QED BY <2>1, FS_Subset
  <2> QED BY <2>1, <2>2
<1>1. N \in Nat /\ N # 0 /\ N \in 1..N /\ s.stack \in Seq(Frames(V)) /\ f \in Frames(V)
      /\ e.to \in V
  <2>1. s.stack \in Seq(Frames(V))
    BY DEF IsSearch
  <2>2. e.to \in V
    BY <1>0 DEF Nodes
  <2> HIDE DEF V
  <2> QED BY <2>1, <2>2
<1>2. f.id \in V /\ f.best \in Nat /\ f.cause \in SUBSET V /\ own[f.id] \in Nat /\ own[e.to] \in Nat
  BY <1>1 DEF Frames
<1>3. f = [id |-> f.id, best |-> f.best, cause |-> f.cause]
  BY <1>1 DEF Frames
<1> HIDE DEF f
<1>4. g \in Frames(V) /\ g.id = f.id /\ g.best = (IF n > f.best THEN n ELSE f.best)
      /\ g.cause = (IF n > f.best THEN (IF c = {} THEN {e.to} ELSE c) ELSE f.cause)
  <2> HIDE DEF V
  <2>1. CASE n > f.best
    <3> DEFINE d == IF c = {} THEN {e.to} ELSE c
    <3>1. g = [f EXCEPT !.best = n, !.cause = d]
      BY <2>1 DEF Merge
    <3>2. d \in SUBSET V
      BY <1>1 DEF V
    <3> HIDE DEF d, g
    <3>3. g = [id |-> f.id, best |-> n, cause |-> d]
      BY <1>3, <3>1
    <3> QED BY <1>2, <2>1, <3>2, <3>3 DEF Frames, d
  <2>2. CASE ~ (n > f.best)
    <3>1. g = f
      BY <2>2 DEF Merge
    <3> HIDE DEF g
    <3> QED BY <1>1, <2>2, <3>1
  <2> QED BY <2>1, <2>2
<1> HIDE DEF g
<1>5. t.stack = [s.stack EXCEPT ![N] = g] /\ t.done = s.done \cup {e} /\ t.memo = s.memo
      /\ t = [stack |-> t.stack, done |-> t.done, memo |-> t.memo]
  <2>1. s = [stack |-> s.stack, done |-> s.done, memo |-> s.memo]
    BY DEF IsSearch
  <2> DEFINE st == [s.stack EXCEPT ![N] = g]
             dn == s.done \cup {e}
  <2>2. t = [s EXCEPT !.stack = st, !.done = dn]
    <3>1. t = [s EXCEPT !.stack[Len(s.stack)] = Merge(s.stack[Len(s.stack)], e.to, n, c), !.done = s.done \cup {e}]
      BY DEF Take
    <3> QED BY <2>1, <3>1 DEF g, f
  <2> HIDE DEF st, dn, t
  <2>3. t = [stack |-> st, done |-> dn, memo |-> s.memo]
    BY <2>1, <2>2
  <2> QED BY <2>3 DEF st, dn
<1> HIDE DEF t, V, F, N
<1>6. /\ t.stack \in Seq(Frames(V)) /\ Len(t.stack) = N /\ t.stack[N] = g
      /\ \A i \in 1..N : i # N => t.stack[i] = s.stack[i]
      /\ \A i \in 1..N : t.stack[i].id = s.stack[i].id
  <2>1. t.stack \in Seq(Frames(V)) /\ Len(t.stack) = N /\ t.stack[N] = g
        /\ \A i \in 1..N : i # N => t.stack[i] = s.stack[i]
    BY <1>1, <1>4, <1>5 DEF N
  <2>2. \A i \in 1..N : t.stack[i].id = s.stack[i].id
    BY <1>4, <2>1 DEF f
  <2> QED BY <2>1, <2>2
<1>7. IsSearch(t, V, F)
  BY <1>5, <1>6 DEF IsSearch, V, F
<1>8. Calls(t) = Calls(s)
  BY <1>6 DEF Calls, N
<1>9. SearchOK(s, own, F)
  BY DEF F
<1>10. f.id \notin DOMAIN s.memo /\ Settles(s.done, s.memo, own, F, f.id, f.best, f.cause)
  BY <1>1, <1>9 DEF SearchOK, f, N
<1>11. Settles(t.done, t.memo, own, F, f.id, g.best, g.cause)
  <2>1. g.best >= own[f.id] /\ g.best >= f.best /\ g.best >= n /\ g.best \in Nat
    BY <1>2, <1>4, <1>10 DEF Settles
  <2>2. Explains(own, F, f.id, g.best, g.cause)
    <3>1. CASE n > f.best
      <4>1. n # 0 /\ g.best = n
        BY <1>2, <1>4, <3>1
      <4>2. PICK x \in Reach({e.to}, F) : own[x] = n /\ c = {x}
        BY <4>1 DEF Explains, F
      <4>3. g.cause = {x}
        BY <1>4, <3>1, <4>2
      <4>4. e \in F /\ e.from = f.id
        BY DEF F, f, N
      <4>5. x \in Reach({f.id}, F)
        BY <1>0, <4>2, <4>4, ReachUnfold
      <4> QED BY <4>1, <4>2, <4>3, <4>5 DEF Explains
    <3>2. CASE ~ (n > f.best)
      BY <1>4, <1>10, <3>2 DEF Settles
    <3> QED BY <3>1, <3>2
  <2>3. \A x \in t.done : x.from = f.id => g.best >= own[x.to]
    <3>1. ASSUME NEW x \in s.done, x.from = f.id
          PROVE  g.best >= own[x.to]
      <4>1. f.best >= own[x.to]
        BY <1>10, <3>1 DEF Settles
      <4>2. x.to \in V
        BY <1>0 DEF IsSearch, V, F, Nodes
      <4>3. own[x.to] \in Nat
        BY <4>2 DEF V
      <4> QED BY <1>2, <2>1, <4>1, <4>3
    <3>2. g.best >= own[e.to]
      BY <1>2, <2>1
    <3> QED BY <1>5, <3>1, <3>2
  <2>4. ASSUME ~OnCycle(f.id, F)
        PROVE  /\ \A x \in t.done : x.from = f.id => x.to \in DOMAIN t.memo /\ g.best >= t.memo[x.to].impact
               /\ \/ g.best = own[f.id]
                  \/ \E x \in t.done : x.from = f.id /\ x.to \in DOMAIN t.memo /\ g.best = t.memo[x.to].impact
    <3>1. e.from = f.id
      BY DEF f, N
    <3>2. e.to \in DOMAIN s.memo /\ n = s.memo[e.to].impact
      BY <2>4, <3>1 DEF F
    <3>3. /\ \A x \in s.done : x.from = f.id => x.to \in DOMAIN s.memo /\ f.best >= s.memo[x.to].impact
          /\ \/ f.best = own[f.id]
             \/ \E x \in s.done : x.from = f.id /\ x.to \in DOMAIN s.memo /\ f.best = s.memo[x.to].impact
      BY <1>10, <2>4 DEF Settles
    <3>4. \A x \in DOMAIN s.memo : s.memo[x].impact \in Nat
      BY DEF IsSearch, Results
    <3>5. ASSUME NEW x \in t.done, x.from = f.id
          PROVE  x.to \in DOMAIN t.memo /\ g.best >= t.memo[x.to].impact
      <4>1. CASE x = e
        BY <1>5, <2>1, <3>2, <4>1
      <4>2. CASE x \in s.done
        <5>1. x.to \in DOMAIN s.memo /\ f.best >= s.memo[x.to].impact /\ s.memo[x.to].impact \in Nat
          BY <3>3, <3>4, <3>5, <4>2
        <5> QED BY <1>2, <1>5, <2>1, <5>1
      <4> QED BY <1>5, <4>1, <4>2
    <3>6. CASE n > f.best
      <4>1. g.best = n /\ e \in t.done
        BY <1>4, <1>5, <3>6
      <4> QED BY <1>5, <3>1, <3>2, <3>5, <4>1
    <3>7. CASE ~ (n > f.best)
      <4>1. g.best = f.best
        BY <1>4, <3>7
      <4> QED BY <1>5, <3>3, <3>5, <4>1
    <3> QED BY <3>6, <3>7
  <2> QED BY <2>1, <2>2, <2>3, <2>4 DEF Settles
<1>12. ASSUME NEW k, k # f.id, NEW m, NEW d, Settles(s.done, s.memo, own, F, k, m, d)
       PROVE  Settles(t.done, t.memo, own, F, k, m, d)
  <2>1. e.from = f.id
    BY DEF f, N
  <2>2. s.done \subseteq t.done /\ \A x \in t.done : x.from = k => x \in s.done
    BY <1>5, <1>12, <2>1
  <2> QED BY <1>5, <1>12, <2>2, SettlesOn
<1>13. \A i \in 1..Len(t.stack) :
         /\ t.stack[i].id \notin DOMAIN t.memo
         /\ Settles(t.done, t.memo, own, F, t.stack[i].id, t.stack[i].best, t.stack[i].cause)
  <2>1. ASSUME NEW i \in 1..N
        PROVE  /\ t.stack[i].id \notin DOMAIN t.memo
               /\ Settles(t.done, t.memo, own, F, t.stack[i].id, t.stack[i].best, t.stack[i].cause)
    <3>1. s.stack[i].id \notin DOMAIN s.memo
          /\ Settles(s.done, s.memo, own, F, s.stack[i].id, s.stack[i].best, s.stack[i].cause)
      BY <1>9 DEF SearchOK, N
    <3>2. CASE i = N
      BY <1>4, <1>5, <1>6, <1>11, <3>1, <3>2 DEF f
    <3>3. CASE i # N
      <4>1. s.stack[i].id # f.id
        BY <1>1, <1>9, <3>3 DEF SearchOK, f, N
      <4> QED BY <1>5, <1>6, <1>12, <3>1, <3>3, <4>1
    <3> QED BY <3>2, <3>3
  <2> QED BY <1>6, <2>1
<1>14. ASSUME NEW k \in DOMAIN t.memo
       PROVE  /\ Settles(t.done, t.memo, own, F, k, t.memo[k].impact, t.memo[k].cause)
              /\ t.memo[k].inherited <=> t.memo[k].impact > own[k]
              /\ \A x \in F : x.from = k => x \in t.done
  <2>1. k # f.id
    BY <1>5, <1>10
  <2>2. /\ Settles(s.done, s.memo, own, F, k, s.memo[k].impact, s.memo[k].cause)
        /\ s.memo[k].inherited <=> s.memo[k].impact > own[k]
        /\ \A x \in F : x.from = k => x \in s.done
    BY <1>5, <1>9 DEF SearchOK
  <2> QED BY <1>5, <1>12, <2>1, <2>2
<1>15. \A x \in t.done : x.from \in Entered(t)
  <2>1. e.from \in Calls(s)
    BY <1>1 DEF Calls, N
  <2> QED BY <1>5, <1>8, <1>9, <2>1 DEF SearchOK, Entered
<1>16. SearchOK(t, own, F)
  <2>1. \A i, j \in 1..N : i # j => s.stack[i].id # s.stack[j].id
    BY <1>9 DEF SearchOK, N
  <2>2. \A i, j \in 1..N : i <= j => s.stack[j].id \in Reach({s.stack[i].id}, F)
    BY <1>9 DEF SearchOK, N
  <2>3. \A i, j \in 1..Len(t.stack) : i # j => t.stack[i].id # t.stack[j].id
    <3>1. ASSUME NEW i \in 1..N, NEW j \in 1..N, i # j
          PROVE  t.stack[i].id # t.stack[j].id
      <4>1. t.stack[i].id = s.stack[i].id /\ t.stack[j].id = s.stack[j].id
        BY <1>6
      <4> QED BY <2>1, <3>1, <4>1
    <3> QED BY <1>6, <3>1
  <2>4. \A i, j \in 1..Len(t.stack) : i <= j => t.stack[j].id \in Reach({t.stack[i].id}, F)
    <3>1. ASSUME NEW i \in 1..N, NEW j \in 1..N, i <= j
          PROVE  t.stack[j].id \in Reach({t.stack[i].id}, F)
      <4>1. t.stack[i].id = s.stack[i].id /\ t.stack[j].id = s.stack[j].id
        BY <1>6
      <4> QED BY <2>2, <3>1, <4>1
    <3> QED BY <1>6, <3>1
  <2> QED BY <1>13, <1>14, <1>15, <2>3, <2>4 DEF SearchOK
<1>17. Advances(s, t)
  BY <1>5, <1>8 DEF Advances, Entered
<1> QED BY <1>7, <1>16, <1>17 DEF t, V, F

\* The last call returns: all its edges are merged.
LEMMA ReturnOK ==
  ASSUME NEW K, NEW E, NEW own, own \in [Nodes(K, E) -> Nat], IsFiniteSet(E),
         NEW s, IsSearch(s, Nodes(K, E), From(K, E)), SearchOK(s, own, From(K, E)),
         s.stack # <<>>, \A e \in From(K, E) : e.from = s.stack[Len(s.stack)].id => e \in s.done
  PROVE  LET t == Return(s, own)
         IN  /\ IsSearch(t, Nodes(K, E), From(K, E)) /\ SearchOK(t, own, From(K, E))
             /\ Advances(s, t)
<1> DEFINE V == Nodes(K, E)
           F == From(K, E)
           t == Return(s, own)
           N == Len(s.stack)
           f == s.stack[N]
           r == [impact |-> f.best, cause |-> f.cause, inherited |-> f.best > own[f.id]]
           D == DOMAIN s.memo \cup {f.id}
<1>1. N \in Nat /\ N # 0 /\ N \in 1..N /\ s.stack \in Seq(Frames(V)) /\ f \in Frames(V)
  <2>1. s.stack \in Seq(Frames(V))
    BY DEF IsSearch
  <2> HIDE DEF V
  <2> QED BY <2>1
<1>2. f.id \in V /\ f.best \in Nat /\ f.cause \in SUBSET V
  BY <1>1 DEF Frames
<1> HIDE DEF f
<1>3. r \in Results(V) /\ r.impact = f.best /\ r.cause = f.cause /\ (r.inherited <=> f.best > own[f.id])
  <2> DEFINE b == f.best > own[f.id]
  <2>1. b \in BOOLEAN
    OBVIOUS
  <2>2. r = [impact |-> f.best, cause |-> f.cause, inherited |-> b]
    OBVIOUS
  <2>3. b <=> f.best > own[f.id]
    OBVIOUS
  <2> HIDE DEF b, r, V
  <2>4. r \in Results(V) /\ r.impact = f.best /\ r.cause = f.cause
    BY <1>2, <2>1, <2>2 DEF Results
  <2>5. r.inherited = b
    BY <2>2
  <2> QED BY <2>3, <2>4, <2>5
<1> HIDE DEF r
<1>4. t.stack = SubSeq(s.stack, 1, N - 1) /\ t.done = s.done
      /\ t.memo = [k \in D |-> IF k = f.id THEN r ELSE s.memo[k]]
      /\ t = [stack |-> t.stack, done |-> t.done, memo |-> t.memo]
  <2>1. s = [stack |-> s.stack, done |-> s.done, memo |-> s.memo]
    BY DEF IsSearch
  <2> DEFINE st == SubSeq(s.stack, 1, N - 1)
             mm == [k \in D |-> IF k = f.id THEN r ELSE s.memo[k]]
  <2>2. t = [s EXCEPT !.stack = st, !.memo = mm]
    BY DEF Return, r, f
  <2> HIDE DEF st, mm, t
  <2>3. t = [stack |-> st, done |-> s.done, memo |-> mm]
    BY <2>1, <2>2
  <2> QED BY <2>3 DEF st, mm
<1> HIDE DEF t, V, F, N
<1>5. /\ t.stack \in Seq(Frames(V)) /\ Len(t.stack) = N - 1
      /\ \A i \in 1..(N - 1) : t.stack[i] = s.stack[i] /\ i \in 1..N /\ i # N
      /\ \A i \in 1..N : i # N => i \in 1..(N - 1)
  BY <1>1, <1>4 DEF N
<1>6. SearchOK(s, own, F)
  BY DEF F
<1>7. f.id \notin DOMAIN s.memo /\ Settles(s.done, s.memo, own, F, f.id, f.best, f.cause)
  BY <1>1, <1>6 DEF SearchOK, f, N
<1>8. DOMAIN t.memo = D /\ t.memo[f.id] = r /\ \A k \in DOMAIN s.memo : t.memo[k] = s.memo[k]
  BY <1>4, <1>7
<1>9. IsSearch(t, V, F)
  <2>1. DOMAIN s.memo \in SUBSET V /\ s.memo \in [DOMAIN s.memo -> Results(V)] /\ s.done \in SUBSET F
    BY DEF IsSearch, V, F
  <2>2. D \in SUBSET V
    BY <1>2, <2>1
  <2>3. t.memo \in [D -> Results(V)]
    BY <1>3, <1>4, <2>1
  <2> HIDE DEF D
  <2> QED BY <1>4, <1>5, <1>8, <2>1, <2>2, <2>3 DEF IsSearch
<1>10. Calls(s) = Calls(t) \cup {f.id}
  <2>1. \A i \in 1..N : s.stack[i].id = f.id \/ \E j \in 1..(N - 1) : s.stack[i].id = t.stack[j].id
    BY <1>5 DEF f
  <2>2. \A j \in 1..(N - 1) : j \in 1..N /\ t.stack[j].id = s.stack[j].id
    BY <1>5
  <2>3. Calls(t) = {t.stack[j].id : j \in 1..(N - 1)} /\ Calls(s) = {s.stack[i].id : i \in 1..N}
    BY <1>5 DEF Calls, N
  <2>4. f.id \in Calls(s)
    BY <1>1, <2>3 DEF f
  <2> QED BY <2>1, <2>2, <2>3, <2>4
<1>11. Entered(t) = Entered(s)
  BY <1>8, <1>10 DEF Entered
<1>12. ASSUME NEW k, NEW m, NEW d, Settles(s.done, s.memo, own, F, k, m, d)
       PROVE  Settles(t.done, t.memo, own, F, k, m, d)
  BY <1>4, <1>8, <1>12, SettlesOn
<1>13. \A i \in 1..Len(t.stack) :
         /\ t.stack[i].id \notin DOMAIN t.memo
         /\ Settles(t.done, t.memo, own, F, t.stack[i].id, t.stack[i].best, t.stack[i].cause)
  <2>1. ASSUME NEW i \in 1..(N - 1)
        PROVE  /\ t.stack[i].id \notin DOMAIN t.memo
               /\ Settles(t.done, t.memo, own, F, t.stack[i].id, t.stack[i].best, t.stack[i].cause)
    <3>1. t.stack[i] = s.stack[i] /\ i \in 1..N /\ i # N
      BY <1>5
    <3>2. s.stack[i].id \notin DOMAIN s.memo
          /\ Settles(s.done, s.memo, own, F, s.stack[i].id, s.stack[i].best, s.stack[i].cause)
      BY <1>6, <3>1 DEF SearchOK, N
    <3>3. s.stack[i].id # f.id
      BY <1>1, <1>6, <3>1 DEF SearchOK, f, N
    <3>4. s.stack[i].id \notin D
      BY <3>2, <3>3
    <3> QED BY <1>8, <1>12, <3>1, <3>2, <3>4
  <2> QED BY <1>5, <2>1
<1>14. ASSUME NEW k \in DOMAIN t.memo
       PROVE  /\ Settles(t.done, t.memo, own, F, k, t.memo[k].impact, t.memo[k].cause)
              /\ t.memo[k].inherited <=> t.memo[k].impact > own[k]
              /\ \A x \in F : x.from = k => x \in t.done
  <2>1. CASE k = f.id
    <3>1. \A x \in F : x.from = k => x \in t.done
      BY <1>4, <2>1 DEF F, f, N
    <3> QED BY <1>3, <1>7, <1>8, <1>12, <2>1, <3>1
  <2>2. CASE k # f.id
    <3>1. k \in DOMAIN s.memo
      BY <1>8, <2>2
    <3>2. /\ Settles(s.done, s.memo, own, F, k, s.memo[k].impact, s.memo[k].cause)
          /\ s.memo[k].inherited <=> s.memo[k].impact > own[k]
          /\ \A x \in F : x.from = k => x \in s.done
      BY <1>6, <3>1 DEF SearchOK
    <3> QED BY <1>4, <1>8, <1>12, <3>1, <3>2
  <2> QED BY <2>1, <2>2
<1>15. SearchOK(t, own, F)
  <2>1. \A i, j \in 1..N : i # j => s.stack[i].id # s.stack[j].id
    BY <1>6 DEF SearchOK, N
  <2>2. \A i, j \in 1..N : i <= j => s.stack[j].id \in Reach({s.stack[i].id}, F)
    BY <1>6 DEF SearchOK, N
  <2>3. \A x \in t.done : x.from \in Entered(t)
    BY <1>4, <1>6, <1>11 DEF SearchOK
  <2> QED BY <1>5, <1>13, <1>14, <2>1, <2>2, <2>3 DEF SearchOK
<1>16. Advances(s, t)
  BY <1>4, <1>7, <1>8, <1>11 DEF Advances
<1> QED BY <1>9, <1>15, <1>16 DEF t, V, F

\* A step of the search keeps what is known of it, and goes on unless every
\* asset has its result.
LEMMA StepOK ==
  ASSUME NEW K, NEW E, NEW own, NEW order, Searchable(K, E, own, order),
         NEW s, IsSearch(s, Nodes(K, E), From(K, E)), SearchOK(s, own, From(K, E))
  PROVE  LET t == SearchStep(K, E, own, order, s)
         IN  /\ IsSearch(t, Nodes(K, E), From(K, E)) /\ SearchOK(t, own, From(K, E))
             /\ Advances(s, t) \/ (t = s /\ K \subseteq DOMAIN s.memo)
<1> DEFINE t == SearchStep(K, E, own, order, s)
           F == From(K, E)
           V == Nodes(K, E)
<1>0. /\ own \in [Nodes(K, E) -> Nat] /\ IsFiniteSet(E) /\ IsFiniteSet(F) /\ F \in SUBSET E
      /\ Len(order.assets) \in Nat /\ Len(order.edges) \in Nat
  <2>1. F \in SUBSET E
    BY DEF From
  <2>2. IsFiniteSet(E)
    BY DEF Searchable
  <2>3. IsFiniteSet(F)
    <3> HIDE DEF F
    <3> QED BY <2>1, <2>2, FS_Subset
  <2> QED BY <2>1, <2>2, <2>3 DEF Searchable
<1>1. CASE s.stack = <<>> /\ K \subseteq DOMAIN s.memo
  <2>1. t = s
    BY <1>1 DEF SearchStep
  <2> QED BY <1>1, <2>1
<1>2. CASE s.stack = <<>> /\ ~ (K \subseteq DOMAIN s.memo)
  <2> DEFINE k == First(K \ DOMAIN s.memo, order.assets)
  <2>1. t = Enter(s, own, k)
    BY <1>2 DEF SearchStep
  <2>2. k \in K \ DOMAIN s.memo
    <3> DEFINE S == K \ DOMAIN s.memo
               o == order.assets
    <3>1. S # {} /\ Len(o) \in Nat
      BY <1>0, <1>2
    <3> HIDE DEF S, o
    <3>2. First(S, o) \in S
      BY <3>1, FirstIn
    <3> QED BY <3>2 DEF S, o
  <2> HIDE DEF k
  <2>3. Len(s.stack) = 0 /\ Calls(s) = {}
    BY <1>2 DEF Calls
  <2>4. k \notin Entered(s) /\ k \in Nodes(K, E) /\ \A i \in 1..Len(s.stack) : k \in Reach({s.stack[i].id}, F)
    BY <2>2, <2>3 DEF Entered, Nodes
  <2> HIDE DEF t
  <2> DEFINE u == Enter(s, own, k)
  <2>5. IsSearch(u, V, F) /\ SearchOK(u, own, F) /\ Advances(s, u)
    <3> HIDE DEF k
    <3> QED BY <1>0, <2>4, EnterOK
  <2> HIDE DEF u, V, F
  <2>6. t = u
    BY <2>1 DEF u
  <2> QED BY <2>5, <2>6 DEF t, V, F
<1>3. CASE s.stack # <<>>
  <2> DEFINE N == Len(s.stack)
             id == s.stack[N].id
             next == {e \in E \ s.done : e.from = id /\ id \in K}
             ends == {e.to : e \in next}
             to == First(ends, order.edges)
             e == CHOOSE x \in next : x.to = to
  <2>1. N \in Nat /\ N # 0 /\ N \in 1..N
    <3>1. s.stack \in Seq(Frames(V))
      BY DEF IsSearch
    <3> HIDE DEF V
    <3> QED BY <1>3, <3>1
  <2>2. t = IF next = {} THEN Return(s, own)
            ELSE IF to \in DOMAIN s.memo
            THEN Take(s, e, s.memo[to].impact, s.memo[to].cause)
            ELSE IF \E i \in 1..N : s.stack[i].id = to
            THEN Take(s, e, own[to], OwnCause(own, to))
            ELSE Enter(s, own, to)
    BY <1>3 DEF SearchStep
  <2> HIDE DEF t
  <2>3. CASE next = {}
    <3>1. \A x \in F : x.from = id => x \in s.done
      BY <2>3 DEF From
    <3>2. t = Return(s, own)
      BY <2>2, <2>3
    <3> QED BY <1>0, <1>3, <3>1, <3>2, ReturnOK DEF t
  <2>4. CASE next # {}
    <3>1. to \in ends
      <4> DEFINE o == order.edges
      <4>1. ends # {} /\ Len(o) \in Nat
        BY <1>0, <2>4
      <4> HIDE DEF ends, o
      <4>2. First(ends, o) \in ends
        BY <4>1, FirstIn
      <4> QED BY <4>2 DEF o
    <3>2. e \in next /\ e.to = to
      <4> HIDE DEF to
      <4>1. \E x \in next : x.to = to
        BY <3>1
      <4> HIDE DEF next
      <4> QED BY <4>1
    <3> HIDE DEF e, to, ends
    <3>3. e \in F /\ e \notin s.done /\ e.from = id
      BY <3>2 DEF From
    <3> HIDE DEF next
    <3>4. CASE to \in DOMAIN s.memo
      <4> DEFINE n == s.memo[to].impact
                 c == s.memo[to].cause
      <4>1. t = Take(s, e, n, c)
        BY <2>2, <2>4, <3>4
      <4>2. s.memo[to] \in Results(V)
        BY <3>4 DEF IsSearch
      <4>3. n \in Nat /\ c \in SUBSET V
        BY <4>2 DEF Results
      <4>4. n >= own[to] /\ Explains(own, F, to, n, c)
        BY <3>4 DEF SearchOK, Settles
      <4> HIDE DEF n, c
      <4>5. e.to \in DOMAIN s.memo /\ n = s.memo[e.to].impact
        BY <3>2, <3>4 DEF n
      <4> QED BY <1>0, <1>3, <3>2, <3>3, <4>1, <4>3, <4>4, <4>5, TakeOK DEF t
    <3>5. CASE to \notin DOMAIN s.memo /\ \E i \in 1..N : s.stack[i].id = to
      <4> DEFINE n == own[to]
                 c == OwnCause(own, to)
      <4>1. t = Take(s, e, n, c)
        BY <2>2, <2>4, <3>5
      <4>2. to \in V
        BY <1>0, <3>2, <3>3 DEF Nodes
      <4>3. n \in Nat /\ c \in SUBSET V
        BY <1>0, <4>2 DEF OwnCause
      <4>4. n >= own[to] /\ Explains(own, F, to, n, c)
        <5>1. to \in Reach({to}, F)
          BY <1>0, ReachUnfold
        <5>2. own[to] \in Nat
          BY <1>0, <4>2
        <5> QED BY <5>1, <5>2 DEF Explains, OwnCause
      <4>5. OnCycle(e.from, F)
        <5>1. PICK i \in 1..N : s.stack[i].id = to
          BY <3>5
        <5>2. i <= N
          BY <2>1
        <5>3. s.stack[N].id \in Reach({s.stack[i].id}, F)
          BY <2>1, <5>2 DEF SearchOK
        <5> QED BY <3>2, <3>3, <5>1, <5>3 DEF OnCycle
      <4> HIDE DEF n, c
      <4> QED BY <1>0, <1>3, <3>2, <3>3, <4>1, <4>3, <4>4, <4>5, TakeOK DEF t
    <3>6. CASE to \notin DOMAIN s.memo /\ ~ \E i \in 1..N : s.stack[i].id = to
      <4>1. t = Enter(s, own, to)
        BY <2>2, <2>4, <3>6
      <4>2. to \in V
        BY <1>0, <3>2, <3>3 DEF Nodes
      <4>3. to \notin Entered(s)
        BY <3>6 DEF Entered, Calls
      <4>4. ASSUME NEW i \in 1..N
            PROVE  to \in Reach({s.stack[i].id}, F)
        <5>1. i <= N
          BY <2>1
        <5>2. id \in Reach({s.stack[i].id}, F)
          BY <2>1, <5>1 DEF SearchOK
        <5> QED BY <1>0, <3>2, <3>3, <5>2, ReachClosed
      <4> DEFINE u == Enter(s, own, to)
      <4>5. IsSearch(u, V, F) /\ SearchOK(u, own, F) /\ Advances(s, u)
        BY <1>0, <4>2, <4>3, <4>4, EnterOK
      <4> HIDE DEF u, V, F
      <4>6. t = u
        BY <4>1 DEF u
      <4> QED BY <4>5, <4>6 DEF t, V, F
    <3> QED BY <3>4, <3>5, <3>6
  <2> QED BY <2>3, <2>4
<1> QED BY <1>1, <1>2, <1>3

\* How far a search has come.
Progress(s) == Cardinality(Entered(s)) + Cardinality(s.done) + Cardinality(DOMAIN s.memo)

\* The nodes are no more than the keys and edges.
LEMMA NodesFinite ==
  ASSUME NEW K, NEW E, IsFiniteSet(K), IsFiniteSet(E)
  PROVE  /\ IsFiniteSet(Nodes(K, E)) /\ Cardinality(Nodes(K, E)) \in Nat
         /\ Cardinality(Nodes(K, E)) <= Cardinality(K) + Cardinality(E)
         /\ IsFiniteSet(From(K, E)) /\ Cardinality(From(K, E)) <= Cardinality(E)
<1> DEFINE f == [e \in E |-> e.to]
           T == {e.to : e \in E}
<1>1. f \in Surjection(E, T)
  BY DEF Surjection
<1>2. IsFiniteSet(T) /\ Cardinality(T) <= Cardinality(E)
  <2> HIDE DEF f, T
  <2> QED BY <1>1, FS_Surjection
<1>3. From(K, E) \in SUBSET E
  BY DEF From
<1>4. IsFiniteSet(From(K, E)) /\ Cardinality(From(K, E)) <= Cardinality(E)
  BY <1>3, FS_Subset
<1>5. Nodes(K, E) = K \cup T
  BY DEF Nodes
<1> HIDE DEF T
<1>6. /\ IsFiniteSet(K \cup T) /\ IsFiniteSet(K \cap T)
      /\ Cardinality(K \cup T) = Cardinality(K) + Cardinality(T) - Cardinality(K \cap T)
  BY <1>2, FS_Union, FS_Intersection
<1>7. /\ Cardinality(K) \in Nat /\ Cardinality(T) \in Nat /\ Cardinality(K \cap T) \in Nat
      /\ Cardinality(K \cup T) \in Nat /\ Cardinality(E) \in Nat
  BY <1>2, <1>6, FS_CardinalityType
<1> QED BY <1>2, <1>4, <1>5, <1>6, <1>7

\* What is entered, done and known at some point of a search is finite.
LEMMA ProgressType ==
  ASSUME NEW K, NEW E, IsFiniteSet(K), IsFiniteSet(E), NEW s, IsSearch(s, Nodes(K, E), From(K, E))
  PROVE  /\ IsFiniteSet(Entered(s)) /\ IsFiniteSet(s.done) /\ IsFiniteSet(DOMAIN s.memo)
         /\ Cardinality(Entered(s)) \in Nat /\ Cardinality(Entered(s)) <= Cardinality(Nodes(K, E))
         /\ Cardinality(s.done) \in Nat /\ Cardinality(s.done) <= Cardinality(E)
         /\ Cardinality(DOMAIN s.memo) \in Nat
         /\ Cardinality(DOMAIN s.memo) <= Cardinality(Nodes(K, E))
<1>1. /\ IsFiniteSet(Nodes(K, E)) /\ IsFiniteSet(From(K, E))
      /\ Cardinality(From(K, E)) <= Cardinality(E)
  BY NodesFinite
<1>2. s.done \in SUBSET From(K, E) /\ DOMAIN s.memo \in SUBSET Nodes(K, E)
  BY DEF IsSearch
<1>3. Entered(s) \in SUBSET Nodes(K, E)
  <2>1. \A i \in 1..Len(s.stack) : s.stack[i] \in Frames(Nodes(K, E))
    BY DEF IsSearch
  <2> QED BY <1>2, <2>1 DEF Entered, Calls, Frames
<1>4. /\ IsFiniteSet(s.done) /\ IsFiniteSet(DOMAIN s.memo) /\ IsFiniteSet(Entered(s))
      /\ Cardinality(s.done) <= Cardinality(From(K, E))
      /\ Cardinality(DOMAIN s.memo) <= Cardinality(Nodes(K, E))
      /\ Cardinality(Entered(s)) <= Cardinality(Nodes(K, E))
  BY <1>1, <1>2, <1>3, FS_Subset
<1>5. /\ Cardinality(s.done) \in Nat /\ Cardinality(DOMAIN s.memo) \in Nat
      /\ Cardinality(Entered(s)) \in Nat /\ Cardinality(From(K, E)) \in Nat /\ Cardinality(E) \in Nat
  BY <1>1, <1>4, FS_CardinalityType
<1> QED BY <1>1, <1>4, <1>5

LEMMA AdvancesByOne ==
  ASSUME NEW K, NEW E, IsFiniteSet(K), IsFiniteSet(E), NEW s, IsSearch(s, Nodes(K, E), From(K, E)),
         NEW t, Advances(s, t)
  PROVE  Progress(t) = Progress(s) + 1
<1>1. /\ IsFiniteSet(Entered(s)) /\ IsFiniteSet(s.done) /\ IsFiniteSet(DOMAIN s.memo)
      /\ Cardinality(Entered(s)) \in Nat /\ Cardinality(s.done) \in Nat /\ Cardinality(DOMAIN s.memo) \in Nat
  BY ProgressType
<1>2. ASSUME NEW S, IsFiniteSet(S), NEW T, NEW x, x \notin S, T = S \cup {x}
      PROVE  Cardinality(T) = Cardinality(S) + 1
  BY <1>2, FS_AddElement
<1>3. CASE /\ t.done = s.done /\ DOMAIN t.memo = DOMAIN s.memo
           /\ \E x : x \notin Entered(s) /\ Entered(t) = Entered(s) \cup {x}
  <2>1. Cardinality(Entered(t)) = Cardinality(Entered(s)) + 1
    BY <1>1, <1>2, <1>3
  <2> QED BY <1>1, <1>3, <2>1 DEF Progress
<1>4. CASE /\ Entered(t) = Entered(s) /\ DOMAIN t.memo = DOMAIN s.memo
           /\ \E x : x \notin s.done /\ t.done = s.done \cup {x}
  <2>1. Cardinality(t.done) = Cardinality(s.done) + 1
    BY <1>1, <1>2, <1>4
  <2> QED BY <1>1, <1>4, <2>1 DEF Progress
<1>5. CASE /\ Entered(t) = Entered(s) /\ t.done = s.done
           /\ \E x : x \notin DOMAIN s.memo /\ DOMAIN t.memo = DOMAIN s.memo \cup {x}
  <2>1. Cardinality(DOMAIN t.memo) = Cardinality(DOMAIN s.memo) + 1
    BY <1>1, <1>2, <1>5
  <2> QED BY <1>1, <1>5, <2>1 DEF Progress
<1> QED BY <1>3, <1>4, <1>5 DEF Advances

\* The states of a search, from the first on.
LEMMA SearchSteps ==
  ASSUME NEW K, NEW E, NEW own, NEW order, Searchable(K, E, own, order)
  PROVE  LET after == Search(K, E, own, order)
         IN  /\ after[0] = [stack |-> <<>>, done |-> {}, memo |-> <<>>]
             /\ \A n \in Nat : /\ after[n + 1] = SearchStep(K, E, own, order, after[n])
                               /\ IsSearch(after[n], Nodes(K, E), From(K, E))
                               /\ SearchOK(after[n], own, From(K, E))
<1> DEFINE V == Nodes(K, E)
           F == From(K, E)
           T == [stack : Seq(Frames(V)), done : SUBSET F, memo : UNION {[D -> Results(V)] : D \in SUBSET V}]
           S == {s \in T : SearchOK(s, own, F)}
           s0 == [stack |-> <<>>, done |-> {}, memo |-> <<>>]
           G == [p \in Nat \X S |-> SearchStep(K, E, own, order, p[2])]
           IsRunOf(a) == a = [n \in Nat |-> IF n = 0 THEN s0 ELSE SearchStep(K, E, own, order, a[n - 1])]
           after == CHOOSE a : IsRunOf(a)
<1>1. Search(K, E, own, order) = after
  BY DEF Search
<1>2. ASSUME NEW s
      PROVE  IsSearch(s, V, F) <=> s \in T
  <2>1. ASSUME s \in T
        PROVE  IsSearch(s, V, F)
    <3>1. PICK D \in SUBSET V : s.memo \in [D -> Results(V)]
      BY <2>1
    <3>2. s = [stack |-> s.stack, done |-> s.done, memo |-> s.memo]
          /\ s.stack \in Seq(Frames(V)) /\ s.done \in SUBSET F
      <4> DEFINE A == Seq(Frames(V))
                 B == SUBSET F
                 C == UNION {[X -> Results(V)] : X \in SUBSET V}
      <4>1. s \in [stack : A, done : B, memo : C]
        BY <2>1
      <4> HIDE DEF A, B, C
      <4>2. s = [stack |-> s.stack, done |-> s.done, memo |-> s.memo] /\ s.stack \in A /\ s.done \in B
        BY <4>1
      <4> QED BY <4>2 DEF A, B
    <3>3. DOMAIN s.memo = D
      BY <3>1
    <3> HIDE DEF V, F
    <3> QED BY <3>1, <3>2, <3>3 DEF IsSearch
  <2>2. ASSUME IsSearch(s, V, F)
        PROVE  s \in T
    <3> DEFINE A == Seq(Frames(V))
               B == SUBSET F
               C == UNION {[X -> Results(V)] : X \in SUBSET V}
    <3>1. s = [stack |-> s.stack, done |-> s.done, memo |-> s.memo] /\ s.stack \in A /\ s.done \in B
          /\ s.memo \in C
      BY <2>2 DEF IsSearch
    <3> HIDE DEF A, B, C
    <3>2. s \in [stack : A, done : B, memo : C]
      BY <3>1
    <3> QED BY <3>2 DEF A, B, C
  <2> QED BY <2>1, <2>2
<1>3. s0 \in S
  <2> DEFINE Z == Results(V)
  <2>1. <<>> \in Seq(Frames(V)) /\ Len(<<>>) = 0 /\ DOMAIN <<>> = {}
    OBVIOUS
  <2>2. <<>> \in [DOMAIN <<>> -> Z]
    <3> HIDE DEF Z
    <3> QED BY <2>1
  <2>3. s0 = [stack |-> s0.stack, done |-> s0.done, memo |-> s0.memo] /\ s0.stack = <<>>
        /\ s0.done = {} /\ s0.memo = <<>>
    OBVIOUS
  <2> HIDE DEF s0, V, F
  <2>4. IsSearch(s0, V, F)
    BY <2>1, <2>2, <2>3 DEF IsSearch
  <2>5. SearchOK(s0, own, F)
    BY <2>1, <2>3 DEF SearchOK
  <2> QED BY <1>2, <2>4, <2>5
<1>4. ASSUME NEW n \in Nat, NEW x \in S
      PROVE  G[<<n, x>>] \in S /\ G[<<n, x>>] = SearchStep(K, E, own, order, x)
  <2> DEFINE y == SearchStep(K, E, own, order, x)
  <2>1. G[<<n, x>>] = y
    <3> HIDE DEF S
    <3> QED OBVIOUS
  <2>2. IsSearch(x, V, F) /\ SearchOK(x, own, F)
    BY <1>2
  <2>3. IsSearch(y, V, F) /\ SearchOK(y, own, F)
    BY <2>2, StepOK
  <2> HIDE DEF y, T, G
  <2>4. y \in T
    BY <1>2, <2>3
  <2>5. y \in S
    BY <2>3, <2>4
  <2> HIDE DEF S
  <2> QED BY <2>1, <2>5 DEF y
<1>5. PICK f : Iterates(S, s0, G, f)
  <2> HIDE DEF S, s0, G
  <2> QED BY <1>3, <1>4, Iteration
<1>6. f \in [Nat -> S] /\ f[0] = s0 /\ \A n \in Nat : f[n + 1] = SearchStep(K, E, own, order, f[n])
  <2> HIDE DEF S, s0, G
  <2>1. f \in [Nat -> S] /\ f[0] = s0 /\ \A n \in Nat : f[n + 1] = G[<<n, f[n]>>]
    BY <1>5 DEF Iterates
  <2> QED BY <1>4, <2>1
<1>7. IsRunOf(f)
  <2>1. ASSUME NEW n \in Nat, n # 0
        PROVE  f[n] = SearchStep(K, E, own, order, f[n - 1])
    <3> DEFINE m == n - 1
    <3>1. m \in Nat /\ m + 1 = n
      BY <2>1
    <3> HIDE DEF m
    <3>2. f[m + 1] = SearchStep(K, E, own, order, f[m])
      BY <1>6, <3>1
    <3> QED BY <3>1, <3>2 DEF m
  <2> HIDE DEF S, s0, G
  <2> QED BY <1>6, <2>1
<1>8. IsRunOf(after)
  <2> HIDE DEF IsRunOf
  <2> QED BY <1>7
<1>9. after[0] = s0 /\ \A n \in Nat : n # 0 => after[n] = SearchStep(K, E, own, order, after[n - 1])
  <2> HIDE DEF after, s0
  <2> QED BY <1>8
<1>10. ASSUME NEW n \in Nat
       PROVE  after[n + 1] = SearchStep(K, E, own, order, after[n])
  <2> DEFINE m == n + 1
  <2>1. m \in Nat /\ m # 0 /\ m - 1 = n
    OBVIOUS
  <2> HIDE DEF m, after
  <2>2. after[m] = SearchStep(K, E, own, order, after[m - 1])
    BY <1>9, <2>1
  <2> QED BY <2>1, <2>2 DEF m
<1> HIDE DEF after
<1> DEFINE Good == {n \in Nat : after[n] \in S}
<1>11. \A n \in Nat : n \in Good
  <2>1. 0 \in Good
    BY <1>3, <1>9
  <2>2. ASSUME NEW n \in Good
        PROVE  n + 1 \in Good
    <3> HIDE DEF S, G
    <3>1. after[n + 1] \in S
      BY <1>4, <1>10
    <3> QED BY <3>1
  <2> HIDE DEF S
  <2>3. Good \in SUBSET Nat
    OBVIOUS
  <2> HIDE DEF Good
  <2> QED BY <2>1, <2>2, <2>3, SetInduction
<1>12. ASSUME NEW n \in Nat
       PROVE  IsSearch(after[n], V, F) /\ SearchOK(after[n], own, F)
  <2> HIDE DEF T
  <2>1. after[n] \in T /\ SearchOK(after[n], own, F)
    BY <1>11
  <2> QED BY <1>2, <2>1
<1> QED BY <1>1, <1>9, <1>10, <1>12

\* In as many steps as propagateRisk gives it, the search has a result for
\* every asset.
LEMMA SearchEnds ==
  ASSUME NEW K, NEW E, NEW own, NEW order, Searchable(K, E, own, order)
  PROVE  LET s == Search(K, E, own, order)[2 * Cardinality(K) + 3 * Cardinality(E)]
         IN  /\ IsSearch(s, Nodes(K, E), From(K, E)) /\ SearchOK(s, own, From(K, E))
             /\ K \subseteq DOMAIN s.memo
<1> DEFINE V == Nodes(K, E)
           F == From(K, E)
           after == Search(K, E, own, order)
           N == 2 * Cardinality(K) + 3 * Cardinality(E)
           Good == {n \in Nat : K \subseteq DOMAIN after[n].memo \/ Progress(after[n]) >= n}
<1>0. IsFiniteSet(K) /\ IsFiniteSet(E) /\ Cardinality(K) \in Nat /\ Cardinality(E) \in Nat
  BY FS_CardinalityType DEF Searchable
<1>1. \A n \in Nat : /\ after[n + 1] = SearchStep(K, E, own, order, after[n])
                     /\ IsSearch(after[n], V, F) /\ SearchOK(after[n], own, F)
  BY SearchSteps
<1> HIDE DEF after
<1>2. \A n \in Nat : Progress(after[n]) \in Nat
  <2>1. ASSUME NEW n \in Nat
        PROVE  Progress(after[n]) \in Nat
    <3>1. IsSearch(after[n], V, F)
      BY <1>1
    <3>2. /\ Cardinality(Entered(after[n])) \in Nat /\ Cardinality(after[n].done) \in Nat
          /\ Cardinality(DOMAIN after[n].memo) \in Nat
      BY <1>0, <3>1, ProgressType
    <3> QED BY <3>2 DEF Progress
  <2> QED BY <2>1
<1>3. 0 \in Good
  BY <1>2
<1>4. ASSUME NEW n \in Good
      PROVE  n + 1 \in Good
  <2> DEFINE s == after[n]
             t == after[n + 1]
  <2>1. n \in Nat /\ (K \subseteq DOMAIN s.memo \/ Progress(s) >= n)
    OBVIOUS
  <2>2. t = SearchStep(K, E, own, order, s) /\ IsSearch(s, V, F) /\ SearchOK(s, own, F)
    BY <1>1, <2>1
  <2> HIDE DEF s, t, V, F
  <2>3. Advances(s, t) \/ (t = s /\ K \subseteq DOMAIN s.memo)
    BY <2>2, StepOK DEF V, F
  <2>4. CASE t = s /\ K \subseteq DOMAIN s.memo
    BY <2>1, <2>4 DEF t
  <2>5. CASE Advances(s, t)
    <3>1. Progress(t) = Progress(s) + 1
      BY <1>0, <2>2, <2>5, AdvancesByOne DEF V, F
    <3>2. DOMAIN s.memo \subseteq DOMAIN t.memo
      BY <2>5 DEF Advances
    <3>3. Progress(s) \in Nat
      BY <1>2, <2>1 DEF s
    <3>4. K \subseteq DOMAIN t.memo \/ Progress(t) >= n + 1
      BY <2>1, <3>1, <3>2, <3>3
    <3> QED BY <2>1, <3>4 DEF t
  <2> QED BY <2>3, <2>4, <2>5
<1>5. \A n \in Nat : n \in Good
  <2>1. Good \in SUBSET Nat
    OBVIOUS
  <2> HIDE DEF Good
  <2> QED BY <1>3, <1>4, <2>1, SetInduction
<1>6. N \in Nat
  BY <1>0
<1>7. K \subseteq DOMAIN after[N].memo
  <2> DEFINE s == after[N]
             a == Cardinality(Entered(s))
             b == Cardinality(s.done)
             c == Cardinality(DOMAIN s.memo)
             v == Cardinality(V)
             k == Cardinality(K)
             e == Cardinality(E)
  <2>1. IsSearch(s, V, F)
    BY <1>1, <1>6
  <2>2. a \in Nat /\ b \in Nat /\ c \in Nat /\ a <= v /\ b <= e /\ c <= v
    BY <1>0, <2>1, ProgressType
  <2>3. IsFiniteSet(V) /\ v \in Nat /\ v <= k + e
    BY <1>0, NodesFinite
  <2>4. K \subseteq DOMAIN s.memo \/ a + b + c >= 2 * k + 3 * e
    BY <1>5, <1>6 DEF Progress
  <2>5. CASE a + b + c >= 2 * k + 3 * e
    <3>1. c = v
      <4> HIDE DEF a, b, c, v, k, e
      <4>1. k \in Nat /\ e \in Nat
        BY <1>0 DEF k, e
      <4> QED BY <2>2, <2>3, <2>5, <4>1
    <3>2. DOMAIN s.memo \in SUBSET V
      BY <2>1 DEF IsSearch
    <3>3. DOMAIN s.memo = V
      <4> HIDE DEF s, V
      <4>1. Cardinality(DOMAIN s.memo) = Cardinality(V)
        BY <3>1
      <4> QED BY <2>3, <3>2, <4>1, FS_Subset
    <3> QED BY <3>3 DEF Nodes
  <2> QED BY <2>4, <2>5
<1> QED BY <1>1, <1>6, <1>7 DEF after

\* What propagateRisk says of the listed assets, in whatever order they and
\* their edges are listed: a score no less than its own and those of direct
\* dependencies, and the asset it comes from.  Off the cycles it is the worst
\* of its own and those said of the dependencies.
LEMMA RiskFacts ==
  ASSUME NEW K, NEW E, NEW own, NEW order, Searchable(K, E, own, order), NEW k \in K
  PROVE  LET risks == propagateRisk(K, E, own, order)
             r == risks[k]
             F == From(K, E)
         IN  /\ r.impact \in Nat /\ r.impact >= own[k]
             /\ r.inherited <=> r.impact > own[k]
             /\ Explains(own, F, k, r.impact, r.cause)
             /\ \A e \in F : e.from = k => r.impact >= own[e.to]
             /\ ~OnCycle(k, F) =>
                  /\ \A e \in F : e.from = k => r.impact >= risks[e.to].impact
                  /\ r.impact = own[k] \/ \E e \in F : e.from = k /\ r.impact = risks[e.to].impact
<1> DEFINE F == From(K, E)
           s == Search(K, E, own, order)[2 * Cardinality(K) + 3 * Cardinality(E)]
           r == s.memo[k]
<1>1. IsSearch(s, Nodes(K, E), F) /\ SearchOK(s, own, F) /\ K \subseteq DOMAIN s.memo
  BY SearchEnds
<1>2. propagateRisk(K, E, own, order) = s.memo
  BY DEF propagateRisk
<1> HIDE DEF s, F
<1>3. k \in DOMAIN s.memo /\ r \in Results(Nodes(K, E))
  BY <1>1 DEF IsSearch
<1>4. r.impact \in Nat
  BY <1>3 DEF Results
<1>5. /\ Settles(s.done, s.memo, own, F, k, r.impact, r.cause)
      /\ r.inherited <=> r.impact > own[k]
      /\ \A e \in F : e.from = k => e \in s.done
  BY <1>1, <1>3 DEF SearchOK
<1>6. s.done \subseteq F
  BY <1>1 DEF IsSearch
<1>7. r.impact >= own[k] /\ Explains(own, F, k, r.impact, r.cause)
      /\ \A e \in F : e.from = k => r.impact >= own[e.to]
  BY <1>5 DEF Settles
<1>8. ASSUME ~OnCycle(k, F)
      PROVE  /\ \A e \in F : e.from = k => r.impact >= s.memo[e.to].impact
             /\ r.impact = own[k] \/ \E e \in F : e.from = k /\ r.impact = s.memo[e.to].impact
  BY <1>5, <1>6, <1>8 DEF Settles
<1> QED BY <1>2, <1>4, <1>5, <1>7, <1>8 DEF F

-----------------------------------------------------------------------------
(* Impact.                                                                 *)

\* The scores of the findings of a key.
OwnScores(F, S, k) == {S[f] : f \in {x \in DOMAIN F \cap DOMAIN S : x[1] = k}}

\* A table of findings with scores that are numbers.
Scores(F, S) == IsFiniteSet(DOMAIN F) /\ \A f \in DOMAIN F \cap DOMAIN S : S[f] \in Nat

\* Lists impact can be computed from.
Computable(A, F, S, E, order) ==
  /\ IsFiniteSet(DOMAIN A) /\ IsFiniteSet(E) /\ Scores(F, S)
  /\ Len(order.assets) \in Nat /\ Len(order.edges) \in Nat

\* The own score of a key is the highest of its findings, or none.
LEMMA OwnFacts ==
  ASSUME NEW F, NEW S, Scores(F, S), NEW k
  PROVE  /\ ownScore(F, S, k) \in Nat /\ ownScore(F, S, k) \in OwnScores(F, S, k) \cup {0}
         /\ \A f \in DOMAIN F \cap DOMAIN S : f[1] = k => S[f] <= ownScore(F, S, k)
<1> DEFINE P == {x \in DOMAIN F \cap DOMAIN S : x[1] = k}
<1>1. IsFiniteSet(P)
  BY FS_Subset DEF Scores
<1>2. IsFiniteSet({S[x] : x \in P})
  <2> HIDE DEF P
  <2> QED BY <1>1, FiniteImage
<1>3. OwnScores(F, S, k) \in SUBSET Nat /\ IsFiniteSet(OwnScores(F, S, k))
  BY <1>2 DEF Scores, OwnScores
<1>4. ownScore(F, S, k) = MaxOf(OwnScores(F, S, k))
  BY DEF ownScore, OwnScores
<1>5. \A f \in DOMAIN F \cap DOMAIN S : f[1] = k => S[f] \in OwnScores(F, S, k)
  BY DEF OwnScores
<1> QED BY <1>3, <1>4, <1>5, MaxOfFacts

\* Rows of impact that are right for some lists: none is less than the own
\* score or those of direct dependencies, and each names where it comes from;
\* off the cycles it is the worst of the own score and of the rows of the
\* dependencies.
Rates(imp, A, F, S, E) ==
  LET followed == From(DOMAIN A, E)
  IN  /\ DOMAIN imp = DOMAIN A
      /\ \A k \in DOMAIN A :
           LET row == imp[k]
               own == ownScore(F, S, k)
           IN  /\ row.asset = A[k].name /\ row.ownScore = own
               /\ row.impactScore \in Nat /\ row.impactScore >= own
               /\ row.inherited <=> row.impactScore > own
               /\ \A e \in E : e.from = k => row.impactScore >= ownScore(F, S, e.to)
               /\ row.impactScore = 0 => row.rootCause = {}
               /\ row.impactScore # 0 =>
                    \E x \in Reach({k}, followed) :
                      ownScore(F, S, x) = row.impactScore /\ row.rootCause = {NameIn(A, x)}
               /\ ~OnCycle(k, followed) /\ (\A e \in E : e.from = k => e.to \in DOMAIN A) =>
                    /\ \A e \in E : e.from = k => row.impactScore >= imp[e.to].impactScore
                    /\ \/ row.impactScore = own
                       \/ \E e \in E : e.from = k /\ row.impactScore = imp[e.to].impactScore

\* What computeImpact answers is right, cycles or not.
LEMMA ImpactFacts ==
  ASSUME NEW A, NEW F, NEW S, NEW E, NEW order, Computable(A, F, S, E, order)
  PROVE  Rates(computeImpact(A, F, S, E, order), A, F, S, E)
<1> DEFINE K == DOMAIN A
           own == [x \in K \cup {e.to : e \in E} |-> ownScore(F, S, x)]
           G == From(K, E)
           risks == propagateRisk(K, E, own, order)
           imp == computeImpact(A, F, S, E, order)
           Row(x) == [asset |-> A[x].name, ownScore |-> own[x], impactScore |-> risks[x].impact,
                      inherited |-> risks[x].inherited,
                      rootCause |-> {NameIn(A, y) : y \in risks[x].cause}]
<1>1. imp = [x \in K |-> Row(x)]
  BY DEF computeImpact
<1>2. own \in [Nodes(K, E) -> Nat] /\ \A x \in Nodes(K, E) : own[x] = ownScore(F, S, x)
  <2>1. \A x : ownScore(F, S, x) \in Nat
    BY OwnFacts DEF Computable
  <2> QED BY <2>1 DEF Nodes
<1>3. Searchable(K, E, own, order)
  BY <1>2 DEF Computable, Searchable
<1>4. IsFiniteSet(E) /\ G \subseteq E
  BY DEF Computable, From
<1> HIDE DEF own, imp, risks
<1>5. ASSUME NEW k \in K
      PROVE  LET row == imp[k]
             IN  /\ row.asset = A[k].name /\ row.ownScore = ownScore(F, S, k)
                 /\ row.impactScore \in Nat /\ row.impactScore >= ownScore(F, S, k)
                 /\ row.inherited <=> row.impactScore > ownScore(F, S, k)
                 /\ \A e \in E : e.from = k => row.impactScore >= ownScore(F, S, e.to)
                 /\ row.impactScore = 0 => row.rootCause = {}
                 /\ row.impactScore # 0 =>
                      \E x \in Reach({k}, G) :
                        ownScore(F, S, x) = row.impactScore /\ row.rootCause = {NameIn(A, x)}
                 /\ ~OnCycle(k, G) /\ (\A e \in E : e.from = k => e.to \in K) =>
                      /\ \A e \in E : e.from = k => row.impactScore >= imp[e.to].impactScore
                      /\ \/ row.impactScore = ownScore(F, S, k)
                         \/ \E e \in E : e.from = k /\ row.impactScore = imp[e.to].impactScore
  <2> DEFINE r == risks[k]
  <2>1. /\ r.impact \in Nat /\ r.impact >= own[k]
        /\ r.inherited <=> r.impact > own[k]
        /\ Explains(own, G, k, r.impact, r.cause)
        /\ \A e \in G : e.from = k => r.impact >= own[e.to]
        /\ ~OnCycle(k, G) =>
             /\ \A e \in G : e.from = k => r.impact >= risks[e.to].impact
             /\ r.impact = own[k] \/ \E e \in G : e.from = k /\ r.impact = risks[e.to].impact
    BY <1>3, RiskFacts DEF risks
  <2>2. \A x \in K : /\ imp[x].asset = A[x].name /\ imp[x].ownScore = own[x]
                     /\ imp[x].impactScore = risks[x].impact /\ imp[x].inherited = risks[x].inherited
                     /\ imp[x].rootCause = {NameIn(A, y) : y \in risks[x].cause}
    BY <1>1
  <2>3. k \in Nodes(K, E) /\ own[k] = ownScore(F, S, k)
    BY <1>2 DEF Nodes
  <2>4. \A e \in E : e.from = k => e \in G /\ own[e.to] = ownScore(F, S, e.to)
    BY <1>2 DEF From, Nodes
  <2>5. ASSUME r.impact = 0
        PROVE  imp[k].rootCause = {}
    BY <2>1, <2>2, <2>5 DEF Explains
  <2>6. ASSUME r.impact # 0
        PROVE  \E x \in Reach({k}, G) : ownScore(F, S, x) = r.impact /\ imp[k].rootCause = {NameIn(A, x)}
    <3>1. PICK x \in Reach({k}, G) : own[x] = r.impact /\ r.cause = {x}
      BY <2>1, <2>6 DEF Explains
    <3>2. x \in Nodes(K, E)
      <4>1. IsFiniteSet(G)
        <5> HIDE DEF G
        <5> QED BY <1>4, FS_Subset
      <4>2. x = k \/ \E e \in G : e.to = x
        <5> HIDE DEF G
        <5> QED BY <4>1, ReachFinite
      <4> QED BY <1>4, <2>3, <4>2 DEF Nodes
    <3>3. imp[k].rootCause = {NameIn(A, x)}
      BY <2>2, <3>1
    <3> QED BY <1>2, <3>1, <3>2, <3>3
  <2>7. ASSUME ~OnCycle(k, G), \A e \in E : e.from = k => e.to \in K
        PROVE  /\ \A e \in E : e.from = k => r.impact >= imp[e.to].impactScore
               /\ \/ r.impact = own[k]
                  \/ \E e \in E : e.from = k /\ r.impact = imp[e.to].impactScore
    <3>1. \A e \in G : e.from = k => imp[e.to].impactScore = risks[e.to].impact
      BY <1>4, <2>2, <2>7
    <3> HIDE DEF G
    <3> QED BY <1>4, <2>1, <2>4, <2>7, <3>1
  <2> HIDE DEF G
  <2>8. imp[k].impactScore = r.impact /\ imp[k].inherited = r.inherited /\ imp[k].asset = A[k].name
        /\ imp[k].ownScore = own[k]
    BY <2>2
  <2> HIDE DEF r
  <2>9. /\ imp[k].asset = A[k].name /\ imp[k].ownScore = ownScore(F, S, k)
        /\ imp[k].impactScore \in Nat /\ imp[k].impactScore >= ownScore(F, S, k)
        /\ imp[k].inherited <=> imp[k].impactScore > ownScore(F, S, k)
        /\ \A e \in E : e.from = k => imp[k].impactScore >= ownScore(F, S, e.to)
    BY <2>1, <2>3, <2>4, <2>8
  <2>10. /\ imp[k].impactScore = 0 => imp[k].rootCause = {}
         /\ imp[k].impactScore # 0 =>
              \E x \in Reach({k}, G) :
                ownScore(F, S, x) = imp[k].impactScore /\ imp[k].rootCause = {NameIn(A, x)}
    BY <2>5, <2>6, <2>8
  <2>11. ~OnCycle(k, G) /\ (\A e \in E : e.from = k => e.to \in K) =>
           /\ \A e \in E : e.from = k => imp[k].impactScore >= imp[e.to].impactScore
           /\ \/ imp[k].impactScore = ownScore(F, S, k)
              \/ \E e \in E : e.from = k /\ imp[k].impactScore = imp[e.to].impactScore
    BY <2>3, <2>7, <2>8
  <2> QED BY <2>9, <2>10, <2>11
<1>6. DOMAIN imp = K
  BY <1>1
<1> HIDE DEF G
<1> QED BY <1>5, <1>6 DEF imp, G, Rates

\* Where nothing an asset reaches lies on a cycle, its impact is the worst own
\* score of all it reaches, in whatever order the search of propagateRisk meets
\* them, for any finite graph and any scores.
THEOREM ImpactIsTheWorst ==
  ASSUME NEW A, NEW F, NEW S, NEW E, NEW order, Computable(A, F, S, E, order),
         \A e \in E : {e.from, e.to} \subseteq DOMAIN A,
         NEW k \in DOMAIN A, \A x \in Reach({k}, E) : ~OnCycle(x, E)
  PROVE  LET top == computeImpact(A, F, S, E, order)[k].impactScore
         IN  /\ \A x \in Reach({k}, E) : ownScore(F, S, x) <= top
             /\ \E x \in Reach({k}, E) : ownScore(F, S, x) = top
<1> DEFINE imp == computeImpact(A, F, S, E, order)
           top(x) == imp[x].impactScore
<1>0. From(DOMAIN A, E) = E /\ IsFiniteSet(E) /\ \A x : ownScore(F, S, x) \in Nat
  BY OwnFacts DEF From, Computable
<1>1. ASSUME NEW x \in DOMAIN A
      PROVE  /\ top(x) \in Nat /\ top(x) >= ownScore(F, S, x)
             /\ top(x) # 0 => \E y \in Reach({x}, E) : ownScore(F, S, y) = top(x)
             /\ ~OnCycle(x, E) => \A e \in E : e.from = x => top(x) >= top(e.to)
  <2>1. Rates(imp, A, F, S, E)
    BY ImpactFacts
  <2> HIDE DEF imp
  <2> QED BY <1>0, <2>1 DEF Rates
<1> HIDE DEF imp
<1> DEFINE C == {x \in DOMAIN A : x \in Reach({k}, E) /\ top(x) <= top(k)}
<1>2. Reach({k}, E) \subseteq C
  <2>1. k \in C
    <3>1. k \in Reach({k}, E)
      BY <1>0, ReachUnfold
    <3>2. top(k) \in Nat
      BY <1>1
    <3> HIDE DEF top
    <3> QED BY <3>1, <3>2
  <2>2. ASSUME NEW e \in E, e.from \in C
        PROVE  e.to \in C
    <3>1. e.to \in Reach({k}, E) /\ e.to \in DOMAIN A /\ e.from \in DOMAIN A
      BY <1>0, <2>2, ReachClosed
    <3>2. ~OnCycle(e.from, E)
      BY <2>2
    <3>3. top(e.from) >= top(e.to)
      BY <1>1, <3>1, <3>2
    <3>4. top(e.from) \in Nat /\ top(e.to) \in Nat /\ top(k) \in Nat /\ top(e.from) <= top(k)
      BY <1>1, <2>2, <3>1
    <3>5. top(e.to) <= top(k)
      BY <3>3, <3>4
    <3> QED BY <3>1, <3>5
  <2>3. {k} \subseteq C
    BY <2>1
  <2> HIDE DEF C
  <2> QED BY <1>0, <2>2, <2>3, ReachLeast
<1>3. ASSUME NEW x \in Reach({k}, E)
      PROVE  ownScore(F, S, x) <= top(k)
  <2>1. x \in DOMAIN A /\ top(x) <= top(k)
    BY <1>2
  <2>2. top(x) \in Nat /\ top(k) \in Nat /\ top(x) >= ownScore(F, S, x)
    BY <1>1, <2>1
  <2> QED BY <1>0, <2>1, <2>2
<1>4. \E x \in Reach({k}, E) : ownScore(F, S, x) = top(k)
  <2>1. CASE top(k) # 0
    BY <1>1, <2>1
  <2>2. CASE top(k) = 0
    <3>1. k \in Reach({k}, E)
      BY <1>0, ReachUnfold
    <3>2. ownScore(F, S, k) <= top(k) /\ ownScore(F, S, k) \in Nat
      BY <1>0, <1>3, <3>1
    <3> QED BY <2>2, <3>1, <3>2
  <2> QED BY <2>1, <2>2
<1> QED BY <1>3, <1>4 DEF imp

-----------------------------------------------------------------------------
(* What the connectors find.                                               *)

\* A software component has the name in its key.
NamedAsKey(k, name) == TypeOf(k) = "software_component" => name = k[2]

\* What a connector finds: edges and findings are of its own assets, and a
\* service has no findings and nothing depends on it.
ShapeOK(s) ==
  /\ Len(s.assets) \in Nat
  /\ \A i \in 1..Len(s.assets) :
       s.assets[i].criticality \in Criticalities /\ NamedAsKey(s.assets[i].key, s.assets[i].name)
  /\ s.findings \in Seq(ToSet(s.findings))
  /\ \A x \in ToSet(s.findings) :
       x.on \in KeysOf(s.assets) /\ TypeOf(x.on) # "service" /\ x.severity \in Severities
  /\ IsFiniteSet(s.edges)
  /\ \A e \in s.edges : e.from \in KeysOf(s.assets) /\ TypeOf(e.to) # "service"

\* All edges are from the first asset to others of the scan.
Rooted(s) == \A e \in s.edges : e.from = s.assets[1].key /\ e.to \in KeysOf(s.assets)

\* A manifest links each reference to assets that are stored and match, or
\* reports it if none does.
Linked(s, entries) ==
  /\ \A k \in KeysOf(s.assets) : TypeOf(k) = "service"
  /\ s.findings = <<>>
  /\ \A e \in s.edges : e.to \in DOMAIN assets
  /\ \A i \in 1..Len(entries) : \A r \in RefsOf(entries[i]) :
       LET x == [from |-> Service(entries[i].key), ref |-> r]
       IN  IF x \in s.unresolved THEN \A k \in DOMAIN assets : ~Matches(k, x)
           ELSE \E k \in DOMAIN assets : Matches(k, x) /\ Edge(x.from, k, r.type) \in s.edges

\* One item before a list.
LEMMA HeadAndRest ==
  ASSUME NEW root, NEW n \in Nat, NEW f, f = [i \in 1..n |-> f[i]]
  PROVE  /\ Len(<<root>> \o f) = n + 1 /\ (<<root>> \o f)[1] = root
         /\ \A i \in 1..n : (<<root>> \o f)[i + 1] = f[i]
<1> DEFINE S == {root} \cup {f[i] : i \in 1..n}
<1>1. <<root>> \in Seq(S) /\ Len(<<root>>) = 1 /\ <<root>>[1] = root
  OBVIOUS
<1>2. f \in Seq(S) /\ Len(f) = n
  <2>1. f \in [1..n -> S]
    OBVIOUS
  <2> QED BY <2>1
<1> HIDE DEF S
<1>3. /\ Len(<<root>> \o f) = 1 + n
      /\ \A i \in 1..1 : (<<root>> \o f)[i] = <<root>>[i]
      /\ \A i \in 1..n : (<<root>> \o f)[1 + i] = f[i]
  BY <1>1, <1>2, Joined
<1>4. (<<root>> \o f)[1] = root
  BY <1>1, <1>3
<1> HIDE <1>1, <1>2
<1>5. ASSUME NEW i \in 1..n
      PROVE  (<<root>> \o f)[i + 1] = f[i]
  <2>1. 1 + i = i + 1
    OBVIOUS
  <2> QED BY <1>3, <2>1
<1> QED BY <1>3, <1>4, <1>5

\* A set of findings on some keys, and lists of such findings.
FindingsOn(keys, Q) ==
  [on : {k \in keys : TypeOf(k) # "service"}, source : Q, severity : Severities]

\* A list is one of what is in it.
LEMMA ListShape ==
  ASSUME NEW S, NEW t \in Seq(S)
  PROVE  t \in Seq(ToSet(t)) /\ ToSet(t) \subseteq S
<1>1. Len(t) \in Nat /\ t \in [1..Len(t) -> S] /\ DOMAIN t = 1..Len(t)
  OBVIOUS
<1>2. t \in [1..Len(t) -> ToSet(t)] /\ ToSet(t) \subseteq S
  BY <1>1 DEF ToSet
<1> QED BY <1>1, <1>2

\* A list of findings on the assets of a scan is as ShapeOK wants it.
LEMMA FindingsShape ==
  ASSUME NEW s, NEW Q, s.findings \in Seq(FindingsOn(KeysOf(s.assets), Q))
  PROVE  /\ s.findings \in Seq(ToSet(s.findings))
         /\ \A x \in ToSet(s.findings) :
              x.on \in KeysOf(s.assets) /\ TypeOf(x.on) # "service" /\ x.severity \in Severities
<1>1. s.findings \in Seq(ToSet(s.findings)) /\ ToSet(s.findings) \subseteq FindingsOn(KeysOf(s.assets), Q)
  BY ListShape
<1>2. \A x \in FindingsOn(KeysOf(s.assets), Q) :
        x.on \in KeysOf(s.assets) /\ TypeOf(x.on) # "service" /\ x.severity \in Severities
  BY DEF FindingsOn
<1> QED BY <1>1, <1>2

\* A root and the assets listed after it, with an edge to each.
StarKeys(root, f) == {root.key} \cup {f[i].key : i \in DOMAIN f}
Star(root, f, type) == {Edge(root.key, f[i].key, type) : i \in DOMAIN f}

\* A scan of a root, what hangs on it, and findings on these, is whole.
LEMMA StarShape ==
  ASSUME NEW root, NEW n \in Nat, NEW f, f = [i \in 1..n |-> f[i]],
         root.criticality \in Criticalities, NamedAsKey(root.key, root.name),
         \A i \in 1..n : /\ f[i].criticality \in Criticalities /\ NamedAsKey(f[i].key, f[i].name)
                         /\ TypeOf(f[i].key) # "service",
         NEW s, s.assets = <<root>> \o f, NEW type, s.edges = Star(root, f, type),
         NEW Q, s.findings \in Seq(FindingsOn(StarKeys(root, f), Q))
  PROVE  ShapeOK(s) /\ Rooted(s)
<1>1. /\ Len(s.assets) = n + 1 /\ s.assets[1] = root
      /\ \A i \in 1..n : s.assets[i + 1] = f[i]
  BY HeadAndRest
<1>2. ASSUME NEW j \in 1..(n + 1)
      PROVE  j = 1 \/ \E i \in 1..n : j = i + 1
  <2>1. CASE j = 1
    BY <2>1
  <2>2. CASE j # 1
    <3>1. j - 1 \in 1..n /\ j = (j - 1) + 1
      BY <2>2
    <3> QED BY <3>1
  <2> QED BY <2>1, <2>2
<1>3. \A i \in 1..n : i + 1 \in 1..(n + 1)
  OBVIOUS
<1>4. 1 \in 1..(n + 1) /\ n + 1 \in Nat /\ DOMAIN f = 1..n
  OBVIOUS
<1>5. KeysOf(s.assets) = StarKeys(root, f)
  <2>1. StarKeys(root, f) \subseteq KeysOf(s.assets)
    <3>1. root.key \in KeysOf(s.assets)
      BY <1>1, <1>4 DEF KeysOf
    <3>2. ASSUME NEW i \in 1..n
          PROVE  f[i].key \in KeysOf(s.assets)
      BY <1>1, <1>3 DEF KeysOf
    <3> QED BY <1>4, <3>1, <3>2 DEF StarKeys
  <2>2. KeysOf(s.assets) \subseteq StarKeys(root, f)
    <3>1. ASSUME NEW j \in 1..(n + 1)
          PROVE  s.assets[j].key \in StarKeys(root, f)
      <4>1. CASE j = 1
        BY <1>1, <4>1 DEF StarKeys
      <4>2. CASE j # 1
        <5>1. PICK i \in 1..n : j = i + 1
          BY <1>2, <4>2
        <5> QED BY <1>1, <1>4, <5>1 DEF StarKeys
      <4> QED BY <4>1, <4>2
    <3> QED BY <1>1, <3>1 DEF KeysOf
  <2> QED BY <2>1, <2>2
<1>6. \A j \in 1..Len(s.assets) :
        s.assets[j].criticality \in Criticalities /\ NamedAsKey(s.assets[j].key, s.assets[j].name)
  BY <1>1, <1>2
<1>7. IsFiniteSet(s.edges)
  <2> DEFINE P == 1..n
             g == [i \in P |-> Edge(root.key, f[i].key, type)]
  <2>1. IsFiniteSet(P)
    <3>1. 1 \in Int /\ n \in Int
      OBVIOUS
    <3> QED BY <3>1, FS_Interval
  <2>2. IsFiniteSet({g[i] : i \in P})
    <3> HIDE DEF g, P
    <3> QED BY <2>1, FiniteImage
  <2>3. s.edges = {g[i] : i \in P}
    BY <1>4 DEF Star
  <2> QED BY <2>2, <2>3
<1>8. \A e \in s.edges : /\ e.from = s.assets[1].key /\ e.from \in KeysOf(s.assets)
                          /\ e.to \in KeysOf(s.assets) /\ TypeOf(e.to) # "service"
  <2>1. ASSUME NEW e \in s.edges
        PROVE  e.from = root.key /\ \E i \in 1..n : e.to = f[i].key
    BY <1>4 DEF Edge, Star
  <2> QED BY <1>1, <1>4, <1>5, <2>1 DEF StarKeys
<1>9. s.findings \in Seq(FindingsOn(KeysOf(s.assets), Q))
  BY <1>5
<1>10. Rooted(s)
  BY <1>8 DEF Rooted
<1> QED BY <1>1, <1>4, <1>6, <1>7, <1>8, <1>9, <1>10, FindingsShape DEF ShapeOK

\* A package and its dependencies.
LEMMA PackageShape ==
  ASSUME NEW pkg, IsPackage(pkg)
  PROVE  ShapeOK(buildScan(pkg)) /\ Rooted(buildScan(pkg))
<1> DEFINE deps == pkg.dependencies \o pkg.devDependencies \o pkg.optionalDependencies
           installed == resolveInstalledVersions(pkg.lockfiles)
           version(d) == IF d.name \in DOMAIN installed THEN installed[d.name] ELSE cleanVersion(d.range)
           kept == ItemsAt(deps, {i \in 1..Len(deps) : version(deps[i]) # NoVersion})
           root == Package(Default(pkg.name, "application"), Default(pkg.version, "0.0.0"))
           key(i) == Package(kept[i].name, version(kept[i]))
           n == Len(kept)
           f == [i \in 1..n |-> Asset(key(i), kept[i].name, "MEDIUM")]
           s == buildScan(pkg)
           first == Asset(root, root[2], "HIGH")
<1>1. /\ s.assets = <<first>> \o f
      /\ s.edges = {Edge(root, key(i), "depends_on") : i \in 1..n}
      /\ s.findings = <<>>
  BY DEF buildScan
<1>2. Len(deps) \in Nat
  <2> DEFINE D == [name : STRING, range : Seq(STRING)]
  <2>1. pkg.dependencies \in Seq(D) /\ pkg.devDependencies \in Seq(D) /\ pkg.optionalDependencies \in Seq(D)
    BY DEF IsPackage
  <2> HIDE DEF D
  <2>2. pkg.dependencies \o pkg.devDependencies \in Seq(D)
    BY <2>1, Joined
  <2>3. deps \in Seq(D)
    BY <2>1, <2>2, Joined
  <2> HIDE DEF deps
  <2> QED BY <2>3
<1>3. n \in Nat
  <2> DEFINE P == {i \in 1..Len(deps) : version(deps[i]) # NoVersion}
  <2>1. P \in SUBSET (1..Len(deps))
    OBVIOUS
  <2> HIDE DEF P, deps
  <2>2. Cardinality(P) \in Nat /\ Len(ItemsAt(deps, P)) = Cardinality(P)
    BY <1>2, <2>1, ItemsSelected
  <2> QED BY <2>2 DEF P
<1> HIDE DEF n, kept, s
<1>4. /\ f = [i \in 1..n |-> f[i]]
      /\ \A i \in 1..n : /\ f[i].criticality \in Criticalities /\ f[i].key = key(i)
                         /\ NamedAsKey(f[i].key, f[i].name) /\ TypeOf(f[i].key) # "service"
  BY DEF Asset, Criticalities, NamedAsKey, Package, TypeOf
<1>5. first.criticality \in Criticalities /\ first.key = root /\ NamedAsKey(first.key, first.name)
  BY DEF Asset, Criticalities, NamedAsKey
<1>6. s.edges = Star(first, f, "depends_on")
  BY <1>1, <1>4, <1>5 DEF Star
<1>7. s.findings \in Seq(FindingsOn(StarKeys(first, f), {}))
  BY <1>1
<1> HIDE DEF f, first
<1> QED BY <1>1, <1>3, <1>4, <1>5, <1>6, <1>7, StarShape DEF s

\* Joining four lists, of which each may be a single item or none.
LEMMA JoinedFour ==
  ASSUME NEW S, NEW a \in Seq(S), NEW b \in Seq(S), NEW c \in Seq(S), NEW d \in Seq(S)
  PROVE  a \o b \o c \o d \in Seq(S)
<1>1. a \o b \in Seq(S)
  BY Joined
<1>2. a \o b \o c \in Seq(S)
  BY <1>1, Joined
<1> QED BY <1>2, Joined

\* Each list of findings is of assets of the scan.
LEMMA WhenShape ==
  ASSUME NEW S, NEW x \in S, NEW condition
  PROVE  When(condition, x) \in Seq(S)
BY DEF When

\* A finding on an asset that is no service.
LEMMA FindingShape ==
  ASSUME NEW keys, NEW k \in keys, TypeOf(k) # "service", NEW Q, NEW source \in Q,
         NEW severity \in Severities
  PROVE  Finding(k, source, severity) \in FindingsOn(keys, Q)
BY DEF Finding, FindingsOn

\* A stack and its resources.
LEMMA PlanShape ==
  ASSUME NEW plan, IsPlan(plan)
  PROVE  ShapeOK(toScan(plan)) /\ Rooted(toScan(plan))
<1> DEFINE resources == collectResources(plan.modules)
           name == Default(plan.stackName, "terraform-stack")
           stack == Resource(StackId(name))
           n == Len(resources)
           f == [i \in 1..n |-> Asset(Resource(resources[i].address), resources[i].address, "MEDIUM")]
           evaluated == [i \in 1..n |-> evaluateIac(resources[i])]
           s == toScan(plan)
           first == Asset(stack, name, "HIGH")
           keys == StarKeys(first, f)
           Q == {<<"IAC-S3-PUBLIC-ACL">>, <<"IAC-SG-OPEN-INGRESS">>, <<"IAC-PUBLIC-ACCESS">>,
                 <<"IAC-NO-ENCRYPTION">>}
<1>1. /\ s.assets = <<first>> \o f
      /\ s.edges = {Edge(stack, Resource(resources[i].address), "contains") : i \in 1..n}
      /\ s.findings = FlattenSeq(evaluated)
  BY DEF toScan
<1>2. n \in Nat
  <2> DEFINE R == [address : STRING, type : STRING, acl : STRING, ingress : Seq(SUBSET STRING),
                   public : BOOLEAN, unencrypted : BOOLEAN]
  <2>1. plan.modules \in Seq(Seq(R))
    BY DEF IsPlan
  <2>2. resources \in Seq(R)
    <3> HIDE DEF R
    <3> QED BY <2>1, Flattened DEF collectResources
  <2> HIDE DEF resources, R
  <2> QED BY <2>2
<1> HIDE DEF n, resources, s
<1>3. f = [i \in 1..n |-> f[i]] /\ DOMAIN f = 1..n
      /\ \A i \in 1..n : /\ f[i].criticality \in Criticalities /\ f[i].key = Resource(resources[i].address)
                         /\ NamedAsKey(f[i].key, f[i].name) /\ TypeOf(f[i].key) # "service"
  BY DEF Asset, Criticalities, NamedAsKey, Resource, TypeOf
<1>4. first.criticality \in Criticalities /\ first.key = stack /\ NamedAsKey(first.key, first.name)
  BY DEF Asset, Criticalities, NamedAsKey, Resource, TypeOf
<1>5. s.edges = Star(first, f, "contains")
  BY <1>1, <1>3, <1>4 DEF Star
<1>6. ASSUME NEW i \in 1..n
      PROVE  evaluateIac(resources[i]) \in Seq(FindingsOn(keys, Q))
  <2> DEFINE r == resources[i]
             k == Resource(r.address)
             F == FindingsOn(keys, Q)
             a == When(r.type = "aws_s3_bucket" /\ r.acl \in {"public-read", "public-read-write"},
                       Finding(k, <<"IAC-S3-PUBLIC-ACL">>, "HIGH"))
             b == When(r.type = "aws_security_group"
                         /\ "0.0.0.0/0" \in UNION {r.ingress[j] : j \in 1..Len(r.ingress)},
                       Finding(k, <<"IAC-SG-OPEN-INGRESS">>, "HIGH"))
             c == When(r.public, Finding(k, <<"IAC-PUBLIC-ACCESS">>, "HIGH"))
             d == When(r.unencrypted, Finding(k, <<"IAC-NO-ENCRYPTION">>, "MEDIUM"))
  <2>1. k \in keys /\ TypeOf(k) # "service"
    <3>1. k \in keys
      BY <1>3 DEF StarKeys
    <3>2. TypeOf(k) # "service"
      BY DEF TypeOf, Resource
    <3> QED BY <3>1, <3>2
  <2>2. "HIGH" \in Severities /\ "MEDIUM" \in Severities
    BY DEF Severities
  <2>3. /\ Finding(k, <<"IAC-S3-PUBLIC-ACL">>, "HIGH") \in F
        /\ Finding(k, <<"IAC-SG-OPEN-INGRESS">>, "HIGH") \in F
        /\ Finding(k, <<"IAC-PUBLIC-ACCESS">>, "HIGH") \in F
        /\ Finding(k, <<"IAC-NO-ENCRYPTION">>, "MEDIUM") \in F
    <3> HIDE DEF k, keys
    <3> QED BY <2>1, <2>2, FindingShape
  <2> HIDE DEF F
  <2>4. a \in Seq(F) /\ b \in Seq(F) /\ c \in Seq(F) /\ d \in Seq(F)
    BY <2>3, WhenShape
  <2>5. evaluateIac(r) = a \o b \o c \o d
    BY DEF evaluateIac
  <2> HIDE DEF a, b, c, d
  <2>6. a \o b \o c \o d \in Seq(F)
    BY <2>4, JoinedFour
  <2> QED BY <2>5, <2>6 DEF F
<1>7. s.findings \in Seq(FindingsOn(keys, Q))
  <2> DEFINE F == FindingsOn(keys, Q)
             U == Seq(F)
  <2>1. \A i \in 1..n : evaluateIac(resources[i]) \in U
    BY <1>6
  <2> HIDE DEF U, F
  <2>2. evaluated \in Seq(U)
    BY <1>2, <2>1
  <2>3. evaluated \in Seq(Seq(F))
    BY <2>2 DEF U
  <2> HIDE DEF evaluated
  <2>4. FlattenSeq(evaluated) \in Seq(F)
    BY <2>3, Flattened
  <2> QED BY <1>1, <2>4 DEF F
<1> HIDE DEF f, first, Q
<1> QED BY <1>1, <1>2, <1>3, <1>4, <1>5, <1>7, StarShape DEF s

\* A function on the first numbers is a list.
LEMMA ListOf ==
  ASSUME NEW S, NEW n \in Nat, NEW f, f = [i \in 1..n |-> f[i]], \A i \in 1..n : f[i] \in S
  PROVE  f \in Seq(S) /\ Len(f) = n /\ DOMAIN f = 1..n
<1>1. f \in [1..n -> S]
  OBVIOUS
<1> QED BY <1>1

\* What a certificate and an entry give.
LEMMA CertificationShape ==
  ASSUME NEW F, NEW on, NEW cert, NEW time,
         Finding(on, <<"VND-CERT-EXPIRED", cert.type>>, "HIGH") \in F,
         Finding(on, <<"VND-CERT-EXPIRING", cert.type>>, "MEDIUM") \in F
  PROVE  evaluateCertification(on, cert, time) \in Seq(F)
<1>1. <<Finding(on, <<"VND-CERT-EXPIRED", cert.type>>, "HIGH")>> \in Seq(F) /\ <<>> \in Seq(F)
  OBVIOUS
<1>2. \A c : When(c, Finding(on, <<"VND-CERT-EXPIRING", cert.type>>, "MEDIUM")) \in Seq(F)
  BY WhenShape
<1> DEFINE x == Finding(on, <<"VND-CERT-EXPIRED", cert.type>>, "HIGH")
           days == daysBetween(time, cert.expiresAt)
           w == When(days <= EXPIRING_SOON_DAYS, Finding(on, <<"VND-CERT-EXPIRING", cert.type>>, "MEDIUM"))
<1>3. evaluateCertification(on, cert, time) =
        IF cert.expiresAt = NoDate THEN <<>> ELSE IF days < 0 THEN <<x>> ELSE w
  BY DEF evaluateCertification
<1>4. w \in Seq(F)
  BY <1>2
<1> HIDE DEF x, w, days
<1>5. <<x>> \in Seq(F)
  BY <1>1 DEF x
<1> QED BY <1>1, <1>3, <1>4, <1>5, Zenon

\* The findings on a vendor: its certificates, and those it lacks.
LEMMA EntryShape ==
  ASSUME NEW T, NEW C, NEW entry, NEW time, NEW keys, Vendor(entry.domain) \in keys,
         entry.certifications \in Seq([type : T, expiresAt : C]), entry.requiredCertifications \in Seq(T),
         NEW Q, \A w \in {"VND-CERT-EXPIRED", "VND-CERT-EXPIRING", "VND-CERT-MISSING"} :
                  \A t \in T : <<w, t>> \in Q
  PROVE  evaluateVendor(entry, time) \in Seq(FindingsOn(keys, Q))
<1> DEFINE F == FindingsOn(keys, Q)
           on == Vendor(entry.domain)
           certs == entry.certifications
           present == {certs[i].type : i \in 1..Len(certs)}
           required == entry.requiredCertifications
           P == {i \in 1..Len(required) : required[i] \notin present}
           missing == ItemsAt(required, P)
           m == Len(missing)
           first == [i \in 1..Len(certs) |-> evaluateCertification(on, certs[i], time)]
           second == [i \in 1..m |-> Finding(on, <<"VND-CERT-MISSING", missing[i]>>, "HIGH")]
<1>1. evaluateVendor(entry, time) = FlattenSeq(first) \o second
  BY DEF evaluateVendor
<1>2. TypeOf(on) # "service" /\ "HIGH" \in Severities /\ "MEDIUM" \in Severities
  BY DEF TypeOf, Vendor, Severities
<1>3. ASSUME NEW t \in T
      PROVE  /\ Finding(on, <<"VND-CERT-EXPIRED", t>>, "HIGH") \in F
             /\ Finding(on, <<"VND-CERT-EXPIRING", t>>, "MEDIUM") \in F
             /\ Finding(on, <<"VND-CERT-MISSING", t>>, "HIGH") \in F
  <2>1. <<"VND-CERT-EXPIRED", t>> \in Q /\ <<"VND-CERT-EXPIRING", t>> \in Q /\ <<"VND-CERT-MISSING", t>> \in Q
    OBVIOUS
  <2> HIDE DEF on
  <2> QED BY <1>2, <2>1, FindingShape DEF on
<1> HIDE DEF F, on, P
<1>4. Len(certs) \in Nat /\ \A i \in 1..Len(certs) : certs[i].type \in T
  <2> DEFINE R == [type : T, expiresAt : C]
  <2>1. certs \in Seq(R) /\ \A c \in R : c.type \in T
    OBVIOUS
  <2> HIDE DEF R, certs
  <2> QED BY <2>1
<1>5. FlattenSeq(first) \in Seq(F)
  <2> DEFINE U == Seq(F)
  <2>1. \A i \in 1..Len(certs) : evaluateCertification(on, certs[i], time) \in U
    BY <1>3, <1>4, CertificationShape
  <2>2. first = [i \in 1..Len(certs) |-> first[i]] /\ \A i \in 1..Len(certs) : first[i] \in U
    BY <2>1
  <2> HIDE DEF first, U
  <2>3. first \in Seq(U)
    BY <1>4, <2>2, ListOf
  <2> QED BY <2>3, Flattened DEF U
<1>6. m \in Nat /\ \A i \in 1..m : missing[i] \in T
  <2>1. Len(required) \in Nat /\ P \in SUBSET (1..Len(required)) /\ \A i \in P : required[i] \in T
    BY DEF P
  <2>2. /\ Cardinality(P) \in Nat /\ m = Cardinality(P)
        /\ \A i \in 1..Cardinality(P) : Nth(P, i) \in P /\ missing[i] = required[Nth(P, i)]
    BY <2>1, ItemsSelected
  <2> HIDE DEF missing, required
  <2> QED BY <2>1, <2>2
<1>7. second \in Seq(F)
  <2> HIDE DEF m, missing
  <2>1. second = [i \in 1..m |-> second[i]] /\ \A i \in 1..m : second[i] \in F
    BY <1>3, <1>6
  <2> HIDE DEF second
  <2> QED BY <1>6, <2>1, ListOf
<1> HIDE DEF first, second
<1> QED BY <1>1, <1>5, <1>7, Joined DEF F

\* The vendors of an inventory.
LEMMA InventoryShape ==
  ASSUME NEW entries, IsInventory(entries), NEW time
  PROVE  ShapeOK(scanVendors(entries, time)) /\ scanVendors(entries, time).edges = {}
<1> DEFINE Str == STRING
           E == [name : Str, domain : Str, criticality : Criticalities \cup {Unset},
                 certifications : Seq([type : Str, expiresAt : Int]), requiredCertifications : Seq(Str)]
           n == Len(entries)
           f == [i \in 1..n |-> Asset(Vendor(entries[i].domain), entries[i].name,
                                      Default(entries[i].criticality, "MEDIUM"))]
           evaluated == [i \in 1..n |-> evaluateVendor(entries[i], time)]
           s == scanVendors(entries, time)
           Q == {<<w, t>> : w \in {"VND-CERT-EXPIRED", "VND-CERT-EXPIRING", "VND-CERT-MISSING"}, t \in Str}
           F == FindingsOn(KeysOf(s.assets), Q)
<1>1. entries \in Seq(E)
  BY DEF IsInventory
<1>2. s.assets = f /\ s.edges = {} /\ s.findings = FlattenSeq(evaluated)
  BY DEF scanVendors
<1> HIDE DEF Str, s
<1>3. n \in Nat /\ \A i \in 1..n : entries[i] \in E
  <2> HIDE DEF E
  <2> QED BY <1>1
<1>4. \A i \in 1..n : /\ entries[i].criticality \in Criticalities \cup {Unset}
                      /\ entries[i].certifications \in Seq([type : Str, expiresAt : Int])
                      /\ entries[i].requiredCertifications \in Seq(Str)
  BY <1>3
<1> HIDE DEF n, E
<1>5. \A i \in 1..n : /\ f[i].criticality \in Criticalities /\ f[i].key = Vendor(entries[i].domain)
                      /\ NamedAsKey(f[i].key, f[i].name)
  BY <1>4 DEF Asset, Default, Criticalities, NamedAsKey, Vendor, TypeOf
<1>6. Len(f) = n
  <2>1. f = [i \in 1..n |-> f[i]] /\ \A i \in 1..n : f[i] \in {f[j] : j \in 1..n}
    OBVIOUS
  <2> HIDE DEF f
  <2> QED BY <1>3, <2>1, ListOf
<1> HIDE DEF f
<1>7. ASSUME NEW i \in 1..n
      PROVE  evaluateVendor(entries[i], time) \in Seq(F)
  <2>1. Vendor(entries[i].domain) \in KeysOf(s.assets)
    BY <1>2, <1>5, <1>6 DEF KeysOf
  <2>2. \A w \in {"VND-CERT-EXPIRED", "VND-CERT-EXPIRING", "VND-CERT-MISSING"} : \A t \in Str : <<w, t>> \in Q
    OBVIOUS
  <2> DEFINE I == Int
  <2>3. entries[i].certifications \in Seq([type : Str, expiresAt : I])
    BY <1>4
  <2> HIDE DEF Q, I
  <2> QED BY <1>4, <2>1, <2>2, <2>3, EntryShape
<1> HIDE DEF Q, F
<1>8. s.findings \in Seq(F)
  <2> DEFINE U == Seq(F)
  <2>1. evaluated = [i \in 1..n |-> evaluated[i]] /\ \A i \in 1..n : evaluated[i] \in U
    BY <1>7
  <2> HIDE DEF evaluated, U
  <2>2. evaluated \in Seq(U)
    BY <1>3, <2>1, ListOf
  <2> QED BY <1>2, <2>2, Flattened DEF U
<1>9. IsFiniteSet(s.edges)
  BY <1>2, FS_EmptySet
<1>10. /\ s.findings \in Seq(ToSet(s.findings))
       /\ \A x \in ToSet(s.findings) :
            x.on \in KeysOf(s.assets) /\ TypeOf(x.on) # "service" /\ x.severity \in Severities
  BY <1>8, FindingsShape DEF F
<1>11. /\ Len(s.assets) \in Nat
       /\ \A i \in 1..Len(s.assets) :
            s.assets[i].criticality \in Criticalities /\ NamedAsKey(s.assets[i].key, s.assets[i].name)
  BY <1>2, <1>3, <1>5, <1>6
<1>12. s.edges = {}
  BY <1>2
<1> HIDE DEF evaluated
<1>13. \A e \in s.edges : e.from \in KeysOf(s.assets) /\ TypeOf(e.to) # "service"
  BY <1>12
<1>14. ShapeOK(s)
  BY <1>9, <1>10, <1>11, <1>13, Zenon DEF ShapeOK
<1> QED BY <1>12, <1>14 DEF s

\* What a reference leads to is stored, and is nothing only if none matches.
LEMMA TargetMatches ==
  ASSUME NEW f \in Indexes(assets), NEW from, NEW r
  PROVE  LET T == Target(r.to, r.ref, assets, f)
             x == [from |-> from, ref |-> r]
         IN  /\ \A k \in T : k \in DOMAIN assets /\ Matches(k, x)
             /\ T = {} => \A k \in DOMAIN assets : ~Matches(k, x)
<1> DEFINE T == Target(r.to, r.ref, assets, f)
           x == [from |-> from, ref |-> r]
           key == <<r.to>> \o r.ref
           byName == r.to = "software_component" /\ Len(r.ref) = 1 /\ r.ref[1] \in DOMAIN f
           n == r.ref[1]
<1>1. T = IF key \in DOMAIN assets THEN {key} ELSE IF byName THEN {f[n]} ELSE {}
  BY DEF Target
<1>2. /\ DOMAIN f = Names(assets)
      /\ \A m \in Names(assets) : /\ f[m] \in DOMAIN assets /\ TypeOf(f[m]) = "software_component"
                                  /\ assets[f[m]].name = m
  <2>1. f \in [Names(assets) -> OfType("software_component", assets)]
        /\ \A m \in Names(assets) : assets[f[m]].name = m
    BY DEF Indexes
  <2>2. \A k \in OfType("software_component", assets) : k \in DOMAIN assets /\ TypeOf(k) = "software_component"
    BY DEF OfType
  <2> QED BY <2>1, <2>2
<1>3. \A k \in DOMAIN assets : TypeOf(k) = "software_component" => assets[k].name \in Names(assets)
  BY DEF Names, OfType
<1>4. x.ref = r
  OBVIOUS
<1>5. \A k : Matches(k, x) <=> \/ k = key
                               \/ /\ r.to = "software_component" /\ Len(r.ref) = 1
                                  /\ TypeOf(k) = r.to /\ assets[k].name = n
  BY <1>4 DEF Matches
<1> HIDE DEF T, x, key, n
<1>6. ASSUME NEW k \in T
      PROVE  k \in DOMAIN assets /\ Matches(k, x)
  <2>1. CASE key \in DOMAIN assets
    BY <1>1, <1>5, <2>1
  <2>2. CASE key \notin DOMAIN assets
    <3>1. byName /\ k = f[n]
      BY <1>1, <2>2
    <3>2. n \in Names(assets)
      BY <1>2, <3>1 DEF n
    <3> QED BY <1>2, <1>5, <3>1, <3>2
  <2> QED BY <2>1, <2>2
<1>7. ASSUME T = {}, NEW k \in DOMAIN assets, Matches(k, x)
      PROVE  FALSE
  <2>1. key \notin DOMAIN assets /\ ~ byName
    BY <1>1, <1>7
  <2>2. /\ r.to = "software_component" /\ Len(r.ref) = 1
        /\ TypeOf(k) = r.to /\ assets[k].name = n
    BY <1>5, <1>7, <2>1
  <2>3. n \in DOMAIN f
    BY <1>2, <1>3, <2>2
  <2> QED BY <2>1, <2>2, <2>3 DEF n
<1> QED BY <1>6, <1>7 DEF T, x

\* References are to software, resources and vendors, never to services.
LEMMA RefsAreNotServices ==
  ASSUME NEW entries, IsManifest(entries), NEW i \in 1..Len(entries), NEW r \in RefsOf(entries[i])
  PROVE  r.to # "service" /\ TypeOf(<<r.to>> \o r.ref) = r.to
<1> DEFINE W == Seq(STRING)
           R == [name : STRING, key : STRING, criticality : Criticalities \cup {Unset},
                 dependsOn : Seq(W), hostedOn : Seq(W), providedBy : Seq(W)]
<1>1. entries \in Seq(R)
  BY DEF IsManifest
<1>2. \A e \in R : e.dependsOn \in Seq(W) /\ e.hostedOn \in Seq(W) /\ e.providedBy \in Seq(W)
  <2> HIDE DEF W
  <2> QED OBVIOUS
<1>3. entries[i].dependsOn \in Seq(W) /\ entries[i].hostedOn \in Seq(W) /\ entries[i].providedBy \in Seq(W)
  <2> HIDE DEF R, W
  <2>1. entries[i] \in R
    BY <1>1
  <2> QED BY <1>2, <2>1
<1>4. r.ref \in W
  <2> HIDE DEF W
  <2>1. /\ ToSet(entries[i].dependsOn) \subseteq W /\ ToSet(entries[i].hostedOn) \subseteq W
        /\ ToSet(entries[i].providedBy) \subseteq W
    BY <1>3, ListShape
  <2> QED BY <2>1 DEF RefsOf
<1>5. r.to \in {"software_component", "cloud_resource", "vendor"}
  BY DEF RefsOf
<1>6. (<<r.to>> \o r.ref)[1] = r.to
  <2> DEFINE S == {r.to} \cup {r.ref[j] : j \in DOMAIN r.ref}
             t == r.ref
  <2>1. t \in Seq(S)
    <3>1. t \in Seq(ToSet(t)) /\ ToSet(t) \subseteq S
      <4> HIDE DEF W
      <4>1. t \in Seq(ToSet(t))
        BY <1>4, ListShape DEF W
      <4> QED BY <4>1 DEF ToSet
    <3> HIDE DEF S, t
    <3> QED BY <3>1
  <2>2. <<r.to>> \in Seq(S) /\ Len(<<r.to>>) = 1 /\ <<r.to>>[1] = r.to
    OBVIOUS
  <2> HIDE DEF S, t
  <2>3. \A j \in 1..Len(<<r.to>>) : (<<r.to>> \o t)[j] = <<r.to>>[j]
    BY <2>1, <2>2, Joined
  <2>4. 1 \in 1..Len(<<r.to>>)
    BY <2>2
  <2> QED BY <2>2, <2>3, <2>4 DEF t
<1> QED BY <1>5, <1>6 DEF TypeOf

\* What a reference matches is of the type it names.
LEMMA MatchesType ==
  ASSUME NEW entries, IsManifest(entries), NEW i \in 1..Len(entries), NEW r \in RefsOf(entries[i]),
         NEW from, NEW k, Matches(k, [from |-> from, ref |-> r])
  PROVE  TypeOf(k) # "service"
<1> DEFINE x == [from |-> from, ref |-> r]
<1>1. x.ref = r
  OBVIOUS
<1>2. r.to # "service" /\ TypeOf(<<r.to>> \o r.ref) = r.to
  BY RefsAreNotServices
<1> HIDE DEF x
<1>3. k = <<r.to>> \o r.ref \/ TypeOf(k) = r.to
  BY <1>1 DEF Matches, x
<1> QED BY <1>2, <1>3

\* A manifest: its services, and edges to what is stored.
LEMMA TopologyShape ==
  ASSUME NEW entries, IsManifest(entries), NEW f \in Indexes(assets), IsFiniteSet(DOMAIN assets)
  PROVE  LET s == buildTopology(entries, assets, f)
         IN  ShapeOK(s) /\ Linked(s, entries)
<1> DEFINE s == buildTopology(entries, assets, f)
           n == Len(entries)
           refs == UNION {{[from |-> Service(entries[i].key), ref |-> r] : r \in RefsOf(entries[i])} : i \in 1..n}
           target(x) == Target(x.ref.to, x.ref.ref, assets, f)
           t == [i \in 1..n |-> Asset(Service(entries[i].key), entries[i].name,
                                      Default(entries[i].criticality, "HIGH"))]
<1>1. /\ s.assets = t /\ s.findings = <<>>
      /\ s.edges = UNION {{Edge(x.from, k, x.ref.type) : k \in target(x)} : x \in refs}
      /\ s.unresolved = {x \in refs : target(x) = {}}
  BY DEF buildTopology
<1>2. n \in Nat /\ \A i \in 1..n : entries[i].criticality \in Criticalities \cup {Unset}
  <2> DEFINE R == [name : STRING, key : STRING, criticality : Criticalities \cup {Unset},
                   dependsOn : Seq(Seq(STRING)), hostedOn : Seq(Seq(STRING)),
                   providedBy : Seq(Seq(STRING))]
  <2>1. entries \in Seq(R) /\ \A e \in R : e.criticality \in Criticalities \cup {Unset}
    BY DEF IsManifest
  <2> HIDE DEF R
  <2> QED BY <2>1
<1> HIDE DEF n, s
<1>3. \A i \in 1..n : /\ t[i].criticality \in Criticalities /\ t[i].key = Service(entries[i].key)
                      /\ NamedAsKey(t[i].key, t[i].name)
  BY <1>2 DEF Asset, Default, Criticalities, NamedAsKey, Service, TypeOf
<1>4. Len(t) = n
  <2>1. t = [i \in 1..n |-> t[i]] /\ \A i \in 1..n : t[i] \in {t[j] : j \in 1..n}
    OBVIOUS
  <2> HIDE DEF t
  <2> QED BY <1>2, <2>1, ListOf
<1> HIDE DEF t
<1>5. KeysOf(s.assets) = {Service(entries[i].key) : i \in 1..n}
  BY <1>1, <1>3, <1>4 DEF KeysOf
<1>6. \A x \in refs : /\ x = [from |-> x.from, ref |-> x.ref]
                      /\ \E i \in 1..n : x.from = Service(entries[i].key) /\ x.ref \in RefsOf(entries[i])
  OBVIOUS
<1> DEFINE types == {"depends_on", "hosted_on", "provided_by"}
<1>7. \A i \in 1..n : \A r \in RefsOf(entries[i]) : r.type \in types
  BY DEF RefsOf
<1>8. \A x \in refs : /\ \A k \in target(x) : k \in DOMAIN assets /\ Matches(k, x)
                      /\ target(x) = {} => \A k \in DOMAIN assets : ~Matches(k, x)
  BY <1>6, TargetMatches
<1>8a. \A x \in refs : \A k \in target(x) : TypeOf(k) # "service"
  <2>1. ASSUME NEW x \in refs, NEW k \in target(x)
        PROVE  TypeOf(k) # "service"
    <3>1. PICK i \in 1..n : x.ref \in RefsOf(entries[i])
      BY <1>6
    <3>2. x = [from |-> x.from, ref |-> x.ref] /\ Matches(k, x)
      BY <1>6, <1>8
    <3> HIDE DEF refs
    <3>3. Matches(k, [from |-> x.from, ref |-> x.ref])
      BY <3>2
    <3> QED BY <3>1, <3>3, MatchesType DEF n
  <2> QED BY <2>1
<1>9. \A i \in 1..n : \A r \in RefsOf(entries[i]) :
        [from |-> Service(entries[i].key), ref |-> r] \in refs
  OBVIOUS
<1> HIDE DEF refs
<1>10. ASSUME NEW e \in s.edges
       PROVE  /\ TypeOf(e.to) # "service"
              /\ \E i \in 1..n : \E k \in DOMAIN assets : \E y \in types :
                   e = Edge(Service(entries[i].key), k, y)
  <2>1. PICK x \in refs : \E k \in target(x) : e = Edge(x.from, k, x.ref.type)
    BY <1>1
  <2>2. PICK k \in target(x) : e = Edge(x.from, k, x.ref.type)
    BY <2>1
  <2>3. k \in DOMAIN assets
    BY <1>8
  <2>4. PICK i \in 1..n : x.from = Service(entries[i].key) /\ x.ref \in RefsOf(entries[i])
    BY <1>6
  <2>5. x.ref.type \in types
    BY <1>7, <2>4
  <2>6. e.to = k
    BY <2>2 DEF Edge
  <2> HIDE DEF types
  <2> QED BY <1>8a, <2>2, <2>3, <2>4, <2>5, <2>6
<1>11. IsFiniteSet(s.edges)
  <2> DEFINE P == (1..n) \X ((DOMAIN assets) \X types)
             g == [p \in P |-> Edge(Service(entries[p[1]].key), p[2][1], p[2][2])]
  <2>1. IsFiniteSet(1..n)
    <3>1. 1 \in Int /\ n \in Int
      BY <1>2
    <3> QED BY <3>1, FS_Interval
  <2>2. IsFiniteSet(types)
    <3>1. IsFiniteSet({} \cup {"depends_on"})
      BY FS_EmptySet, FS_AddElement
    <3>2. IsFiniteSet(({} \cup {"depends_on"}) \cup {"hosted_on"})
      BY <3>1, FS_AddElement
    <3>3. IsFiniteSet((({} \cup {"depends_on"}) \cup {"hosted_on"}) \cup {"provided_by"})
      BY <3>2, FS_AddElement
    <3>4. types = (({} \cup {"depends_on"}) \cup {"hosted_on"}) \cup {"provided_by"}
      OBVIOUS
    <3> QED BY <3>3, <3>4
  <2>3. IsFiniteSet(P)
    <3> HIDE DEF types
    <3>1. IsFiniteSet((DOMAIN assets) \X types)
      BY <2>2, FS_Product
    <3> QED BY <2>1, <3>1, FS_Product
  <2>4. IsFiniteSet({g[p] : p \in P})
    <3> HIDE DEF g, P
    <3> QED BY <2>3, FiniteImage
  <2>5. s.edges \subseteq {g[p] : p \in P}
    <3>1. SUFFICES ASSUME NEW e \in s.edges
                   PROVE  e \in {g[p] : p \in P}
      OBVIOUS
    <3>2. PICK i \in 1..n, k \in DOMAIN assets, y \in types : e = Edge(Service(entries[i].key), k, y)
      BY <1>10
    <3>3. <<i, <<k, y>>>> \in P /\ g[<<i, <<k, y>>>>] = e
      <4> HIDE DEF types
      <4> QED BY <3>2
    <3> QED BY <3>3
  <2> HIDE DEF g, P
  <2> QED BY <2>4, <2>5, FS_Subset
<1>12. \A e \in s.edges : e.from \in KeysOf(s.assets) /\ e.to \in DOMAIN assets /\ TypeOf(e.to) # "service"
  BY <1>5, <1>10 DEF Edge
<1>13. s.findings \in Seq(ToSet(s.findings)) /\ ToSet(s.findings) = {}
  BY <1>1 DEF ToSet
<1>14. /\ Len(s.assets) \in Nat
       /\ \A i \in 1..Len(s.assets) :
            s.assets[i].criticality \in Criticalities /\ NamedAsKey(s.assets[i].key, s.assets[i].name)
  BY <1>1, <1>2, <1>3, <1>4
<1>15. ShapeOK(s)
  BY <1>11, <1>12, <1>13, <1>14, Zenon DEF ShapeOK
<1>16. \A k \in KeysOf(s.assets) : TypeOf(k) = "service"
  BY <1>5 DEF TypeOf, Service
<1>17. ASSUME NEW i \in 1..n, NEW r \in RefsOf(entries[i])
       PROVE  LET x == [from |-> Service(entries[i].key), ref |-> r]
              IN  IF x \in s.unresolved THEN \A k \in DOMAIN assets : ~Matches(k, x)
                  ELSE \E k \in DOMAIN assets : Matches(k, x) /\ Edge(x.from, k, r.type) \in s.edges
  <2> DEFINE x == [from |-> Service(entries[i].key), ref |-> r]
  <2>1. x \in refs /\ x.ref = r
    BY <1>9
  <2> HIDE DEF x
  <2>2. CASE x \in s.unresolved
    BY <1>1, <1>8, <2>1, <2>2 DEF x
  <2>3. CASE x \notin s.unresolved
    <3>1. target(x) # {}
      BY <1>1, <2>1, <2>3
    <3>2. PICK k \in target(x) : TRUE
      BY <3>1
    <3>3. k \in DOMAIN assets /\ Matches(k, x)
      BY <1>8, <2>1
    <3>4. Edge(x.from, k, r.type) \in s.edges
      BY <1>1, <2>1
    <3> QED BY <2>3, <3>3, <3>4 DEF x
  <2> QED BY <2>2, <2>3
<1>18. s.findings = <<>>
  BY <1>1
<1>19. Linked(s, entries)
  BY <1>12, <1>16, <1>17, <1>18 DEF Linked, n
<1> QED BY <1>15, <1>19 DEF s

\* A site.
LEMMA SiteShape ==
  ASSUME NEW site, IsSite(site)
  PROVE  ShapeOK(site) /\ Rooted(site)
<1> DEFINE keys == KeysOf(site.assets)
           A == [key : Seq(STRING), name : STRING, criticality : Criticalities]
           F == [on : keys, source : Seq(STRING), severity : Severities]
<1>1. /\ site.assets \in Seq(A) /\ \A a \in A : a.criticality \in Criticalities
      /\ \A k \in keys : TypeOf(k) \in {"web_asset", "software_component"}
      /\ \A i \in 1..Len(site.assets) : NamedAsKey(site.assets[i].key, site.assets[i].name)
      /\ site.edges \subseteq [from : {site.assets[1].key}, to : keys, type : STRING]
      /\ IsFiniteSet(site.edges)
      /\ site.findings \in Seq(F) /\ \A x \in F : x.on \in keys /\ x.severity \in Severities
  BY DEF IsSite, KeysOf, NamedAsKey
<1>2. Len(site.assets) \in Nat /\ \A i \in 1..Len(site.assets) : site.assets[i].criticality \in Criticalities
  <2> HIDE DEF A, F, keys
  <2> QED BY <1>1
<1> HIDE DEF F
<1>3. site.findings \in Seq(ToSet(site.findings)) /\ ToSet(site.findings) \subseteq F
  BY <1>1, ListShape
<1>4. \A x \in ToSet(site.findings) : x.on \in keys /\ TypeOf(x.on) # "service" /\ x.severity \in Severities
  BY <1>1, <1>3
<1>5. IsFiniteSet(site.edges) /\ \A e \in site.edges : e.from = site.assets[1].key /\ e.to \in keys
  <2> HIDE DEF keys
  <2> QED BY <1>1
\* What hangs on the site hangs on its first asset, so that is one.
<1>6. \A e \in site.edges : e.from \in keys
  <2>1. SUFFICES ASSUME NEW e \in site.edges
                 PROVE  site.assets[1].key \in keys
    BY <1>5
  <2>2. PICK j \in 1..Len(site.assets) : e.to = site.assets[j].key
    BY <1>5 DEF KeysOf
  <2>3. 1 \in 1..Len(site.assets)
    BY <1>2, <2>2
  <2> QED BY <2>3 DEF KeysOf
<1>7. ShapeOK(site)
  <2>1. \A e \in site.edges : e.from \in keys /\ TypeOf(e.to) # "service"
    BY <1>1, <1>5, <1>6
  <2>2. \A i \in 1..Len(site.assets) :
          site.assets[i].criticality \in Criticalities /\ NamedAsKey(site.assets[i].key, site.assets[i].name)
    BY <1>1, <1>2
  <2> QED BY <1>2, <1>3, <1>4, <1>5, <2>1, <2>2, Zenon DEF ShapeOK
<1>8. Rooted(site)
  BY <1>5 DEF Rooted
<1> QED BY <1>7, <1>8

\* What every connector gives is whole: edges and findings are of its assets,
\* edges all from the first one, or from services to what is stored.
THEOREM ScansAreWhole ==
  ASSUME NEW r, IsRun(r), IsFiniteSet(DOMAIN assets), NEW s \in Found(r)
  PROVE  /\ ShapeOK(s)
         /\ IF r.kind = "service" THEN Linked(s, r.manifest) ELSE Rooted(s)
         /\ r.kind = "vendor" => s.edges = {}
<1>1. r.kind \in {"npm", "iac", "vendor", "service", "web"}
  BY DEF IsRun, Kinds
<1>2. CASE r.kind = "npm"
  BY <1>2, PackageShape DEF IsRun, Found
<1>3. CASE r.kind = "iac"
  BY <1>3, PlanShape DEF IsRun, Found
<1>4. CASE r.kind = "vendor"
  <2>1. s = scanVendors(r.inventory, clock) /\ IsInventory(r.inventory)
    BY <1>4 DEF IsRun, Found
  <2>2. ShapeOK(s) /\ s.edges = {}
    BY <2>1, InventoryShape
  <2> QED BY <1>4, <2>2 DEF Rooted
<1>5. CASE r.kind = "service"
  <2>1. IsManifest(r.manifest)
    BY <1>5 DEF IsRun
  <2>2. PICK f \in Indexes(assets) : s = buildTopology(r.manifest, assets, f)
    BY <1>5 DEF Found
  <2> QED BY <1>5, <2>1, <2>2, TopologyShape
<1>6. CASE r.kind = "web"
  BY <1>6, SiteShape DEF IsRun, Found
<1> QED BY <1>1, <1>2, <1>3, <1>4, <1>5, <1>6

-----------------------------------------------------------------------------
(* Scores, and the rows that a batch leaves.                               *)

\* A score is from 1 to 100.
LEMMA ScorePositive ==
  ASSUME NEW severity \in Severities, NEW criticality \in Criticalities
  PROVE  scoreFinding(severity, criticality) \in Nat \ {0}
<1> DEFINE s == SEVERITY_SCORE[severity]
           c == CRITICALITY_SCORE[criticality]
           total == (7 * s + 3 * c + 5) \div 10
<1>1. s \in {10, 30, 50, 75, 95} /\ c \in {25, 50, 75, 100}
  BY DEF SEVERITY_SCORE, CRITICALITY_SCORE, Severities, Criticalities
<1> HIDE DEF s, c
<1>2. total \in Nat /\ total > 0
  BY <1>1
<1>3. scoreFinding(severity, criticality) = IF total > 100 THEN 100 ELSE total
  BY DEF scoreFinding, s, c
<1> QED BY <1>2, <1>3

\* The row of a key is one of the batch with that key.
LEMMA LastOfBatch ==
  ASSUME NEW batch, Len(batch) \in Nat, NEW k \in KeysOf(batch)
  PROVE  \E i \in 1..Len(batch) : LastOf(batch, k) = batch[i] /\ batch[i].key = k
<1> DEFINE n == Len(batch)
           P == {i \in 1..n : batch[i].key = k}
<1>1. n \in Nat /\ P \in SUBSET (1..n) /\ P # {}
  BY DEF KeysOf
<1>2. LastOf(batch, k) = batch[Max(P)]
  BY DEF LastOf
<1> HIDE DEF n
<1>3. Max(P) \in P
  <2> HIDE DEF P
  <2> QED BY <1>1, LastPlace
<1> QED BY <1>2, <1>3 DEF n

\* The same of the findings of a batch.
LEMMA LastFinding ==
  ASSUME NEW batch, Len(batch) \in Nat, NEW f \in PlacesOf(batch)
  PROVE  LET j == Max({i \in 1..Len(batch) : <<batch[i].on, batch[i].source>> = f})
         IN  j \in 1..Len(batch) /\ f = <<batch[j].on, batch[j].source>>
<1> DEFINE n == Len(batch)
           P == {i \in 1..n : <<batch[i].on, batch[i].source>> = f}
<1>1. n \in Nat /\ P \in SUBSET (1..n) /\ P # {}
  BY DEF PlacesOf
<1> HIDE DEF n
<1>2. Max(P) \in P
  <2> HIDE DEF P
  <2> QED BY <1>1, LastPlace
<1> QED BY <1>2 DEF n

\* A batch has finitely many keys, and findings.
LEMMA BatchFinite ==
  ASSUME NEW batch, Len(batch) \in Nat
  PROVE  IsFiniteSet(KeysOf(batch)) /\ IsFiniteSet(PlacesOf(batch))
<1> DEFINE n == Len(batch)
           P == 1..n
           g == [i \in P |-> batch[i].key]
           h == [i \in P |-> <<batch[i].on, batch[i].source>>]
<1>1. IsFiniteSet(P)
  <2>1. 1 \in Int /\ n \in Int
    OBVIOUS
  <2> QED BY <2>1, FS_Interval
<1>2. IsFiniteSet({g[i] : i \in P})
  <2> HIDE DEF P, g
  <2> QED BY <1>1, FiniteImage
<1>3. IsFiniteSet({h[i] : i \in P})
  <2> HIDE DEF P, h
  <2> QED BY <1>1, FiniteImage
<1>4. {g[i] : i \in P} = KeysOf(batch) /\ {h[i] : i \in P} = PlacesOf(batch)
  BY DEF KeysOf, PlacesOf
<1> QED BY <1>2, <1>3, <1>4

\* What a scan found and what OSV adds are findings of its assets.
LEMMA EnrichedShape ==
  ASSUME NEW r, ShapeOK(r.scan)
  PROVE  LET batch == r.scan.findings \o Enriched(r)
         IN  /\ batch \in Seq(ToSet(batch))
             /\ \A x \in ToSet(batch) :
                  x.on \in KeysOf(r.scan.assets) /\ TypeOf(x.on) # "service" /\ x.severity \in Severities
<1> DEFINE S == ToSet(r.scan.findings)
           K == KeysOf(r.scan.assets)
           A == {x \in Advisories : x.from <= clock /\ x.on \in K}
           g == [a \in A |-> Finding(a.on, <<a.id>>, a.severity)]
           E == {Finding(a.on, <<a.id>>, a.severity) : a \in A}
           batch == r.scan.findings \o Enriched(r)
           Good(x) == x.on \in K /\ TypeOf(x.on) # "service" /\ x.severity \in Severities
<1>1. r.scan.findings \in Seq(S) /\ \A x \in S : Good(x)
  BY DEF ShapeOK
<1>2. IsFiniteSet(E)
  <2>1. IsFiniteSet(A)
    BY RunsAssumption, FS_Subset
  <2>2. IsFiniteSet({g[a] : a \in A})
    <3> HIDE DEF A, g
    <3> QED BY <2>1, FiniteImage
  <2>3. {g[a] : a \in A} = E
    OBVIOUS
  <2> QED BY <2>2, <2>3
<1>3. \A x \in E : Good(x)
  <2>1. SUFFICES ASSUME NEW a \in A
                 PROVE  Good(Finding(a.on, <<a.id>>, a.severity))
    OBVIOUS
  <2>2. TypeOf(a.on) = "software_component" /\ a.severity \in Severities
    BY RunsAssumption
  <2> QED BY <2>2 DEF Finding
<1>4. Enriched(r) \in {<<>>, SetToSeq(E)}
  BY DEF Enriched
<1> HIDE DEF E, S, Good
<1>5. r.scan.findings \in Seq(S \cup E) /\ Enriched(r) \in Seq(S \cup E)
  <2>1. SetToSeq(E) \in Seq(E)
    BY <1>2, Listed
  <2>2. r.scan.findings \in Seq(S \cup E)
    BY <1>1
  <2>3. SetToSeq(E) \in Seq(S \cup E) /\ <<>> \in Seq(S \cup E)
    BY <2>1
  <2> QED BY <1>4, <2>2, <2>3
<1>6. batch \in Seq(S \cup E)
  BY <1>5, Joined
<1> HIDE DEF batch
<1>7. batch \in Seq(ToSet(batch)) /\ ToSet(batch) \subseteq S \cup E
  BY <1>6, ListShape
<1> QED BY <1>1, <1>3, <1>7 DEF Good, batch

\* Each place of a list of findings is of one in it.
LEMMA PlacesAre ==
  ASSUME NEW batch, batch \in Seq(ToSet(batch))
  PROVE  /\ Len(batch) \in Nat /\ \A i \in 1..Len(batch) : batch[i] \in ToSet(batch)
         /\ \A f \in PlacesOf(batch) :
              \E x \in ToSet(batch) : f = <<x.on, x.source>> /\ f = <<f[1], f[2]>> /\ f[1] = x.on
<1>1. Len(batch) \in Nat /\ \A i \in 1..Len(batch) : batch[i] \in ToSet(batch)
  OBVIOUS
<1> QED BY <1>1 DEF PlacesOf

-----------------------------------------------------------------------------
(* The inductive invariant.                                                *)

Stages == {"asset", "edge", "finding", "score", "returned", "cut"}

\* Any run: its input passed its schema, and what its connector found is
\* whole; a service scan has no findings and links services to what is stored.
RunOK(i) ==
  LET r == runs[i] IN
  /\ IsRun(r.input) /\ r.stage \in Stages /\ r.with \subseteq 1..Len(runs)
  /\ DOMAIN r = {"input", "stage", "scan", "summary", "with"}
  /\ DOMAIN r.scan = {"assets", "edges", "findings", "unresolved"}
  /\ ShapeOK(r.scan)
  /\ IF r.input.kind = "service"
     THEN /\ r.stage \notin {"finding", "score"} /\ r.scan.findings = <<>>
          /\ \A k \in KeysOf(r.scan.assets) : TypeOf(k) = "service"
          /\ \A e \in r.scan.edges : e.to \in DOMAIN assets
     ELSE Rooted(r.scan)
  /\ r.input.kind = "vendor" => r.scan.edges = {}

RunsOK == runs \in Seq(ToSet(runs)) /\ \A i \in 1..Len(runs) : RunOK(i)

\* Runs overlap each other, and a run overlaps those before it that are still
\* under way.
OverlapOK ==
  \A i, j \in 1..Len(runs) :
    /\ j \in runs[i].with <=> i \in runs[j].with
    /\ j < i /\ Live(j) => j \in runs[i].with

InputsOK == left \in Seq(UNION {ToSet(h) : h \in Histories})

\* The rows of the tables: a finding is of an asset that is stored, and never
\* of a service; an edge joins two such assets, and none leads to a service.
RowsOK ==
  /\ IsFiniteSet(DOMAIN assets) /\ IsFiniteSet(DOMAIN findings) /\ IsFiniteSet(edges)
  /\ \A k \in DOMAIN assets :
       assets[k].criticality \in Criticalities /\ NamedAsKey(k, assets[k].name)
  /\ \A f \in DOMAIN findings :
       f[1] \in DOMAIN assets /\ TypeOf(f[1]) # "service" /\ findings[f].severity \in Severities
  /\ DOMAIN scores \subseteq DOMAIN findings /\ DOMAIN scorer = DOMAIN scores
  /\ \A f \in DOMAIN scores : scores[f] \in Nat \ {0}
  /\ \A e \in edges : {e.from, e.to} \subseteq DOMAIN assets /\ TypeOf(e.to) # "service"

ScoreOf(s, f) == scoreFinding(SeverityIn(s.findings, f), LastOf(s.assets, f[1]).criticality)

\* Each row is as the run that wrote it last found it.
WrittenOK ==
  /\ \A k \in DOMAIN assets :
       LET o == assets[k].seen IN
       /\ o \in 1..Len(runs) /\ k \in KeysOf(runs[o].scan.assets)
       /\ assets[k].criticality = LastOf(runs[o].scan.assets, k).criticality
  /\ \A f \in DOMAIN findings :
       LET o == findings[f].seen IN
       /\ o \in 1..Len(runs) /\ f \in PlacesOf(runs[o].scan.findings)
       /\ findings[f].severity = SeverityIn(runs[o].scan.findings, f)
       /\ runs[o].stage \in {"score", "returned", "cut"}
  /\ \A f \in DOMAIN scores :
       LET o == scorer[f] IN
       /\ o \in 1..Len(runs) /\ Returned(o) /\ f \in PlacesOf(runs[o].scan.findings)
       /\ scores[f] = ScoreOf(runs[o].scan, f)

\* Run o writes beside run i, which is r, or after it.
NotBefore(o, i, r) == o = i \/ o \in r.with \/ o > i

\* What a run has written is there, and was written last by itself or by one
\* that does not come before it.
Done(i, r, A, E, F, W) ==
  /\ r.stage \in {"edge", "finding", "score", "returned"} =>
       \A k \in KeysOf(r.scan.assets) : k \in DOMAIN A /\ NotBefore(A[k].seen, i, r)
  /\ r.stage \in {"finding", "score", "returned"} => r.scan.edges \subseteq E
  /\ r.stage \in {"score", "returned"} =>
       \A f \in PlacesOf(r.scan.findings) : f \in DOMAIN F /\ NotBefore(F[f].seen, i, r)
  /\ r.stage = "returned" =>
       \A f \in PlacesOf(r.scan.findings) : f \in DOMAIN W /\ NotBefore(W[f], i, r)

DoneOK(i) == Done(i, runs[i], assets, edges, findings, scorer)

\* Matches, of any list of assets.
MatchIn(known, key, ref) ==
  \/ key = <<ref.to>> \o ref.ref
  \/ /\ ref.to = "software_component" /\ Len(ref.ref) = 1
     /\ TypeOf(key) = ref.to /\ known[key].name = ref.ref[1]

\* A reference of a service scan is linked to an asset that matches, or what
\* matches came later or beside it.
LinkOK(known, i, scan, with, from, ref) ==
  IF [from |-> from, ref |-> ref] \in scan.unresolved
  THEN \A k \in DOMAIN known : MatchIn(known, k, ref) => known[k].since > i \/ known[k].since \in with
  ELSE \E k \in DOMAIN known : MatchIn(known, k, ref) /\ Edge(from, k, ref.type) \in scan.edges

LinksOK(i) ==
  LET r == runs[i] IN
  r.input.kind = "service" =>
    \A n \in 1..Len(r.input.manifest) : \A ref \in RefsOf(r.input.manifest[n]) :
      LinkOK(assets, i, r.scan, r.with, Service(r.input.manifest[n].key), ref)

\* What a run returned.
SummaryOK ==
  /\ \A i \in 1..Len(runs) :
       Returned(i) /\ runs[i].input.kind = "service" =>
         runs[i].summary.unresolved = runs[i].scan.unresolved
  /\ LET last == runs[Len(runs)] IN
     runs # <<>> /\ last.stage = "returned" /\ last.with = {} =>
       last.summary.topScore \in {NoScore, 0} \cup {scores[f] : f \in DOMAIN scores}

\* The lists of a page were stored once; no edge is ever removed.
PageOK ==
  /\ DOMAIN page \subseteq Reads /\ (DOMAIN page # {} => runs # <<>>)
  /\ \A r \in DOMAIN page :
       /\ r[2] = "edges" => page[r] \subseteq edges
       /\ r[2] \in {"assets", "findings"} => IsFiniteSet(DOMAIN page[r])
       /\ r[2] = "scores" => \A f \in DOMAIN page[r] : page[r][f] \in Nat
  /\ \/ impact = <<>>
     \/ /\ {"impact"} \X Lists \subseteq DOMAIN page
        /\ \E o \in Orders :
             impact = <<computeImpact(page[<<"impact", "assets">>], page[<<"impact", "findings">>],
                                      page[<<"impact", "scores">>], page[<<"impact", "edges">>], o)>>

RunInv ==
  /\ RunsOK /\ OverlapOK /\ InputsOK /\ RowsOK /\ WrittenOK
  /\ \A i \in 1..Len(runs) : DoneOK(i) /\ LinksOK(i)
  /\ SummaryOK /\ PageOK

-----------------------------------------------------------------------------
(* One run goes on.                                                        *)

\* Only run i changes, and of what it found only the findings may.
Moved(i) ==
  /\ runs' \in Seq(ToSet(runs')) /\ Len(runs') = Len(runs)
  /\ \A j \in 1..Len(runs) : j # i => runs'[j] = runs[j]
  /\ LET r == runs[i]
         t == runs'[i]
     IN  /\ DOMAIN t = DOMAIN r /\ DOMAIN t.scan = DOMAIN r.scan
         /\ t.input = r.input /\ t.with = r.with
         /\ t.scan.assets = r.scan.assets /\ t.scan.edges = r.scan.edges
         /\ t.scan.unresolved = r.scan.unresolved

\* One run is replaced.
LEMMA RunReplaced ==
  ASSUME RunsOK, NEW i \in 1..Len(runs), NEW x, runs' = [runs EXCEPT ![i] = x]
  PROVE  /\ runs' \in Seq(ToSet(runs')) /\ Len(runs') = Len(runs) /\ runs'[i] = x
         /\ \A j \in 1..Len(runs) : j # i => runs'[j] = runs[j]
<1> DEFINE S == ToSet(runs)
           R == S \cup {x}
           n == Len(runs)
           t == runs'
<1>1. runs \in [1..n -> S] /\ n \in Nat /\ i \in 1..n
  BY DEF RunsOK, ToSet
<1>2. t = [runs EXCEPT ![i] = x]
  OBVIOUS
<1> HIDE DEF n, S, t
<1>3. t \in [1..n -> R] /\ t[i] = x /\ \A j \in 1..n : j # i => t[j] = runs[j]
  BY <1>1, <1>2
<1> HIDE DEF R
<1>4. t \in Seq(R) /\ Len(t) = n
  BY <1>1, <1>3
<1>5. t \in Seq(ToSet(t))
  BY <1>4, ListShape
<1> QED BY <1>3, <1>4, <1>5 DEF n, t

\* The stage changes, and nothing else.
LEMMA GotoMoves ==
  ASSUME RunsOK, NEW i \in 1..Len(runs), NEW stage, Goto(i, stage)
  PROVE  /\ Moved(i) /\ runs'[i].stage = stage /\ runs'[i].scan = runs[i].scan
         /\ runs'[i].summary = runs[i].summary
<1> DEFINE r == runs[i]
           x == [r EXCEPT !.stage = stage]
<1>1. runs \in Seq(ToSet(runs)) /\ RunOK(i)
  BY DEF RunsOK
<1>2. runs' = [runs EXCEPT ![i] = x]
  BY <1>1 DEF Goto
<1>3. DOMAIN r = {"input", "stage", "scan", "summary", "with"}
  BY <1>1 DEF RunOK
<1> HIDE DEF r
<1>4. /\ DOMAIN x = DOMAIN r /\ x.input = r.input /\ x.with = r.with /\ x.scan = r.scan
      /\ x.summary = r.summary /\ x.stage = stage
  BY <1>3
<1> HIDE DEF x
<1>5. /\ runs' \in Seq(ToSet(runs')) /\ Len(runs') = Len(runs) /\ runs'[i] = x
      /\ \A j \in 1..Len(runs) : j # i => runs'[j] = runs[j]
  BY <1>2, RunReplaced
<1> QED BY <1>4, <1>5 DEF Moved, r

\* The run returns.
LEMMA ReturnsMoves ==
  ASSUME RunsOK, NEW i \in 1..Len(runs), NEW summary, Returns(i, summary)
  PROVE  /\ Moved(i) /\ runs'[i].stage = "returned" /\ runs'[i].scan = runs[i].scan
         /\ runs'[i].summary = summary
<1> DEFINE r == runs[i]
           x == [r EXCEPT !.stage = "returned", !.summary = summary]
<1>1. runs \in Seq(ToSet(runs)) /\ RunOK(i)
  BY DEF RunsOK
<1>2. runs' = [runs EXCEPT ![i] = x]
  <2>1. i \in DOMAIN runs
    BY <1>1
  <2> QED BY <1>1, <2>1 DEF Returns
<1>3. DOMAIN r = {"input", "stage", "scan", "summary", "with"}
  BY <1>1 DEF RunOK
<1> HIDE DEF r
<1>4. /\ DOMAIN x = DOMAIN r /\ x.input = r.input /\ x.with = r.with /\ x.scan = r.scan
      /\ x.summary = summary /\ x.stage = "returned"
  BY <1>3
<1> HIDE DEF x
<1>5. /\ runs' \in Seq(ToSet(runs')) /\ Len(runs') = Len(runs) /\ runs'[i] = x
      /\ \A j \in 1..Len(runs) : j # i => runs'[j] = runs[j]
  BY <1>2, RunReplaced
<1> QED BY <1>4, <1>5 DEF Moved, r

\* The findings are written, and to be scored.
LEMMA FindingsMove ==
  ASSUME RunsOK, NEW i \in 1..Len(runs), NEW batch,
         runs' = [runs EXCEPT ![i].stage = "score", ![i].scan.findings = batch]
  PROVE  /\ Moved(i) /\ runs'[i].stage = "score" /\ runs'[i].scan.findings = batch
         /\ runs'[i].summary = runs[i].summary
<1> DEFINE r == runs[i]
           s == r.scan
           y == [s EXCEPT !.findings = batch]
           x == [r EXCEPT !.stage = "score", !.scan = y]
<1>1. runs \in Seq(ToSet(runs)) /\ RunOK(i)
  BY DEF RunsOK
<1>2. DOMAIN r = {"input", "stage", "scan", "summary", "with"}
      /\ DOMAIN s = {"assets", "edges", "findings", "unresolved"}
  BY <1>1 DEF RunOK
<1>3. runs' = [runs EXCEPT ![i] = x]
  <2>1. i \in DOMAIN runs
    BY <1>1
  <2> QED BY <1>1, <1>2, <2>1
<1> HIDE DEF s
<1>4. /\ DOMAIN y = DOMAIN s /\ y.assets = s.assets /\ y.edges = s.edges
      /\ y.unresolved = s.unresolved /\ y.findings = batch
  BY <1>2
<1> HIDE DEF r, y
<1>5. /\ DOMAIN x = DOMAIN r /\ x.input = r.input /\ x.with = r.with /\ x.scan = y
      /\ x.summary = r.summary /\ x.stage = "score"
  BY <1>2
<1> HIDE DEF x
<1>6. /\ runs' \in Seq(ToSet(runs')) /\ Len(runs') = Len(runs) /\ runs'[i] = x
      /\ \A j \in 1..Len(runs) : j # i => runs'[j] = runs[j]
  BY <1>3, RunReplaced
<1> QED BY <1>4, <1>5, <1>6 DEF Moved, r, s

\* The runs overlap as before: none but run i was under way and is no more.
LEMMA OverlapKept ==
  ASSUME OverlapOK, NEW i \in 1..Len(runs), Live(i), Moved(i)
  PROVE  OverlapOK'
<1>1. \A j \in 1..Len(runs) : runs'[j].with = runs[j].with /\ (Live(j)' => Live(j))
  BY DEF Moved, Live
<1>2. Len(runs') = Len(runs)
  BY DEF Moved
<1> QED BY <1>1, <1>2 DEF OverlapOK

\* The runs are whole as before if what is stored only grows.
LEMMA RunsKept ==
  ASSUME RunsOK, NEW i \in 1..Len(runs), Moved(i), DOMAIN assets \subseteq DOMAIN assets',
         runs'[i].stage \in Stages, ShapeOK(runs'[i].scan),
         runs[i].input.kind = "service" =>
           runs'[i].stage \notin {"finding", "score"} /\ runs'[i].scan.findings = <<>>
  PROVE  RunsOK'
<1>1. \A j \in 1..Len(runs) : RunOK(j)
  BY DEF RunsOK
<1>2. ASSUME NEW j \in 1..Len(runs)
      PROVE  RunOK(j)'
  <2>1. CASE j # i
    <3>1. runs'[j] = runs[j] /\ Len(runs') = Len(runs)
      BY <2>1 DEF Moved
    <3> QED BY <1>1, <3>1 DEF RunOK
  <2>2. CASE j = i
    <3>1. RunOK(i)
      BY <1>1
    <3>2. Rooted(runs[i].scan) => Rooted(runs'[i].scan)
      BY DEF Rooted, Moved
    <3> QED BY <2>2, <3>1, <3>2 DEF RunOK, Moved
  <2> QED BY <2>1, <2>2
<1> QED BY <1>2 DEF RunsOK, Moved

\* The links of service scans stay: assets keep their names and when they were
\* first stored, and what is new comes from a run that is under way.
LEMMA LinksKept ==
  ASSUME RunsOK, OverlapOK, NEW i \in 1..Len(runs), Live(i), Moved(i),
         \A j \in 1..Len(runs) : LinksOK(j),
         DOMAIN assets \subseteq DOMAIN assets',
         \A k \in DOMAIN assets :
           assets'[k].since = assets[k].since
           /\ (TypeOf(k) = "software_component" => assets'[k].name = assets[k].name),
         \A k \in DOMAIN assets' \ DOMAIN assets : assets'[k].since = i /\ k \in KeysOf(runs[i].scan.assets)
  PROVE  \A j \in 1..Len(runs) : LinksOK(j)'
<1>1. ASSUME NEW j \in 1..Len(runs), runs[j].input.kind = "service",
             NEW n \in 1..Len(runs[j].input.manifest), NEW ref \in RefsOf(runs[j].input.manifest[n])
      PROVE  LinkOK(assets', j, runs[j].scan, runs[j].with, Service(runs[j].input.manifest[n].key), ref)
  <2> DEFINE m == runs[j].input.manifest
             from == Service(m[n].key)
             x == [from |-> from, ref |-> ref]
  <2>1. LinkOK(assets, j, runs[j].scan, runs[j].with, from, ref)
    BY <1>1 DEF LinksOK
  <2>3. IsManifest(m)
    BY <1>1 DEF RunsOK, RunOK, IsRun
  <2> HIDE DEF from
  <2>4. \A k \in DOMAIN assets : MatchIn(assets', k, ref) <=> MatchIn(assets, k, ref)
    BY DEF MatchIn
  <2>5. ASSUME NEW k \in DOMAIN assets' \ DOMAIN assets, MatchIn(assets', k, ref)
        PROVE  assets'[k].since > j \/ assets'[k].since \in runs[j].with
    <3>1. TypeOf(k) # "service"
      <4>1. ref.to # "service" /\ TypeOf(<<ref.to>> \o ref.ref) = ref.to
        BY <2>3, RefsAreNotServices
      <4>2. k = <<ref.to>> \o ref.ref \/ TypeOf(k) = ref.to
        BY <2>5 DEF MatchIn
      <4> QED BY <4>1, <4>2
    <3>2. assets'[k].since = i /\ k \in KeysOf(runs[i].scan.assets)
      BY <2>5
    <3>3. i # j
      BY <1>1, <3>1, <3>2 DEF RunsOK, RunOK
    <3>4. i < j => i \in runs[j].with
      BY DEF OverlapOK
    <3>5. i \in Nat /\ j \in Nat
      BY DEF RunsOK
    <3> QED BY <3>2, <3>3, <3>4, <3>5
  <2>6. CASE x \in runs[j].scan.unresolved
    <3>1. ASSUME NEW k \in DOMAIN assets', MatchIn(assets', k, ref)
          PROVE  assets'[k].since > j \/ assets'[k].since \in runs[j].with
      <4>1. CASE k \in DOMAIN assets
        BY <2>1, <2>4, <2>6, <3>1, <4>1 DEF LinkOK
      <4>2. CASE k \notin DOMAIN assets
        BY <2>5, <3>1, <4>2
      <4> QED BY <4>1, <4>2
    <3> QED BY <2>6, <3>1 DEF LinkOK, from
  <2>7. CASE x \notin runs[j].scan.unresolved
    <3>1. PICK k \in DOMAIN assets : MatchIn(assets, k, ref) /\ Edge(from, k, ref.type) \in runs[j].scan.edges
      BY <2>1, <2>7 DEF LinkOK
    <3>2. k \in DOMAIN assets' /\ MatchIn(assets', k, ref)
      BY <2>4, <3>1
    <3> QED BY <2>7, <3>1, <3>2 DEF LinkOK, from
  <2> QED BY <2>6, <2>7 DEF from
<1>2. ASSUME NEW j \in 1..Len(runs), NEW from, NEW ref
      PROVE  LinkOK(assets', j, runs[j].scan, runs[j].with, from, ref)
               => LinkOK(assets', j, runs'[j].scan, runs'[j].with, from, ref)
  BY DEF Moved, LinkOK
<1>3. \A j \in 1..Len(runs) : runs'[j].input = runs[j].input
  BY DEF Moved
<1> QED BY <1>1, <1>2, <1>3 DEF LinksOK

\* The tables grow, and what is new or rewritten is of run i.
TablesGrow(i) ==
  /\ DOMAIN assets \subseteq DOMAIN assets' /\ edges \subseteq edges'
  /\ DOMAIN findings \subseteq DOMAIN findings' /\ DOMAIN scorer \subseteq DOMAIN scorer'
  /\ \A k \in DOMAIN assets :
       /\ assets'[k].since = assets[k].since /\ assets'[k].seen \in {assets[k].seen, i}
       /\ TypeOf(k) = "software_component" => assets'[k].name = assets[k].name
  /\ \A k \in DOMAIN assets' \ DOMAIN assets :
       assets'[k].since = i /\ k \in KeysOf(runs[i].scan.assets)
  /\ \A f \in DOMAIN findings : findings'[f].seen \in {findings[f].seen, i}
  /\ \A f \in DOMAIN scorer : scorer'[f] \in {scorer[f], i}

\* A run that is under way comes before no other.
LEMMA LiveNotBefore ==
  ASSUME RunsOK, OverlapOK, NEW i \in 1..Len(runs), Live(i), NEW j \in 1..Len(runs)
  PROVE  NotBefore(i, j, runs[j])
<1>1. i \in Nat /\ j \in Nat
  BY DEF RunsOK
<1>2. i < j => i \in runs[j].with
  BY DEF OverlapOK
<1> QED BY <1>1, <1>2 DEF NotBefore

\* So what a run has written stays as it must be whatever run i writes.
LEMMA DoneKept ==
  ASSUME RunsOK, OverlapOK, NEW i \in 1..Len(runs), Live(i), TablesGrow(i),
         NEW j \in 1..Len(runs), DoneOK(j)
  PROVE  Done(j, runs[j], assets', edges', findings', scorer')
<1> DEFINE r == runs[j]
<1>1. NotBefore(i, j, r)
  BY LiveNotBefore
<1>2. Done(j, r, assets, edges, findings, scorer)
  BY DEF DoneOK
<1> HIDE DEF r
<1>3. ASSUME r.stage \in {"edge", "finding", "score", "returned"}, NEW k \in KeysOf(r.scan.assets)
      PROVE  k \in DOMAIN assets' /\ NotBefore(assets'[k].seen, j, r)
  <2>1. k \in DOMAIN assets /\ NotBefore(assets[k].seen, j, r)
    BY <1>2, <1>3 DEF Done
  <2>2. k \in DOMAIN assets' /\ assets'[k].seen \in {assets[k].seen, i}
    BY <2>1 DEF TablesGrow
  <2> QED BY <1>1, <2>1, <2>2
<1>4. r.stage \in {"finding", "score", "returned"} => r.scan.edges \subseteq edges'
  BY <1>2 DEF Done, TablesGrow
<1>5. ASSUME r.stage \in {"score", "returned"}, NEW f \in PlacesOf(r.scan.findings)
      PROVE  f \in DOMAIN findings' /\ NotBefore(findings'[f].seen, j, r)
  <2>1. f \in DOMAIN findings /\ NotBefore(findings[f].seen, j, r)
    BY <1>2, <1>5 DEF Done
  <2>2. f \in DOMAIN findings' /\ findings'[f].seen \in {findings[f].seen, i}
    BY <2>1 DEF TablesGrow
  <2> QED BY <1>1, <2>1, <2>2
<1>6. ASSUME r.stage = "returned", NEW f \in PlacesOf(r.scan.findings)
      PROVE  f \in DOMAIN scorer' /\ NotBefore(scorer'[f], j, r)
  <2>1. f \in DOMAIN scorer /\ NotBefore(scorer[f], j, r)
    BY <1>2, <1>6 DEF Done
  <2>2. f \in DOMAIN scorer' /\ scorer'[f] \in {scorer[f], i}
    BY <2>1 DEF TablesGrow
  <2> QED BY <1>1, <2>1, <2>2
<1>7. Done(j, r, assets', edges', findings', scorer')
  BY <1>3, <1>4, <1>5, <1>6 DEF Done
<1> QED BY <1>7 DEF r

\* What a page has read does not change.
LEMMA PageKept ==
  ASSUME PageOK, edges \subseteq edges', page' = page, impact' = impact, runs' # <<>>
  PROVE  PageOK'
BY DEF PageOK

\* So a step of run i keeps the invariant if its rows are right, what it has
\* written is there, and what it returned is as it must be.
LEMMA RunMoves ==
  ASSUME RunInv, NEW i \in 1..Len(runs), Live(i), Moved(i), TablesGrow(i),
         UNCHANGED <<left, page, impact>>,
         runs'[i].stage \in Stages, ShapeOK(runs'[i].scan),
         runs[i].input.kind = "service" =>
           runs'[i].stage \notin {"finding", "score"} /\ runs'[i].scan.findings = <<>>,
         RowsOK', WrittenOK', Done(i, runs'[i], assets', edges', findings', scorer'),
         runs'[i].stage = "returned" /\ runs[i].input.kind = "service" =>
           runs'[i].summary.unresolved = runs[i].scan.unresolved,
         runs'[i].stage = "returned" =>
           runs'[i].summary.topScore \in {NoScore, 0} \cup {scores'[f] : f \in DOMAIN scores'}
  PROVE  RunInv'
<1>1. RunsOK /\ OverlapOK /\ InputsOK /\ SummaryOK /\ PageOK
  BY DEF RunInv
<1>2. \A j \in 1..Len(runs) : DoneOK(j) /\ LinksOK(j)
  BY DEF RunInv
<1>3. /\ Len(runs') = Len(runs) /\ \A j \in 1..Len(runs) : j # i => runs'[j] = runs[j]
      /\ \A j \in 1..Len(runs) : runs'[j].input = runs[j].input /\ runs'[j].with = runs[j].with
      /\ \A j \in 1..Len(runs) : runs'[j].scan.unresolved = runs[j].scan.unresolved
  BY DEF Moved
<1>4. RunsOK'
  BY <1>1, RunsKept DEF TablesGrow
<1>5. OverlapOK'
  BY <1>1, OverlapKept
<1>6. InputsOK'
  BY <1>1 DEF InputsOK
<1>7. ASSUME NEW j \in 1..Len(runs)
      PROVE  DoneOK(j)'
  <2>1. CASE j = i
    BY <2>1 DEF DoneOK
  <2>2. CASE j # i
    BY <1>1, <1>2, <1>3, <2>2, DoneKept DEF DoneOK
  <2> QED BY <2>1, <2>2
<1>8. \A j \in 1..Len(runs) : LinksOK(j)'
  <2>1. /\ DOMAIN assets \subseteq DOMAIN assets'
        /\ \A k \in DOMAIN assets :
             assets'[k].since = assets[k].since
             /\ (TypeOf(k) = "software_component" => assets'[k].name = assets[k].name)
        /\ \A k \in DOMAIN assets' \ DOMAIN assets :
             assets'[k].since = i /\ k \in KeysOf(runs[i].scan.assets)
    BY DEF TablesGrow
  <2> QED BY <1>1, <1>2, <2>1, LinksKept
<1>9. SummaryOK'
  <2>1. ASSUME NEW j \in 1..Len(runs), runs'[j].stage = "returned", runs[j].input.kind = "service"
        PROVE  runs'[j].summary.unresolved = runs[j].scan.unresolved
    <3>1. CASE j = i
      BY <2>1, <3>1
    <3>2. CASE j # i
      BY <1>1, <1>3, <2>1, <3>2 DEF SummaryOK, Returned
    <3> QED BY <3>1, <3>2
  <2>2. ASSUME runs'[Len(runs)].stage = "returned", runs'[Len(runs)].with = {}
        PROVE  runs'[Len(runs)].summary.topScore \in {NoScore, 0} \cup {scores'[f] : f \in DOMAIN scores'}
    <3> DEFINE n == Len(runs)
    <3>1. n \in Nat /\ n \in 1..n
      BY <1>1 DEF RunsOK
    <3>2. i < n => i \in runs[n].with
      BY <1>1, <3>1 DEF OverlapOK
    <3>3. runs[n].with = {}
      BY <1>3, <2>2, <3>1
    <3>4. i = n
      BY <3>1, <3>2, <3>3
    <3> QED BY <2>2, <3>4
  <2> QED BY <1>3, <2>1, <2>2 DEF SummaryOK, Returned
<1>10. PageOK'
  <2>1. runs' # <<>>
    BY <1>3
  <2> QED BY <1>1, <2>1, PageKept DEF TablesGrow
<1> QED BY <1>3, <1>4, <1>5, <1>6, <1>7, <1>8, <1>9, <1>10 DEF RunInv

-----------------------------------------------------------------------------
(* A run begins.                                                           *)

LEMMA InitInv == Init => RunInv
<1> SUFFICES ASSUME Init
             PROVE  RunInv
  OBVIOUS
<1> USE DEF Init
<1>1. /\ DOMAIN assets = {} /\ DOMAIN findings = {} /\ DOMAIN scores = {} /\ DOMAIN scorer = {}
      /\ DOMAIN page = {} /\ Len(runs) = 0
  OBVIOUS
<1>2. RowsOK
  BY <1>1, FS_EmptySet DEF RowsOK
<1>3. RunsOK /\ OverlapOK
  BY <1>1 DEF RunsOK, OverlapOK
<1>4. InputsOK
  <2> DEFINE R == UNION {ToSet(h) : h \in Histories}
  <2>1. left \in Seq(ToSet(left)) /\ ToSet(left) \subseteq R
    BY RunsAssumption
  <2> HIDE DEF R
  <2>2. left \in Seq(R)
    BY <2>1
  <2> QED BY <2>2 DEF InputsOK, R
<1>5. WrittenOK
  BY <1>1 DEF WrittenOK
<1>6. SummaryOK /\ PageOK
  BY <1>1 DEF SummaryOK, PageOK
<1> QED BY <1>1, <1>2, <1>3, <1>4, <1>5, <1>6 DEF RunInv

\* The next run is one of those that were submitted.
LEMMA NextInput ==
  ASSUME InputsOK, left # <<>>
  PROVE  IsRun(Head(left)) /\ Tail(left) \in Seq(UNION {ToSet(h) : h \in Histories})
<1> DEFINE R == UNION {ToSet(h) : h \in Histories}
<1>1. left \in Seq(R)
  BY DEF InputsOK
<1> HIDE DEF R
<1>2. Head(left) \in R /\ Tail(left) \in Seq(R)
  BY <1>1
<1>3. PICK h \in Histories : Head(left) \in ToSet(h)
  BY <1>2 DEF R
<1>4. h \in Seq(ToSet(h)) /\ \A i \in 1..Len(h) : IsRun(h[i])
  BY RunsAssumption
<1>5. DOMAIN h = 1..Len(h)
  BY <1>4
<1>6. Head(left) \in {h[i] : i \in DOMAIN h}
  BY <1>3 DEF ToSet
<1> QED BY <1>2, <1>4, <1>5, <1>6 DEF R

\* One more run, and the runs under way know that they overlap it.
LEMMA BeginRuns ==
  ASSUME RunsOK, Begin
  PROVE  LET n == Len(runs)
             t == runs'
         IN  /\ n \in Nat /\ t \in Seq(ToSet(t)) /\ Len(t) = n + 1
             /\ \A j \in 1..n :
                  /\ DOMAIN t[j] = DOMAIN runs[j]
                  /\ t[j].input = runs[j].input /\ t[j].stage = runs[j].stage
                  /\ t[j].scan = runs[j].scan /\ t[j].summary = runs[j].summary
                  /\ t[j].with = IF Live(j) THEN runs[j].with \cup {n + 1} ELSE runs[j].with
             /\ \E s \in Found(Head(left)) :
                  t[n + 1] = [input |-> Head(left), stage |-> "asset",
                              scan |-> [assets |-> s.assets, edges |-> s.edges, findings |-> s.findings,
                                        unresolved |-> Unresolved(s)],
                              summary |-> NoSummary, with |-> UnderWay]
<1> DEFINE n == Len(runs)
           t == runs'
           met(j) == IF Live(j) THEN [runs[j] EXCEPT !.with = @ \cup {n + 1}] ELSE runs[j]
           f == [j \in 1..n |-> met(j)]
<1>1. PICK s \in Found(Head(left)) :
        runs' = Append([i \in 1..Len(runs) |->
                         IF Live(i) THEN [runs[i] EXCEPT !.with = @ \cup {Len(runs) + 1}] ELSE runs[i]],
                      [input |-> Head(left), stage |-> "asset",
                       scan |-> [assets |-> s.assets, edges |-> s.edges, findings |-> s.findings,
                                 unresolved |-> Unresolved(s)],
                       summary |-> NoSummary, with |-> UnderWay])
  BY DEF Begin
<1> DEFINE new == [input |-> Head(left), stage |-> "asset",
                   scan |-> [assets |-> s.assets, edges |-> s.edges, findings |-> s.findings,
                             unresolved |-> Unresolved(s)],
                   summary |-> NoSummary, with |-> UnderWay]
           S == {f[j] : j \in 1..n}
           R == S \cup {new}
<1>2. t = Append(f, new) /\ n \in Nat
  BY <1>1 DEF RunsOK
<1>3. \A j \in 1..n : f[j] = met(j)
  OBVIOUS
<1>4. \A j \in 1..n : DOMAIN runs[j] = {"input", "stage", "scan", "summary", "with"}
  BY DEF RunsOK, RunOK
<1>5. ASSUME NEW j \in 1..n
      PROVE  /\ DOMAIN met(j) = DOMAIN runs[j]
             /\ met(j).input = runs[j].input /\ met(j).stage = runs[j].stage
             /\ met(j).scan = runs[j].scan /\ met(j).summary = runs[j].summary
             /\ met(j).with = IF Live(j) THEN runs[j].with \cup {n + 1} ELSE runs[j].with
  BY <1>4
<1>6. f \in [1..n -> S]
  OBVIOUS
<1> HIDE DEF n, new, t, S, f, met
<1>7. f \in Seq(S) /\ Len(f) = n
  BY <1>2, <1>6
<1>8. f \in Seq(R) /\ new \in R
  <2> HIDE <1>1
  <2>1. \A X, Y : X \subseteq Y => Seq(X) \subseteq Seq(Y)
    OBVIOUS
  <2> QED BY <1>7, <2>1
<1> HIDE DEF R
<1>9. /\ t \in Seq(R) /\ Len(t) = n + 1 /\ t[n + 1] = new
      /\ \A j \in 1..n : t[j] = f[j]
  BY <1>2, <1>7, <1>8
<1>10. t \in Seq(ToSet(t))
  BY <1>9, ListShape
<1>11. ASSUME NEW j \in 1..n
       PROVE  /\ DOMAIN t[j] = DOMAIN runs[j]
              /\ t[j].input = runs[j].input /\ t[j].stage = runs[j].stage
              /\ t[j].scan = runs[j].scan /\ t[j].summary = runs[j].summary
              /\ t[j].with = IF Live(j) THEN runs[j].with \cup {n + 1} ELSE runs[j].with
  BY <1>3, <1>5, <1>9
<1>12. \E x \in Found(Head(left)) :
         t[n + 1] = [input |-> Head(left), stage |-> "asset",
                     scan |-> [assets |-> x.assets, edges |-> x.edges, findings |-> x.findings,
                               unresolved |-> Unresolved(x)],
                     summary |-> NoSummary, with |-> UnderWay]
  BY <1>9 DEF new
<1> QED BY <1>2, <1>9, <1>10, <1>11, <1>12 DEF n, t

LEMMA BeginInv == RunInv /\ Begin => RunInv'
<1> SUFFICES ASSUME RunInv, Begin
             PROVE  RunInv'
  OBVIOUS
<1>0. PICK n : n = Len(runs)
  OBVIOUS
<1> DEFINE t == runs'
           r == Head(left)
           new == t[n + 1]
<1>1. /\ left # <<>> /\ left' = Tail(left)
      /\ assets' = assets /\ edges' = edges /\ findings' = findings /\ scores' = scores
      /\ scorer' = scorer /\ page' = page /\ impact' = impact
  BY DEF Begin, tables
<1>2. /\ RunsOK /\ OverlapOK /\ InputsOK /\ RowsOK /\ WrittenOK /\ SummaryOK /\ PageOK
      /\ \A j \in 1..n : DoneOK(j) /\ LinksOK(j)
  BY <1>0 DEF RunInv
<1>3. /\ n \in Nat /\ t \in Seq(ToSet(t)) /\ Len(t) = n + 1
      /\ \A j \in 1..n :
           /\ DOMAIN t[j] = DOMAIN runs[j]
           /\ t[j].input = runs[j].input /\ t[j].stage = runs[j].stage
           /\ t[j].scan = runs[j].scan /\ t[j].summary = runs[j].summary
           /\ t[j].with = IF Live(j) THEN runs[j].with \cup {n + 1} ELSE runs[j].with
      /\ \E s \in Found(r) :
           new = [input |-> r, stage |-> "asset",
                  scan |-> [assets |-> s.assets, edges |-> s.edges, findings |-> s.findings,
                            unresolved |-> Unresolved(s)],
                  summary |-> NoSummary, with |-> UnderWay]
  BY <1>0, <1>2, BeginRuns
<1>4. PICK s \in Found(r) :
        new = [input |-> r, stage |-> "asset",
               scan |-> [assets |-> s.assets, edges |-> s.edges, findings |-> s.findings,
                         unresolved |-> Unresolved(s)],
               summary |-> NoSummary, with |-> UnderWay]
  BY <1>3
<1> HIDE DEF new
<1>5. IsRun(r) /\ Tail(left) \in Seq(UNION {ToSet(h) : h \in Histories})
  BY <1>1, <1>2, NextInput
<1>6. /\ ShapeOK(s) /\ IF r.kind = "service" THEN Linked(s, r.manifest) ELSE Rooted(s)
      /\ r.kind = "vendor" => s.edges = {}
  <2>1. IsFiniteSet(DOMAIN assets)
    BY <1>2 DEF RowsOK
  <2> QED BY <1>5, <2>1, ScansAreWhole
<1>7. /\ new.input = r /\ new.stage = "asset" /\ new.with = UnderWay /\ new.summary = NoSummary
      /\ DOMAIN new = {"input", "stage", "scan", "summary", "with"}
      /\ DOMAIN new.scan = {"assets", "edges", "findings", "unresolved"}
      /\ new.scan.assets = s.assets /\ new.scan.edges = s.edges /\ new.scan.findings = s.findings
      /\ new.scan.unresolved = Unresolved(s)
  BY <1>4
<1>8. /\ 1..(n + 1) = (1..n) \cup {n + 1} /\ n + 1 \notin 1..n
      /\ \A j \in 1..n : j < n + 1 /\ ~(n + 1 < j)
  BY <1>3
<1>9. \A j \in 1..n : runs[j].with \subseteq 1..n
  BY <1>0, <1>2 DEF RunsOK, RunOK
<1>10. \A j \in 1..n : Live(j)' <=> Live(j)
  BY <1>3 DEF Live
<1> HIDE DEF t
<1>11. RunsOK'
  <2>1. ASSUME NEW j \in 1..n
        PROVE  RunOK(j)'
    <3>1. RunOK(j)
      BY <1>0, <1>2 DEF RunsOK
    <3>2. runs'[j].with \subseteq 1..(n + 1)
      BY <1>3, <1>8, <1>9 DEF t
    <3> QED BY <1>1, <1>3, <3>1, <3>2 DEF RunOK, t
  <2>2. RunOK(n + 1)'
    <3>1. ShapeOK(new.scan) /\ (Rooted(s) => Rooted(new.scan))
      BY <1>6, <1>7 DEF ShapeOK, Rooted
    <3>2. UnderWay \subseteq 1..(n + 1)
      BY <1>0, <1>8 DEF UnderWay
    <3>3. r.kind = "service" =>
            /\ new.scan.findings = <<>> /\ \A k \in KeysOf(new.scan.assets) : TypeOf(k) = "service"
            /\ \A e \in new.scan.edges : e.to \in DOMAIN assets
      BY <1>6, <1>7 DEF Linked
    <3>4. runs'[n + 1] = new /\ Len(runs') = n + 1
      BY <1>3 DEF t, new
    <3>5. "asset" \in Stages
      BY DEF Stages
    <3> QED BY <1>1, <1>5, <1>6, <1>7, <3>1, <3>2, <3>3, <3>4, <3>5 DEF RunOK
  <2> QED BY <1>3, <1>8, <2>1, <2>2 DEF RunsOK, t
<1>12. OverlapOK'
  <2> DEFINE W(i) == runs'[i].with
  <2>1. \A i \in 1..n : W(i) = IF Live(i) THEN runs[i].with \cup {n + 1} ELSE runs[i].with
    BY <1>3 DEF t
  <2>2. W(n + 1) = UnderWay /\ \A i \in 1..n : i \in UnderWay <=> Live(i)
    BY <1>0, <1>7 DEF UnderWay, new, t
  <2>3. n + 1 \notin UnderWay
    BY <1>0, <1>8 DEF UnderWay
  <2> HIDE DEF W
  <2>4. ASSUME NEW i \in 1..(n + 1), NEW j \in 1..(n + 1)
        PROVE  /\ j \in W(i) <=> i \in W(j)
               /\ j < i /\ Live(j)' => j \in W(i)
    <3>1. CASE i \in 1..n /\ j \in 1..n
      BY <1>0, <1>2, <1>8, <1>10, <2>1, <3>1 DEF OverlapOK
    <3>2. CASE i \in 1..n /\ j = n + 1
      BY <1>8, <1>9, <2>1, <2>2, <3>2
    <3>3. CASE i = n + 1 /\ j \in 1..n
      BY <1>8, <1>9, <1>10, <2>1, <2>2, <3>3
    <3>4. CASE i = n + 1 /\ j = n + 1
      BY <1>3, <3>4
    <3> QED BY <1>8, <3>1, <3>2, <3>3, <3>4
  <2> QED BY <1>3, <2>4 DEF OverlapOK, W, t
<1>13. InputsOK'
  BY <1>1, <1>5 DEF InputsOK
<1>14. RowsOK'
  BY <1>1, <1>2 DEF RowsOK
<1>15. WrittenOK'
  <2>1. \A j \in 1..n : runs'[j].scan = runs[j].scan /\ runs'[j].stage = runs[j].stage
    BY <1>3 DEF t
  <2>2. Len(runs') = n + 1
    BY <1>3 DEF t
  <2> QED BY <1>0, <1>1, <1>2, <1>8, <2>1, <2>2 DEF WrittenOK, Returned
<1>16. ASSUME NEW j \in 1..(n + 1)
       PROVE  DoneOK(j)'
  <2>1. CASE j \in 1..n
    <3>1. Done(j, runs[j], assets, edges, findings, scorer)
      BY <1>2, <2>1 DEF DoneOK
    <3>2. runs'[j].stage = runs[j].stage /\ runs'[j].scan = runs[j].scan /\ runs[j].with \subseteq runs'[j].with
      BY <1>3, <2>1 DEF t
    <3>3. Done(j, runs'[j], assets, edges, findings, scorer)
      BY <3>1, <3>2 DEF Done, NotBefore
    <3> QED BY <1>1, <3>3 DEF DoneOK
  <2>2. CASE j = n + 1
    BY <1>7, <2>2 DEF DoneOK, Done, new, t
  <2> QED BY <1>8, <2>1, <2>2
<1>17. ASSUME NEW j \in 1..(n + 1)
       PROVE  LinksOK(j)'
  <2>1. CASE j \in 1..n
    <3>1. LinksOK(j)
      BY <1>2, <2>1
    <3>2. runs'[j].input = runs[j].input /\ runs'[j].scan = runs[j].scan /\ runs[j].with \subseteq runs'[j].with
      BY <1>3, <2>1 DEF t
    <3>3. ASSUME NEW from, NEW ref, LinkOK(assets, j, runs[j].scan, runs[j].with, from, ref)
          PROVE  LinkOK(assets, j, runs'[j].scan, runs'[j].with, from, ref)
      BY <3>2, <3>3 DEF LinkOK
    <3> QED BY <1>1, <3>1, <3>2, <3>3 DEF LinksOK
  <2>2. CASE j = n + 1
    <3>1. SUFFICES ASSUME r.kind = "service", NEW i \in 1..Len(r.manifest), NEW ref \in RefsOf(r.manifest[i])
                   PROVE  LinkOK(assets, j, new.scan, new.with, Service(r.manifest[i].key), ref)
      <4>1. runs'[j] = new
        BY <2>2 DEF t, new
      <4> QED BY <1>1, <1>7, <4>1 DEF LinksOK
    <3> DEFINE from == Service(r.manifest[i].key)
               x == [from |-> from, ref |-> ref]
    <3>2. IF x \in s.unresolved THEN \A k \in DOMAIN assets : ~Matches(k, x)
          ELSE \E k \in DOMAIN assets : Matches(k, x) /\ Edge(x.from, k, ref.type) \in s.edges
      BY <1>6, <3>1 DEF Linked
    <3>3. x.from = from /\ x.ref = ref
      OBVIOUS
    <3>4. Unresolved(s) = s.unresolved
      <4>1. PICK f \in Indexes(assets) : s = buildTopology(r.manifest, assets, f)
        BY <3>1 DEF Found
      <4> QED BY <4>1 DEF Unresolved, buildTopology
    <3> HIDE DEF x, from
    <3>5. \A k \in DOMAIN assets : Matches(k, x) <=> MatchIn(assets, k, ref)
      BY <3>3 DEF Matches, MatchIn
    <3>6. LinkOK(assets, j, new.scan, new.with, from, ref)
      BY <1>7, <3>2, <3>3, <3>4, <3>5 DEF LinkOK, x
    <3> QED BY <3>6 DEF from
  <2> QED BY <1>8, <2>1, <2>2
<1>18. SummaryOK'
  <2>1. runs'[n + 1].stage = "asset" /\ Len(runs') = n + 1
    BY <1>3, <1>7 DEF t, new
  <2>2. \A j \in 1..n : /\ runs'[j].stage = runs[j].stage /\ runs'[j].input = runs[j].input
                        /\ runs'[j].scan = runs[j].scan /\ runs'[j].summary = runs[j].summary
    BY <1>3 DEF t
  <2> QED BY <1>0, <1>2, <1>8, <2>1, <2>2 DEF SummaryOK, Returned
<1>19. PageOK'
  <2>1. runs' # <<>>
    BY <1>3 DEF t
  <2> QED BY <1>1, <1>2, <2>1, PageKept
<1>20. Len(runs') = n + 1
  BY <1>3 DEF t
<1> QED BY <1>11, <1>12, <1>13, <1>14, <1>15, <1>16, <1>17, <1>18, <1>19, <1>20 DEF RunInv

-----------------------------------------------------------------------------
(* Each step of a run.                                                     *)

LEMMA CutInv == ASSUME NEW i \in 1..Len(runs), RunInv, Cut(i) PROVE RunInv'
<1>1. /\ Live(i) /\ Goto(i, "cut")
      /\ assets' = assets /\ edges' = edges /\ findings' = findings /\ scores' = scores
      /\ scorer' = scorer /\ left' = left /\ page' = page /\ impact' = impact
  BY DEF Cut, tables
<1>2. RunsOK /\ OverlapOK /\ RowsOK /\ WrittenOK /\ DoneOK(i)
  BY DEF RunInv
<1>3. /\ Moved(i) /\ runs'[i].stage = "cut" /\ runs'[i].scan = runs[i].scan
      /\ runs'[i].summary = runs[i].summary
  BY <1>1, <1>2, GotoMoves
<1>4. ShapeOK(runs[i].scan) /\ (runs[i].input.kind = "service" => runs[i].scan.findings = <<>>)
  BY <1>2 DEF RunsOK, RunOK
<1>5. TablesGrow(i)
  BY <1>1 DEF TablesGrow
<1>6. RowsOK'
  BY <1>1, <1>2 DEF RowsOK
<1>7. WrittenOK'
  <2>1. \A j \in 1..Len(runs) : runs'[j].scan = runs[j].scan /\ (runs'[j].stage = runs[j].stage \/ j = i)
    BY <1>3 DEF Moved
  <2>2. Len(runs') = Len(runs) /\ runs'[i].stage = "cut" /\ ~Returned(i)
    BY <1>1, <1>3 DEF Moved, Live, Returned
  <2> QED BY <1>1, <1>2, <2>1, <2>2 DEF WrittenOK, Returned
<1>8. Done(i, runs'[i], assets', edges', findings', scorer')
  BY <1>3 DEF Done
<1> QED BY <1>1, <1>3, <1>4, <1>5, <1>6, <1>7, <1>8, RunMoves DEF Stages

\* The edges are written: their ends are stored by now.
LEMMA PersistRelationshipsInv ==
  ASSUME NEW i \in 1..Len(runs), RunInv, PersistRelationships(i) PROVE RunInv'
<1> DEFINE r == runs[i]
<1>1. /\ r.stage = "edge" /\ edges' = edges \cup r.scan.edges
      /\ IF r.input.kind = "service" THEN Returns(i, [NoSummary EXCEPT !.unresolved = r.scan.unresolved])
         ELSE Goto(i, "finding")
      /\ assets' = assets /\ findings' = findings /\ scores' = scores
      /\ scorer' = scorer /\ left' = left /\ page' = page /\ impact' = impact
  BY DEF PersistRelationships
<1>2. RunsOK /\ OverlapOK /\ RowsOK /\ WrittenOK /\ DoneOK(i) /\ RunOK(i)
  BY DEF RunInv, RunsOK
<1>3. /\ Moved(i) /\ runs'[i].scan = r.scan
      /\ IF r.input.kind = "service"
         THEN /\ runs'[i].stage = "returned"
              /\ runs'[i].summary = [NoSummary EXCEPT !.unresolved = r.scan.unresolved]
         ELSE runs'[i].stage = "finding"
  BY <1>1, <1>2, GotoMoves, ReturnsMoves
<1>4. ShapeOK(r.scan) /\ (r.input.kind = "service" => r.scan.findings = <<>>)
  BY <1>2 DEF RunOK
<1>5. TablesGrow(i)
  BY <1>1 DEF TablesGrow
<1>6. /\ \A k \in KeysOf(r.scan.assets) : k \in DOMAIN assets /\ NotBefore(assets[k].seen, i, r)
  BY <1>1, <1>2 DEF DoneOK, Done
<1>7. RowsOK'
  <2>1. IsFiniteSet(edges')
    BY <1>1, <1>2, <1>4, FS_Union DEF RowsOK, ShapeOK
  <2>2. \A e \in r.scan.edges : {e.from, e.to} \subseteq DOMAIN assets /\ TypeOf(e.to) # "service"
    <3>1. \A e \in r.scan.edges : e.to \in DOMAIN assets
      BY <1>2, <1>6 DEF RunOK, Rooted
    <3> QED BY <1>4, <1>6, <3>1 DEF ShapeOK
  <2>3. \A e \in edges' : {e.from, e.to} \subseteq DOMAIN assets /\ TypeOf(e.to) # "service"
    BY <1>1, <1>2, <2>2 DEF RowsOK
  <2> QED BY <1>1, <1>2, <2>1, <2>3 DEF RowsOK
<1>8. WrittenOK'
  <2>1. \A j \in 1..Len(runs) : runs'[j].scan = runs[j].scan /\ (runs'[j].stage = runs[j].stage \/ j = i)
    BY <1>3 DEF Moved
  <2>2. Len(runs') = Len(runs) /\ r.stage = "edge"
    BY <1>1, <1>3 DEF Moved
  <2> QED BY <1>1, <1>2, <2>1, <2>2 DEF WrittenOK, Returned
<1>9. Done(i, runs'[i], assets', edges', findings', scorer')
  <2>1. \A k \in KeysOf(r.scan.assets) : k \in DOMAIN assets' /\ NotBefore(assets'[k].seen, i, runs'[i])
    BY <1>1, <1>3, <1>6 DEF NotBefore, Moved
  <2>2. r.input.kind = "service" => PlacesOf(r.scan.findings) = {}
    BY <1>4 DEF PlacesOf
  <2>3. r.scan.edges \subseteq edges'
    BY <1>1
  <2> QED BY <1>3, <2>1, <2>2, <2>3 DEF Done
<1>10. r.input.kind = "service" =>
         /\ runs'[i].summary.unresolved = r.scan.unresolved
         /\ runs'[i].summary.topScore = NoScore
  BY <1>3 DEF NoSummary
<1>11. "finding" \in Stages /\ "returned" \in Stages /\ Live(i)
  BY <1>1 DEF Stages, Live
<1>12. /\ runs'[i].stage \in Stages
       /\ r.input.kind = "service" => runs'[i].stage \notin {"finding", "score"}
       /\ runs'[i].stage = "returned" => r.input.kind = "service"
  BY <1>3, <1>11
<1> QED BY <1>1, <1>3, <1>4, <1>5, <1>7, <1>8, <1>9, <1>10, <1>11, <1>12, RunMoves

\* The assets are written: a service scan writes nothing a reference matches.
LEMMA PersistAssetsInv ==
  ASSUME NEW i \in 1..Len(runs), RunInv, PersistAssets(i) PROVE RunInv'
<1> DEFINE r == runs[i]
           K == KeysOf(r.scan.assets)
           new == [k \in K |->
                     [name |-> LastOf(r.scan.assets, k).name, criticality |-> LastOf(r.scan.assets, k).criticality,
                      since |-> IF k \in DOMAIN assets THEN assets[k].since ELSE i, seen |-> i]]
<1>1. /\ r.stage = "asset" /\ assets' = Over(new, assets)
      /\ Goto(i, IF r.input.kind = "vendor" THEN "finding" ELSE "edge")
      /\ edges' = edges /\ findings' = findings /\ scores' = scores
      /\ scorer' = scorer /\ left' = left /\ page' = page /\ impact' = impact
  BY DEF PersistAssets
<1>2. RunsOK /\ OverlapOK /\ RowsOK /\ WrittenOK /\ DoneOK(i) /\ RunOK(i)
  BY DEF RunInv, RunsOK
<1>3. /\ Moved(i) /\ runs'[i].scan = r.scan
      /\ runs'[i].stage = IF r.input.kind = "vendor" THEN "finding" ELSE "edge"
  BY <1>1, <1>2, GotoMoves
<1>4. ShapeOK(r.scan) /\ (r.input.kind = "service" => r.scan.findings = <<>>)
      /\ (r.input.kind = "vendor" => r.scan.edges = {})
  BY <1>2 DEF RunOK
<1>5. /\ DOMAIN assets' = K \cup DOMAIN assets
      /\ \A k \in K :
           /\ assets'[k].name = LastOf(r.scan.assets, k).name
           /\ assets'[k].criticality = LastOf(r.scan.assets, k).criticality
           /\ assets'[k].since = (IF k \in DOMAIN assets THEN assets[k].since ELSE i)
           /\ assets'[k].seen = i
      /\ \A k \in DOMAIN assets : k \notin K => assets'[k] = assets[k]
  BY <1>1 DEF Over
<1> HIDE DEF new
<1>6. /\ Len(r.scan.assets) \in Nat
      /\ \A j \in 1..Len(r.scan.assets) :
           /\ r.scan.assets[j].criticality \in Criticalities
           /\ NamedAsKey(r.scan.assets[j].key, r.scan.assets[j].name)
  BY <1>4 DEF ShapeOK
<1>7. \A k \in K : LastOf(r.scan.assets, k).criticality \in Criticalities
                   /\ NamedAsKey(k, LastOf(r.scan.assets, k).name)
  <2> HIDE DEF r
  <2>1. \A k \in K : \E j \in 1..Len(r.scan.assets) :
          LastOf(r.scan.assets, k) = r.scan.assets[j] /\ r.scan.assets[j].key = k
    BY <1>6, LastOfBatch
  <2> QED BY <1>6, <2>1
<1> HIDE DEF K
<1>8. \A k \in DOMAIN assets : assets[k].criticality \in Criticalities /\ NamedAsKey(k, assets[k].name)
  BY <1>2 DEF RowsOK
<1>9. ASSUME NEW k \in DOMAIN assets
      PROVE  /\ assets'[k].since = assets[k].since /\ assets'[k].seen \in {assets[k].seen, i}
             /\ TypeOf(k) = "software_component" => assets'[k].name = assets[k].name
  <2>1. CASE k \in K
    <3>1. NamedAsKey(k, assets'[k].name) /\ NamedAsKey(k, assets[k].name)
      BY <1>5, <1>7, <1>8, <2>1
    <3> QED BY <1>5, <2>1, <3>1 DEF NamedAsKey
  <2>2. CASE k \notin K
    BY <1>5, <2>2
  <2> QED BY <2>1, <2>2
<1>10. TablesGrow(i)
  <2>1. \A k \in DOMAIN assets' \ DOMAIN assets : assets'[k].since = i /\ k \in K
    BY <1>5
  <2> QED BY <1>1, <1>5, <1>9, <2>1 DEF TablesGrow, K
<1>11. RowsOK'
  <2>1. IsFiniteSet(DOMAIN assets')
    <3>1. IsFiniteSet(K) /\ IsFiniteSet(DOMAIN assets)
      BY <1>2, <1>6, BatchFinite DEF RowsOK, K
    <3>2. IsFiniteSet(K \cup DOMAIN assets)
      BY <3>1, FS_Union
    <3> QED BY <1>5, <3>2
  <2>2. ASSUME NEW k \in DOMAIN assets'
        PROVE  assets'[k].criticality \in Criticalities /\ NamedAsKey(k, assets'[k].name)
    <3>1. CASE k \in K
      BY <1>5, <1>7, <3>1
    <3>2. CASE k \notin K
      BY <1>5, <1>8, <3>2
    <3> QED BY <3>1, <3>2
  <2> QED BY <1>1, <1>2, <1>5, <2>1, <2>2 DEF RowsOK
<1>12. WrittenOK'
  <2>1. \A j \in 1..Len(runs) : runs'[j].scan = runs[j].scan /\ (runs'[j].stage = runs[j].stage \/ j = i)
    BY <1>3 DEF Moved
  <2>2. Len(runs') = Len(runs) /\ r.stage = "asset"
    BY <1>1, <1>3 DEF Moved
  <2>3. ASSUME NEW k \in DOMAIN assets'
        PROVE  LET o == assets'[k].seen IN
               /\ o \in 1..Len(runs) /\ k \in KeysOf(runs'[o].scan.assets)
               /\ assets'[k].criticality = LastOf(runs'[o].scan.assets, k).criticality
    <3>1. CASE k \in K
      BY <1>5, <2>1, <3>1 DEF K
    <3>2. CASE k \notin K
      BY <1>2, <1>5, <2>1, <3>2 DEF WrittenOK
    <3> QED BY <3>1, <3>2
  <2>4. \A f \in DOMAIN findings :
          LET o == findings[f].seen IN
          /\ o \in 1..Len(runs) /\ f \in PlacesOf(runs'[o].scan.findings)
          /\ findings[f].severity = SeverityIn(runs'[o].scan.findings, f)
          /\ runs'[o].stage \in {"score", "returned", "cut"}
    BY <1>2, <2>1, <2>2 DEF WrittenOK
  <2>5. \A f \in DOMAIN scores :
          LET o == scorer[f] IN
          /\ o \in 1..Len(runs) /\ runs'[o].stage = "returned" /\ f \in PlacesOf(runs'[o].scan.findings)
          /\ scores[f] = ScoreOf(runs'[o].scan, f)
    BY <1>2, <2>1, <2>2 DEF WrittenOK, Returned
  <2> QED BY <1>1, <2>2, <2>3, <2>4, <2>5 DEF WrittenOK, Returned
<1>13. Done(i, runs'[i], assets', edges', findings', scorer')
  <2>1. \A k \in KeysOf(runs'[i].scan.assets) : k \in DOMAIN assets' /\ NotBefore(assets'[k].seen, i, runs'[i])
    BY <1>3, <1>5 DEF NotBefore, K
  <2>2. runs'[i].stage = "finding" => runs'[i].scan.edges \subseteq edges'
    BY <1>3, <1>4
  <2> QED BY <1>3, <2>1, <2>2 DEF Done
<1>14. "finding" \in Stages /\ "edge" \in Stages /\ Live(i)
  BY <1>1 DEF Stages, Live
<1>15. /\ runs'[i].stage \in Stages /\ runs'[i].stage # "returned"
       /\ r.input.kind = "service" => runs'[i].stage \notin {"finding", "score"}
  BY <1>3, <1>14
<1> QED BY <1>1, <1>3, <1>4, <1>10, <1>11, <1>12, <1>13, <1>14, <1>15, RunMoves

\* The severity of a place is that of a finding of the batch on its asset.
LEMMA SeverityOfPlace ==
  ASSUME NEW batch, batch \in Seq(ToSet(batch)), NEW f \in PlacesOf(batch)
  PROVE  \E x \in ToSet(batch) : f[1] = x.on /\ SeverityIn(batch, f) = x.severity
<1> DEFINE j == Max({n \in 1..Len(batch) : <<batch[n].on, batch[n].source>> = f})
<1>1. Len(batch) \in Nat /\ \A n \in 1..Len(batch) : batch[n] \in ToSet(batch)
  BY PlacesAre
<1>2. j \in 1..Len(batch) /\ f = <<batch[j].on, batch[j].source>>
  BY <1>1, LastFinding
<1>3. SeverityIn(batch, f) = batch[j].severity
  BY DEF SeverityIn
<1> HIDE DEF j
<1> QED BY <1>1, <1>2, <1>3

\* The findings are written, of assets that are stored by now.
LEMMA PersistFindingsInv ==
  ASSUME NEW i \in 1..Len(runs), RunInv, PersistFindings(i) PROVE RunInv'
<1>0. PICK batch : batch = runs[i].scan.findings \o Enriched(runs[i])
  OBVIOUS
<1> DEFINE r == runs[i]
           P == PlacesOf(batch)
           new == [f \in P |-> [severity |-> SeverityIn(batch, f), seen |-> i]]
<1>1. /\ r.stage = "finding" /\ findings' = Over(new, findings)
      /\ runs' = [runs EXCEPT ![i].stage = "score", ![i].scan.findings = batch]
      /\ assets' = assets /\ edges' = edges /\ scores' = scores
      /\ scorer' = scorer /\ left' = left /\ page' = page /\ impact' = impact
  BY <1>0 DEF PersistFindings
<1>2. RunsOK /\ OverlapOK /\ RowsOK /\ WrittenOK /\ DoneOK(i) /\ RunOK(i)
  BY DEF RunInv, RunsOK
<1>3. /\ Moved(i) /\ runs'[i].stage = "score" /\ runs'[i].scan.findings = batch
      /\ runs'[i].summary = r.summary
  BY <1>1, <1>2, FindingsMove
<1>4. runs'[i].scan.assets = r.scan.assets /\ runs'[i].scan.edges = r.scan.edges /\ Len(runs') = Len(runs)
  BY <1>3 DEF Moved
<1>5. ShapeOK(r.scan)
  BY <1>2 DEF RunOK
<1>6. /\ batch \in Seq(ToSet(batch))
      /\ \A x \in ToSet(batch) :
           x.on \in KeysOf(r.scan.assets) /\ TypeOf(x.on) # "service" /\ x.severity \in Severities
  BY <1>0, <1>5, EnrichedShape
<1>7. /\ Len(batch) \in Nat /\ \A j \in 1..Len(batch) : batch[j] \in ToSet(batch)
      /\ \A f \in P :
           \E x \in ToSet(batch) : f = <<x.on, x.source>> /\ f = <<f[1], f[2]>> /\ f[1] = x.on
  BY <1>6, PlacesAre
<1>8. \A f \in P : /\ f[1] \in KeysOf(r.scan.assets) /\ TypeOf(f[1]) # "service"
                   /\ SeverityIn(batch, f) \in Severities
  <2>1. ASSUME NEW f \in P
        PROVE  SeverityIn(batch, f) \in Severities
    BY <1>6, SeverityOfPlace
  <2> QED BY <1>6, <1>7, <2>1
<1>9. /\ DOMAIN findings' = P \cup DOMAIN findings
      /\ \A f \in P : findings'[f].severity = SeverityIn(batch, f) /\ findings'[f].seen = i
      /\ \A f \in DOMAIN findings : f \notin P => findings'[f] = findings[f]
  BY <1>1 DEF Over
<1> HIDE DEF new, P
<1>10. ShapeOK(runs'[i].scan)
  BY <1>3, <1>4, <1>5, <1>6 DEF ShapeOK
<1>11. TablesGrow(i)
  BY <1>1, <1>9 DEF TablesGrow
<1>12. \A k \in KeysOf(r.scan.assets) : k \in DOMAIN assets /\ NotBefore(assets[k].seen, i, r)
  BY <1>1, <1>2 DEF DoneOK, Done
<1>13. RowsOK'
  <2>1. IsFiniteSet(DOMAIN findings')
    <3>1. IsFiniteSet(P) /\ IsFiniteSet(DOMAIN findings)
      BY <1>2, <1>7, BatchFinite DEF RowsOK, P
    <3>2. IsFiniteSet(P \cup DOMAIN findings)
      BY <3>1, FS_Union
    <3> QED BY <1>9, <3>2
  <2>2. ASSUME NEW f \in DOMAIN findings'
        PROVE  f[1] \in DOMAIN assets /\ TypeOf(f[1]) # "service" /\ findings'[f].severity \in Severities
    <3>1. CASE f \in P
      BY <1>8, <1>9, <1>12, <3>1
    <3>2. CASE f \notin P
      BY <1>2, <1>9, <3>2 DEF RowsOK
    <3> QED BY <3>1, <3>2
  <2> QED BY <1>1, <1>2, <1>9, <2>1, <2>2 DEF RowsOK
<1>14. WrittenOK'
  <2>1. \A j \in 1..Len(runs) :
          /\ runs'[j].scan.assets = runs[j].scan.assets
          /\ j # i => runs'[j] = runs[j]
    BY <1>3 DEF Moved
  <2>2. \A k \in DOMAIN assets :
          LET o == assets[k].seen IN
          /\ o \in 1..Len(runs) /\ k \in KeysOf(runs'[o].scan.assets)
          /\ assets[k].criticality = LastOf(runs'[o].scan.assets, k).criticality
    BY <1>2, <2>1 DEF WrittenOK
  <2>3. ASSUME NEW f \in DOMAIN findings'
        PROVE  LET o == findings'[f].seen IN
               /\ o \in 1..Len(runs) /\ f \in PlacesOf(runs'[o].scan.findings)
               /\ findings'[f].severity = SeverityIn(runs'[o].scan.findings, f)
               /\ runs'[o].stage \in {"score", "returned", "cut"}
    <3>1. CASE f \in P
      BY <1>3, <1>9, <3>1 DEF P
    <3>2. CASE f \notin P
      <4> DEFINE o == findings[f].seen
      <4>1. /\ o \in 1..Len(runs) /\ f \in PlacesOf(runs[o].scan.findings)
            /\ findings[f].severity = SeverityIn(runs[o].scan.findings, f)
            /\ runs[o].stage \in {"score", "returned", "cut"}
        BY <1>2, <1>9, <3>2 DEF WrittenOK
      <4>2. o # i
        BY <1>1, <4>1
      <4>3. findings'[f] = findings[f] /\ runs'[o] = runs[o]
        BY <1>9, <2>1, <3>2, <4>1, <4>2
      <4> QED BY <4>1, <4>3
    <3> QED BY <3>1, <3>2
  <2>4. ASSUME NEW f \in DOMAIN scores
        PROVE  LET o == scorer[f] IN
               /\ o \in 1..Len(runs) /\ runs'[o].stage = "returned" /\ f \in PlacesOf(runs'[o].scan.findings)
               /\ scores[f] = ScoreOf(runs'[o].scan, f)
    <3> DEFINE o == scorer[f]
    <3>1. /\ o \in 1..Len(runs) /\ runs[o].stage = "returned" /\ f \in PlacesOf(runs[o].scan.findings)
          /\ scores[f] = ScoreOf(runs[o].scan, f)
      BY <1>2 DEF WrittenOK, Returned
    <3>2. runs'[o] = runs[o]
      BY <1>1, <2>1, <3>1
    <3> QED BY <3>1, <3>2
  <2> QED BY <1>1, <1>4, <2>2, <2>3, <2>4 DEF WrittenOK, Returned
<1>15. Done(i, runs'[i], assets', edges', findings', scorer')
  <2>1. runs'[i].with = r.with
    BY <1>3 DEF Moved
  <2>2. \A k \in KeysOf(r.scan.assets) : k \in DOMAIN assets' /\ NotBefore(assets'[k].seen, i, runs'[i])
    BY <1>1, <1>12, <2>1 DEF NotBefore
  <2>3. \A f \in P : f \in DOMAIN findings' /\ NotBefore(findings'[f].seen, i, runs'[i])
    BY <1>9 DEF NotBefore
  <2>4. r.scan.edges \subseteq edges'
    BY <1>1, <1>2 DEF DoneOK, Done
  <2> QED BY <1>3, <1>4, <2>2, <2>3, <2>4 DEF Done, P
<1>16. r.input.kind # "service" /\ Live(i) /\ "score" \in Stages
  BY <1>1, <1>2 DEF RunOK, Live, Stages
<1>17. runs'[i].stage \in Stages /\ runs'[i].stage # "returned" /\ runs[i].input.kind # "service"
  BY <1>3, <1>16
<1> QED BY <1>1, <1>3, <1>10, <1>11, <1>13, <1>14, <1>15, <1>16, <1>17, RunMoves

\* What a run prints goes beside the top score it returns.
LEMMA PrintedFields ==
  ASSUME NEW r, NEW now, NEW o, NEW top
  PROVE  LET s == [Printed(r, now, o) EXCEPT !.topScore = top] IN
         /\ s.topScore = top
         /\ s.report = Printed(r, now, o).report /\ s.printed = Printed(r, now, o).printed
<1> DEFINE own == [k \in KeysOf(r.scan.assets) |-> LastOf(r.scan.assets, k)]
           report == printReport(own, now, now)
           rows == IF r.scan.edges = {} THEN {} ELSE printImpact(own, r.scan.edges, now, now, o)
<1>1. Printed(r, now, o) = IF r.input.how = "job" THEN NoSummary
                           ELSE [NoSummary EXCEPT !.report = report, !.printed = rows]
  BY DEF Printed
<1> HIDE DEF report, rows
<1>2. DOMAIN Printed(r, now, o) = {"topScore", "unresolved", "printed", "report"}
  BY <1>1 DEF NoSummary
<1> QED BY <1>2

\* The scores are written: each has the score of the rows the run upserted.
LEMMA PersistScoresInv ==
  ASSUME NEW i \in 1..Len(runs), RunInv, PersistScores(i) PROVE RunInv'
<1>0. PICK now : now = Scored(runs[i].scan)
  OBVIOUS
<1> DEFINE r == runs[i]
           P == PlacesOf(r.scan.findings)
           top == MaxOf({now[f] : f \in DOMAIN now})
<1>1. PICK o \in Orders : Returns(i, [Printed(r, now, o) EXCEPT !.topScore = top])
  BY <1>0 DEF PersistScores
<1>2. /\ r.stage = "score" /\ scores' = Over(now, scores) /\ scorer' = Over([f \in DOMAIN now |-> i], scorer)
      /\ assets' = assets /\ edges' = edges /\ findings' = findings
      /\ left' = left /\ page' = page /\ impact' = impact
  BY <1>0 DEF PersistScores
<1> HIDE DEF top
<1>3. RunsOK /\ OverlapOK /\ RowsOK /\ WrittenOK /\ DoneOK(i) /\ RunOK(i)
  BY DEF RunInv, RunsOK
<1>4. /\ Moved(i) /\ runs'[i].stage = "returned" /\ runs'[i].scan = r.scan
      /\ runs'[i].summary.topScore = top
  <2> DEFINE t == [Printed(r, now, o) EXCEPT !.topScore = top]
  <2>1. t.topScore = top
    BY PrintedFields
  <2> HIDE DEF t
  <2>2. Returns(i, t)
    BY <1>1 DEF t
  <2> QED BY <1>3, <2>1, <2>2, ReturnsMoves
<1>5. ShapeOK(r.scan) /\ r.input.kind # "service"
  BY <1>2, <1>3 DEF RunOK
<1>6. DOMAIN now = P /\ \A f \in P : now[f] = ScoreOf(r.scan, f)
  BY <1>0 DEF Scored, ScoreOf
<1>7. /\ \A k \in KeysOf(r.scan.assets) : k \in DOMAIN assets /\ NotBefore(assets[k].seen, i, r)
      /\ \A f \in P : f \in DOMAIN findings /\ NotBefore(findings[f].seen, i, r)
      /\ r.scan.edges \subseteq edges
  BY <1>2, <1>3 DEF DoneOK, Done
<1>8. Len(r.scan.findings) \in Nat /\ IsFiniteSet(P)
  <2>1. Len(r.scan.findings) \in Nat
    BY <1>5, PlacesAre DEF ShapeOK
  <2> QED BY <2>1, BatchFinite
<1>9. \A f \in P : now[f] \in Nat \ {0}
  <2>1. SUFFICES ASSUME NEW f \in P
                 PROVE  now[f] \in Nat \ {0}
    OBVIOUS
  <2> DEFINE batch == r.scan.findings
  <2>4. SeverityIn(batch, f) \in Severities /\ f[1] \in KeysOf(r.scan.assets)
    <3>1. batch \in Seq(ToSet(batch))
      BY <1>5 DEF ShapeOK
    <3>2. PICK x \in ToSet(batch) : f[1] = x.on /\ SeverityIn(batch, f) = x.severity
      BY <3>1, SeverityOfPlace
    <3> QED BY <1>5, <3>2 DEF ShapeOK
  <2>5. LastOf(r.scan.assets, f[1]).criticality \in Criticalities
    <3>1. \E n \in 1..Len(r.scan.assets) : LastOf(r.scan.assets, f[1]) = r.scan.assets[n]
      BY <1>5, <2>4, LastOfBatch DEF ShapeOK
    <3> QED BY <1>5, <3>1 DEF ShapeOK
  <2>6. scoreFinding(SeverityIn(batch, f), LastOf(r.scan.assets, f[1]).criticality) \in Nat \ {0}
    BY <2>4, <2>5, ScorePositive
  <2> QED BY <1>6, <2>6 DEF ScoreOf
<1> HIDE DEF P
<1>10. /\ DOMAIN scores' = P \cup DOMAIN scores /\ DOMAIN scorer' = P \cup DOMAIN scorer
       /\ \A f \in P : scores'[f] = now[f] /\ scorer'[f] = i
       /\ \A f \in DOMAIN scores : f \notin P => scores'[f] = scores[f]
       /\ \A f \in DOMAIN scorer : f \notin P => scorer'[f] = scorer[f]
  BY <1>2, <1>6 DEF Over
<1>11. TablesGrow(i)
  BY <1>2, <1>10 DEF TablesGrow
<1>12. RowsOK'
  <2>1. \A f \in DOMAIN scores' : scores'[f] \in Nat \ {0}
    BY <1>3, <1>9, <1>10 DEF RowsOK
  <2>2. DOMAIN scores' \subseteq DOMAIN findings /\ DOMAIN scorer' = DOMAIN scores'
    BY <1>3, <1>7, <1>10 DEF RowsOK
  <2> QED BY <1>2, <1>3, <2>1, <2>2 DEF RowsOK
<1>13. WrittenOK'
  <2>1. /\ Len(runs') = Len(runs)
        /\ \A j \in 1..Len(runs) : runs'[j].scan = runs[j].scan /\ (j # i => runs'[j] = runs[j])
    BY <1>4 DEF Moved
  <2>2. \A k \in DOMAIN assets :
          LET w == assets[k].seen IN
          /\ w \in 1..Len(runs) /\ k \in KeysOf(runs'[w].scan.assets)
          /\ assets[k].criticality = LastOf(runs'[w].scan.assets, k).criticality
    BY <1>3, <2>1 DEF WrittenOK
  <2>3. \A f \in DOMAIN findings :
          LET w == findings[f].seen IN
          /\ w \in 1..Len(runs) /\ f \in PlacesOf(runs'[w].scan.findings)
          /\ findings[f].severity = SeverityIn(runs'[w].scan.findings, f)
          /\ runs'[w].stage \in {"score", "returned", "cut"}
    BY <1>3, <1>4, <2>1 DEF WrittenOK
  <2>4. ASSUME NEW f \in DOMAIN scores'
        PROVE  LET w == scorer'[f] IN
               /\ w \in 1..Len(runs) /\ runs'[w].stage = "returned" /\ f \in PlacesOf(runs'[w].scan.findings)
               /\ scores'[f] = ScoreOf(runs'[w].scan, f)
    <3>1. CASE f \in P
      BY <1>4, <1>6, <1>10, <3>1 DEF P
    <3>2. CASE f \notin P
      <4>1. f \in DOMAIN scores /\ f \in DOMAIN scorer /\ scores'[f] = scores[f] /\ scorer'[f] = scorer[f]
        BY <1>3, <1>10, <3>2 DEF RowsOK
      <4>2. /\ scorer[f] \in 1..Len(runs) /\ runs[scorer[f]].stage = "returned"
            /\ f \in PlacesOf(runs[scorer[f]].scan.findings)
            /\ scores[f] = ScoreOf(runs[scorer[f]].scan, f)
        BY <1>3, <4>1 DEF WrittenOK, Returned
      <4> QED BY <1>2, <2>1, <4>1, <4>2
    <3> QED BY <3>1, <3>2
  <2> QED BY <1>2, <2>1, <2>2, <2>3, <2>4 DEF WrittenOK, Returned
<1>14. Done(i, runs'[i], assets', edges', findings', scorer')
  <2>1. runs'[i].with = r.with
    BY <1>4 DEF Moved
  <2>2. \A f \in P : f \in DOMAIN scorer' /\ NotBefore(scorer'[f], i, runs'[i])
    BY <1>10 DEF NotBefore
  <2> QED BY <1>2, <1>4, <1>7, <2>1, <2>2 DEF Done, NotBefore, P
<1>15. top \in {NoScore, 0} \cup {scores'[f] : f \in DOMAIN scores'}
  <2> DEFINE N == {now[f] : f \in P}
  <2>1. IsFiniteSet(N)
    BY <1>8, FiniteImage
  <2>2. N \in SUBSET Nat
    BY <1>9
  <2>3. top \in N \cup {0}
    <3>1. top = MaxOf(N)
      BY <1>6 DEF top
    <3> HIDE DEF N
    <3> QED BY <2>1, <2>2, <3>1, MaxOfFacts
  <2>4. \A y \in N : \E f \in DOMAIN scores' : y = scores'[f]
    BY <1>10
  <2> QED BY <2>3, <2>4
<1>16. runs'[i].stage \in Stages /\ Live(i)
  BY <1>2, <1>4 DEF Stages, Live
<1>17. ShapeOK(runs'[i].scan)
  BY <1>4, <1>5
<1> QED BY <1>2, <1>4, <1>5, <1>11, <1>12, <1>13, <1>14, <1>15, <1>16, <1>17, RunMoves

\* Neither time nor a page writes anything.
LEMMA ReadersInv == RunInv /\ (Passes \/ ReadLists \/ AnswerImpact \/ UNCHANGED vars) => RunInv'
<1> SUFFICES ASSUME RunInv, Passes \/ ReadLists \/ AnswerImpact \/ UNCHANGED vars
             PROVE  RunInv'
  OBVIOUS
<1>1. /\ assets' = assets /\ edges' = edges /\ findings' = findings /\ scores' = scores
      /\ scorer' = scorer /\ left' = left /\ runs' = runs
  BY DEF Passes, ReadLists, AnswerImpact, vars, tables
<1>2. /\ RunsOK /\ OverlapOK /\ InputsOK /\ RowsOK /\ WrittenOK /\ SummaryOK /\ PageOK
      /\ \A j \in 1..Len(runs) : DoneOK(j) /\ LinksOK(j)
  BY DEF RunInv
<1>3. RunsOK'
  BY <1>1, <1>2 DEF RunsOK, RunOK
<1>4. OverlapOK' /\ InputsOK' /\ RowsOK'
  BY <1>1, <1>2 DEF OverlapOK, Live, InputsOK, RowsOK
<1>5. WrittenOK'
  BY <1>1, <1>2 DEF WrittenOK, Returned
<1>6. \A j \in 1..Len(runs) : DoneOK(j)' /\ LinksOK(j)'
  BY <1>1, <1>2 DEF DoneOK, LinksOK
<1>7. SummaryOK'
  BY <1>1, <1>2 DEF SummaryOK, Returned
<1>8. PageOK'
  <2>1. CASE page' = page /\ impact' = impact
    BY <1>1, <1>2, <2>1 DEF PageOK
  <2>2. CASE ReadLists
    <3>1. PICK g \in ReadGroups : g \cap DOMAIN page = {} /\ page' = Over([r \in g |-> ListNow(r[2])], page)
      BY <2>2 DEF ReadLists
    <3>2. /\ DOMAIN page' = g \cup DOMAIN page
          /\ \A r \in g : page'[r] = ListNow(r[2])
          /\ \A r \in DOMAIN page : page'[r] = page[r]
      <4> DEFINE h == [r \in g |-> ListNow(r[2])]
      <4>1. DOMAIN h = g /\ \A r \in g : h[r] = ListNow(r[2])
        OBVIOUS
      <4> HIDE DEF h
      <4>2. page' = [r \in g \cup DOMAIN page |-> IF r \in g THEN h[r] ELSE page[r]]
        BY <3>1, <4>1 DEF Over, h
      <4> QED BY <3>1, <4>1, <4>2
    <3>3. g \subseteq Reads
      BY <3>1, RunsAssumption
    <3>4. /\ ListNow("edges") = edges /\ ListNow("assets") = assets
          /\ ListNow("findings") = findings /\ ListNow("scores") = scores
      BY DEF ListNow
    <3>5. ASSUME NEW r \in DOMAIN page'
          PROVE  /\ r[2] = "edges" => page'[r] \subseteq edges
                 /\ r[2] \in {"assets", "findings"} => IsFiniteSet(DOMAIN page'[r])
                 /\ r[2] = "scores" => \A f \in DOMAIN page'[r] : page'[r][f] \in Nat
      <4>1. CASE r \in g
        BY <1>2, <3>2, <3>4, <4>1 DEF RowsOK
      <4>2. CASE r \notin g
        BY <1>2, <3>2, <4>2 DEF PageOK
      <4> QED BY <4>1, <4>2
    <3>6. \/ impact = <<>>
          \/ /\ {"impact"} \X Lists \subseteq DOMAIN page'
             /\ \E o \in Orders :
                  impact = <<computeImpact(page'[<<"impact", "assets">>], page'[<<"impact", "findings">>],
                                           page'[<<"impact", "scores">>], page'[<<"impact", "edges">>], o)>>
      <4>1. ASSUME {"impact"} \X Lists \subseteq DOMAIN page
            PROVE  \A l \in Lists : page'[<<"impact", l>>] = page[<<"impact", l>>]
        BY <3>2, <4>1
      <4> QED BY <1>2, <3>2, <4>1 DEF PageOK, Lists
    <3>7. impact' = impact /\ runs # <<>>
      BY <2>2 DEF ReadLists
    <3> QED BY <1>1, <1>2, <3>2, <3>3, <3>5, <3>6, <3>7 DEF PageOK
  <2>3. CASE AnswerImpact
    <3>1. page' = page /\ {"impact"} \X Lists \subseteq DOMAIN page
      BY <2>3 DEF AnswerImpact
    <3>2. \E o \in Orders :
            impact' = <<computeImpact(page[<<"impact", "assets">>], page[<<"impact", "findings">>],
                                      page[<<"impact", "scores">>], page[<<"impact", "edges">>], o)>>
      BY <2>3 DEF AnswerImpact, List
    <3> QED BY <1>1, <1>2, <3>1, <3>2 DEF PageOK
  <2> QED BY <2>1, <2>2, <2>3 DEF Passes, vars
<1> QED BY <1>1, <1>2, <1>3, <1>4, <1>5, <1>6, <1>7, <1>8 DEF RunInv

\* The invariant of every run, cut and page.
THEOREM RunsKeepInvariant == Spec => []RunInv
<1>1. Init => RunInv
  BY InitInv
<1>2. RunInv /\ [Next]_vars => RunInv'
  <2> SUFFICES ASSUME RunInv, [Next]_vars
               PROVE  RunInv'
    OBVIOUS
  <2>1. CASE Begin
    BY <2>1, BeginInv
  <2>2. ASSUME NEW i \in 1..Len(runs), RunStep(i) \/ Cut(i)
        PROVE  RunInv'
    BY <2>2, PersistAssetsInv, PersistRelationshipsInv, PersistFindingsInv, PersistScoresInv, CutInv DEF RunStep
  <2>3. CASE Passes \/ ReadLists \/ AnswerImpact \/ UNCHANGED vars
    BY <2>3, ReadersInv
  <2> QED BY <2>1, <2>2, <2>3 DEF Next
<1> QED BY <1>1, <1>2, PTL DEF Spec

-----------------------------------------------------------------------------
(* What the invariant gives.                                               *)

\* A score that is not the one of its finding and asset is explained by a run
\* that is under way, was cut, or overlapped the run that wrote the score, or
\* because the asset was seen last without the finding (scoreAndPersist scores
\* the rows its own upserts returned), however many runs go on at once.
THEOREM ScoresAreExplained == Spec => []StaleScoreExplained
<1>1. RunInv => StaleScoreExplained
  <2> SUFFICES ASSUME RunInv, NEW f \in DOMAIN scores
               PROVE  LET rated == assets[f[1]].seen IN
                      \/ scores[f] = scoreFinding(findings[f].severity, assets[f[1]].criticality)
                      \/ \E i \in {findings[f].seen, rated} :
                           Live(i) \/ i \in Cuts \/ i \in runs[scorer[f]].with
                      \/ f \notin PlacesOf(runs[rated].scan.findings)
    BY DEF StaleScoreExplained
  <2> DEFINE rated == assets[f[1]].seen
             found == findings[f].seen
             r == scorer[f]
             n == Len(runs)
  <2>1. /\ RunsOK /\ OverlapOK /\ RowsOK /\ WrittenOK /\ n \in Nat
        /\ \A j \in 1..n : DoneOK(j)
    BY DEF RunInv, RunsOK
  <2>2. f \in DOMAIN findings /\ f[1] \in DOMAIN assets /\ f \in DOMAIN scorer
    BY <2>1 DEF RowsOK
  <2>3. /\ r \in 1..n /\ Returned(r) /\ f \in PlacesOf(runs[r].scan.findings)
        /\ scores[f] = ScoreOf(runs[r].scan, f)
    BY <2>1 DEF WrittenOK
  <2>4. /\ found \in 1..n /\ f \in PlacesOf(runs[found].scan.findings)
        /\ findings[f].severity = SeverityIn(runs[found].scan.findings, f)
        /\ runs[found].stage \in {"score", "returned", "cut"}
    BY <2>1, <2>2 DEF WrittenOK
  <2>5. /\ rated \in 1..n /\ assets[f[1]].criticality = LastOf(runs[rated].scan.assets, f[1]).criticality
    BY <2>1, <2>2 DEF WrittenOK
  <2>6. NotBefore(found, r, runs[r]) /\ NotBefore(rated, r, runs[r])
    <3>1. f[1] \in KeysOf(runs[r].scan.assets)
      <4>1. ShapeOK(runs[r].scan)
        BY <2>1, <2>3 DEF RunsOK, RunOK
      <4>2. \E x \in ToSet(runs[r].scan.findings) : f[1] = x.on
        BY <2>3, <4>1, SeverityOfPlace DEF ShapeOK
      <4> QED BY <4>1, <4>2 DEF ShapeOK
    <3>2. Done(r, runs[r], assets, edges, findings, scorer) /\ runs[r].stage = "returned"
      BY <2>1, <2>3 DEF DoneOK, Returned
    <3> QED BY <2>3, <3>1, <3>2 DEF Done
  <2>7. ASSUME NEW o \in 1..n, NotBefore(o, r, runs[r]), o # r,
               f \in PlacesOf(runs[o].scan.findings)
        PROVE  Live(o) \/ o \in Cuts \/ o \in runs[r].with
    <3>1. SUFFICES ASSUME Returned(o), o > r
                   PROVE  o \in runs[r].with
      <4>1. runs[o].stage \in Stages
        BY <2>1 DEF RunsOK, RunOK
      <4> QED BY <2>7, <4>1 DEF Stages, Live, Returned, Cuts, NotBefore
    <3>2. NotBefore(r, o, runs[o])
      BY <2>1, <2>7, <3>1 DEF DoneOK, Done, Returned
    <3>3. r \in runs[o].with
      BY <2>3, <3>1, <3>2 DEF NotBefore
    <3> QED BY <2>1, <2>3, <3>3 DEF OverlapOK
  <2> HIDE DEF rated, found, r, n
  <2>8. CASE found = r /\ rated = r
    <3>1. scores[f] = scoreFinding(findings[f].severity, assets[f[1]].criticality)
      BY <2>3, <2>4, <2>5, <2>8 DEF ScoreOf
    <3> QED BY <3>1
  <2>9. CASE found # r
    BY <2>4, <2>6, <2>7, <2>9 DEF found, rated, r
  <2>10. CASE rated # r /\ f \in PlacesOf(runs[rated].scan.findings)
    BY <2>5, <2>6, <2>7, <2>10 DEF found, rated, r
  <2>11. CASE f \notin PlacesOf(runs[rated].scan.findings)
    BY <2>11 DEF rated
  <2> QED BY <2>8, <2>9, <2>10, <2>11
<1> QED BY <1>1, RunsKeepInvariant, PTL

\* From when a service scan is over, each reference of its manifest has its
\* edge or was reported, and what matches one that was reported was first
\* stored beside it or later (connector-service buildTopology, findUnresolved),
\* whatever other runs store meanwhile.
THEOREM ReferencesAreLinked == Spec => []RefsLinkedOrReported
<1>1. RunInv => RefsLinkedOrReported
  <2> SUFFICES ASSUME RunInv, NEW i \in 1..Len(runs), Returned(i), runs[i].input.kind = "service",
                      NEW n \in 1..Len(runs[i].input.manifest),
                      NEW ref \in RefsOf(runs[i].input.manifest[n])
               PROVE  LET x == [from |-> Service(runs[i].input.manifest[n].key), ref |-> ref]
                          matching == {k \in DOMAIN assets : Matches(k, x)}
                      IN  IF x \in runs[i].summary.unresolved
                          THEN \A k \in matching : assets[k].since > i \/ assets[k].since \in runs[i].with
                          ELSE \E k \in matching : Edge(x.from, k, ref.type) \in edges
    BY DEF RefsLinkedOrReported
  <2> DEFINE from == Service(runs[i].input.manifest[n].key)
             x == [from |-> from, ref |-> ref]
  <2>1. LinkOK(assets, i, runs[i].scan, runs[i].with, from, ref)
    BY DEF RunInv, LinksOK
  <2>2. runs[i].summary.unresolved = runs[i].scan.unresolved /\ runs[i].scan.edges \subseteq edges
    BY DEF RunInv, SummaryOK, DoneOK, Done, Returned
  <2> HIDE DEF from
  <2>3. x.from = from /\ x.ref = ref
    OBVIOUS
  <2>4. ASSUME NEW k
        PROVE  Matches(k, x) <=> MatchIn(assets, k, ref)
    <3> HIDE DEF x
    <3> QED BY <2>3 DEF Matches, MatchIn
  <2>5. IF x \in runs[i].summary.unresolved
        THEN \A k \in {y \in DOMAIN assets : Matches(y, x)} :
               assets[k].since > i \/ assets[k].since \in runs[i].with
        ELSE \E k \in {y \in DOMAIN assets : Matches(y, x)} : Edge(x.from, k, ref.type) \in edges
    <3>1. IF x \in runs[i].scan.unresolved
          THEN \A k \in DOMAIN assets : MatchIn(assets, k, ref) => assets[k].since > i \/ assets[k].since \in runs[i].with
          ELSE \E k \in DOMAIN assets : MatchIn(assets, k, ref) /\ Edge(from, k, ref.type) \in runs[i].scan.edges
      BY <2>1 DEF LinkOK
    <3> HIDE DEF x
    <3> QED BY <2>2, <2>3, <2>4, <3>1
  <2> QED BY <2>5 DEF from
<1> QED BY <1>1, RunsKeepInvariant, PTL

-----------------------------------------------------------------------------
(* What is printed, and what a page shows.                                 *)

\* The orders rows are listed in are lists.
LEMMA OrdersAreLists ==
  ASSUME NEW o \in Orders
  PROVE  Len(o.assets) \in Nat /\ Len(o.edges) \in Nat
<1>1. o.assets \in Seq(ToSet(o.assets)) /\ o.edges \in Seq(ToSet(o.edges))
  BY RunsAssumption
<1> QED BY <1>1

\* A key of which a scored finding is listed elsewhere with the same score has
\* no less there.
LEMMA OwnGrows ==
  ASSUME NEW F, NEW S, Scores(F, S), NEW G, NEW T, Scores(G, T),
         \A f \in DOMAIN F \cap DOMAIN S : f \in DOMAIN G \cap DOMAIN T /\ T[f] = S[f],
         NEW x
  PROVE  ownScore(F, S, x) <= ownScore(G, T, x)
<1>1. ownScore(F, S, x) \in Nat /\ ownScore(F, S, x) \in OwnScores(F, S, x) \cup {0}
  BY OwnFacts
<1>2. /\ ownScore(G, T, x) \in Nat
      /\ \A f \in DOMAIN G \cap DOMAIN T : f[1] = x => T[f] <= ownScore(G, T, x)
  BY OwnFacts
<1>3. CASE ownScore(F, S, x) = 0
  BY <1>2, <1>3
<1>4. CASE ownScore(F, S, x) \in OwnScores(F, S, x)
  <2>1. PICK f \in DOMAIN F \cap DOMAIN S : f[1] = x /\ ownScore(F, S, x) = S[f]
    BY <1>4 DEF OwnScores
  <2> QED BY <1>2, <2>1
<1> QED BY <1>1, <1>3, <1>4

\* All edges start at one key: one step leads as far as any number.
OneStart(G) == \A d, e \in G : d.from = e.from

LEMMA StarReach ==
  ASSUME NEW G, IsFiniteSet(G), OneStart(G), NEW k
  PROVE  \A x \in Reach({k}, G) : x = k \/ \E e \in G : e.from = k /\ e.to = x
<1> DEFINE C == {k} \cup {e.to : e \in {y \in G : y.from = k}}
<1>1. ASSUME NEW e \in G, e.from \in C
      PROVE  e.to \in C
  <2>1. e.from = k
    BY <1>1 DEF OneStart
  <2> QED BY <2>1
<1>2. {k} \subseteq C
  OBVIOUS
<1>3. \A y \in C : y = k \/ \E e \in G : e.from = k /\ e.to = y
  OBVIOUS
<1> HIDE DEF C
<1>4. Reach({k}, G) \subseteq C
  BY <1>1, <1>2, ReachLeast
<1> QED BY <1>3, <1>4

\* What the command line prints when a run has written its scores is stored,
\* and no impact it prints is above that of the stored graph (cli run:
\* printReport, printImpact), whatever other runs have written and in whatever
\* order the rows are listed.
LEMMA PrintsWhatIsStored ==
  ASSUME RunInv, RunInv', NEW i \in 1..Len(runs), PersistScores(i)
  PROVE  LET summary == runs'[i].summary IN
         /\ \A row \in summary.report :
              LET f == <<row.asset, row.finding>> IN f \in DOMAIN scores' /\ scores'[f] = row.score
         /\ \A o \in Orders :
              LET stored == computeImpact(assets, findings, scores', edges, o)
              IN  \A row \in summary.printed : row.impactScore <= stored[row.key].impactScore
<1>0. PICK now : now = Scored(runs[i].scan)
  OBVIOUS
<1> DEFINE r == runs[i]
           P == PlacesOf(r.scan.findings)
           K == KeysOf(r.scan.assets)
           E == r.scan.edges
           own == [k \in K |-> LastOf(r.scan.assets, k)]
           top == MaxOf({now[f] : f \in DOMAIN now})
<1>1. PICK o \in Orders : Returns(i, [Printed(r, now, o) EXCEPT !.topScore = top])
  BY <1>0 DEF PersistScores
<1>2. /\ r.stage = "score" /\ scores' = Over(now, scores)
      /\ assets' = assets /\ edges' = edges /\ findings' = findings
  BY <1>0 DEF PersistScores
<1> HIDE DEF top
<1>3. RunsOK /\ RowsOK /\ RowsOK' /\ DoneOK(i) /\ RunOK(i)
  BY DEF RunInv, RunsOK
<1>4. runs'[i].summary.report = Printed(r, now, o).report /\ runs'[i].summary.printed = Printed(r, now, o).printed
  <2> DEFINE t == [Printed(r, now, o) EXCEPT !.topScore = top]
  <2>1. t.report = Printed(r, now, o).report /\ t.printed = Printed(r, now, o).printed
    BY PrintedFields
  <2> HIDE DEF t
  <2>2. Returns(i, t)
    BY <1>1 DEF t
  <2>3. runs'[i].summary = t
    BY <1>3, <2>2, ReturnsMoves
  <2> QED BY <2>1, <2>3
<1>5. ShapeOK(r.scan) /\ Rooted(r.scan)
  BY <1>2, <1>3 DEF RunOK
<1>6. DOMAIN now = P
  BY <1>0 DEF Scored
<1>7. /\ K \subseteq DOMAIN assets /\ P \subseteq DOMAIN findings /\ E \subseteq edges
  BY <1>2, <1>3 DEF DoneOK, Done
<1>8. /\ DOMAIN scores' = P \cup DOMAIN scores
      /\ \A f \in P : scores'[f] = now[f]
  BY <1>2, <1>6 DEF Over
<1>9. Scores(now, now) /\ Scores(findings, scores') /\ IsFiniteSet(K) /\ IsFiniteSet(E)
  <2>1. Len(r.scan.findings) \in Nat
    BY <1>5, PlacesAre DEF ShapeOK
  <2>2. IsFiniteSet(P) /\ IsFiniteSet(K) /\ IsFiniteSet(E)
    BY <1>5, <2>1, BatchFinite DEF ShapeOK
  <2>3. \A f \in DOMAIN scores' : scores'[f] \in Nat
    BY <1>3 DEF RowsOK
  <2>4. IsFiniteSet(DOMAIN findings)
    BY <1>3 DEF RowsOK
  <2> QED BY <1>6, <1>8, <2>2, <2>3, <2>4 DEF Scores
<1>10. \/ Printed(r, now, o).report = {} /\ Printed(r, now, o).printed = {}
       \/ /\ Printed(r, now, o).report = printReport(own, now, now)
          /\ Printed(r, now, o).printed \in {{}, printImpact(own, E, now, now, o)}
  <2> DEFINE report == printReport(own, now, now)
             all == printImpact(own, E, now, now, o)
             rows == IF E = {} THEN {} ELSE all
  <2>1. Printed(r, now, o) = IF r.input.how = "job" THEN NoSummary
                             ELSE [NoSummary EXCEPT !.report = report, !.printed = rows]
    BY DEF Printed
  <2>2. rows \in {{}, all}
    OBVIOUS
  <2> HIDE DEF report, rows
  <2>3. CASE r.input.how = "job"
    BY <2>1, <2>3 DEF NoSummary
  <2>4. CASE r.input.how # "job"
    BY <2>1, <2>2, <2>4 DEF NoSummary, report
  <2> QED BY <2>3, <2>4
<1>11. ASSUME NEW row \in runs'[i].summary.report
       PROVE  LET f == <<row.asset, row.finding>> IN f \in DOMAIN scores' /\ scores'[f] = row.score
  <2>1. row \in printReport(own, now, now)
    BY <1>4, <1>10, <1>11
  <2>2. PICK f \in DOMAIN now : row = [asset |-> f[1], finding |-> f[2], score |-> now[f]]
    BY <2>1 DEF printReport
  <2>3. f = <<f[1], f[2]>>
    BY <1>5, <1>6, PlacesAre DEF ShapeOK
  <2> QED BY <1>6, <1>8, <2>2, <2>3
<1>12. ASSUME NEW order \in Orders, NEW row \in runs'[i].summary.printed
       PROVE  row.impactScore <= computeImpact(assets, findings, scores', edges, order)[row.key].impactScore
  <2> DEFINE shown == computeImpact(own, now, now, E, o)
             stored == computeImpact(assets, findings, scores', edges, order)
             G == From(K, E)
  <2>1. row \in printImpact(own, E, now, now, o)
    BY <1>4, <1>10, <1>12
  <2>2. PICK k \in DOMAIN shown : shown[k].inherited /\ row = [key |-> k, impactScore |-> shown[k].impactScore]
    BY <2>1 DEF printImpact
  <2>3. DOMAIN own = K
    OBVIOUS
  <2> HIDE DEF own, K, E, P
  <2>4. Rates(shown, own, now, now, E)
    <3>1. Computable(own, now, now, E, o)
      BY <1>9, <2>3, OrdersAreLists DEF Computable
    <3> QED BY <3>1, ImpactFacts
  <2>5. Rates(stored, assets, findings, scores', edges)
    <3>1. Computable(assets, findings, scores', edges, order)
      BY <1>3, <1>9, OrdersAreLists DEF Computable, RowsOK
    <3> QED BY <3>1, ImpactFacts
  <2> HIDE DEF shown, stored
  <2>6. /\ k \in K /\ shown[k].impactScore \in Nat /\ ownScore(now, now, k) \in Nat
        /\ shown[k].impactScore > ownScore(now, now, k)
    BY <1>9, <2>2, <2>3, <2>4, OwnFacts DEF Rates
  <2>7. PICK x \in Reach({k}, G) : ownScore(now, now, x) = shown[k].impactScore
    <3>1. shown[k].impactScore # 0
      BY <2>6
    <3> QED BY <2>3, <2>4, <2>6, <3>1 DEF Rates
  <2>8. PICK e \in G : e.from = k /\ e.to = x
    <3>1. x # k
      BY <2>6, <2>7
    <3>3. \A d, e \in G : d.from = e.from
      BY <1>5 DEF Rooted, From, E
    <3>4. IsFiniteSet(G)
      BY <1>9, FS_Subset DEF From
    <3>5. PICK H : H = G
      OBVIOUS
    <3> HIDE DEF G, r
    <3>6. x \in Reach({k}, H) /\ IsFiniteSet(H) /\ OneStart(H)
      BY <2>7, <3>3, <3>4, <3>5 DEF OneStart
    <3>7. \E e \in H : e.from = k /\ e.to = x
      BY <3>1, <3>6, StarReach
    <3> QED BY <3>5, <3>7
  <2>9. e \in edges /\ k \in DOMAIN assets
    BY <1>7, <2>6, <2>8 DEF From
  <2>10. stored[k].impactScore \in Nat /\ stored[k].impactScore >= ownScore(findings, scores', x)
    BY <2>5, <2>8, <2>9 DEF Rates
  <2>11. ownScore(now, now, x) <= ownScore(findings, scores', x)
    <3>1. \A f \in DOMAIN now \cap DOMAIN now :
            f \in DOMAIN findings \cap DOMAIN scores' /\ scores'[f] = now[f]
      BY <1>6, <1>7, <1>8 DEF P
    <3> QED BY <1>9, <3>1, OwnGrows
  <2>12. ownScore(now, now, x) \in Nat /\ ownScore(findings, scores', x) \in Nat
    BY <1>9, OwnFacts
  <2>13. shown[k].impactScore <= stored[k].impactScore
    BY <2>7, <2>10, <2>11, <2>12
  <2>14. row.key = k /\ row.impactScore = shown[k].impactScore
    BY <2>2
  <2> QED BY <2>13, <2>14 DEF stored
<1> QED BY <1>11, <1>12

\* So it is of every step in which a run returns.
THEOREM WhatIsPrintedIsStored == Spec => PrintedIsStored
<1> DEFINE Printing ==
      \A i \in 1..Len(runs) : Live(i) /\ Returned(i)' =>
        LET summary == runs'[i].summary IN
        /\ \A row \in summary.report :
             LET f == <<row.asset, row.finding>> IN f \in DOMAIN scores' /\ scores'[f] = row.score
        /\ \A o \in Orders :
             LET stored == computeImpact(assets, findings, scores', edges, o)
             IN  \A row \in summary.printed : row.impactScore <= stored[row.key].impactScore
<1>1. RunInv /\ RunInv' /\ [Next]_vars => [Printing]_vars
  <2> SUFFICES ASSUME RunInv, RunInv', Next, NEW i \in 1..Len(runs), Live(i), runs'[i].stage = "returned"
               PROVE  LET summary == runs'[i].summary IN
                      /\ \A row \in summary.report :
                           LET f == <<row.asset, row.finding>> IN f \in DOMAIN scores' /\ scores'[f] = row.score
                      /\ \A o \in Orders :
                           LET stored == computeImpact(assets, findings, scores', edges, o)
                           IN  \A row \in summary.printed : row.impactScore <= stored[row.key].impactScore
    BY DEF Returned
  <2>1. RunsOK /\ runs[i].stage # "returned" /\ runs'[i] # runs[i]
    BY DEF RunInv, Live
  <2>2. CASE PersistScores(i)
    BY <2>2, PrintsWhatIsStored
  <2>3. CASE PersistRelationships(i)
    <3>1. runs[i].input.kind = "service"
      <4>1. SUFFICES ASSUME Goto(i, "finding")
                     PROVE  FALSE
        BY <2>3 DEF PersistRelationships
      <4> QED BY <2>1, <4>1, GotoMoves
    <3> DEFINE t == [NoSummary EXCEPT !.unresolved = runs[i].scan.unresolved]
    <3>2. t.report = {} /\ t.printed = {}
      BY DEF NoSummary
    <3> HIDE DEF t
    <3>3. Returns(i, t)
      BY <2>3, <3>1 DEF PersistRelationships, t
    <3>4. runs'[i].summary = t
      BY <2>1, <3>3, ReturnsMoves
    <3> QED BY <3>2, <3>4
  <2>4. ASSUME PersistAssets(i) \/ PersistFindings(i) \/ Cut(i)
        PROVE  FALSE
    <3>1. CASE PersistAssets(i)
      <4>1. Goto(i, IF runs[i].input.kind = "vendor" THEN "finding" ELSE "edge")
        BY <3>1 DEF PersistAssets
      <4>2. runs'[i].stage = IF runs[i].input.kind = "vendor" THEN "finding" ELSE "edge"
        BY <2>1, <4>1, GotoMoves
      <4> QED BY <4>2
    <3>2. CASE PersistFindings(i)
      <4>1. PICK batch : runs' = [runs EXCEPT ![i].stage = "score", ![i].scan.findings = batch]
        BY <3>2 DEF PersistFindings
      <4> QED BY <2>1, <4>1, FindingsMove
    <3>3. CASE Cut(i)
      BY <2>1, <3>3, GotoMoves DEF Cut
    <3> QED BY <2>4, <3>1, <3>2, <3>3
  <2>5. ASSUME NEW j \in 1..Len(runs), j # i, RunStep(j) \/ Cut(j)
        PROVE  FALSE
    <3>1. Moved(j)
      <4>1. CASE PersistAssets(j)
        <5>1. Goto(j, IF runs[j].input.kind = "vendor" THEN "finding" ELSE "edge")
          BY <4>1 DEF PersistAssets
        <5> QED BY <2>1, <5>1, GotoMoves
      <4>2. CASE PersistRelationships(j)
        <5>1. \/ Goto(j, "finding")
              \/ Returns(j, [NoSummary EXCEPT !.unresolved = runs[j].scan.unresolved])
          BY <4>2 DEF PersistRelationships
        <5> QED BY <2>1, <5>1, GotoMoves, ReturnsMoves
      <4>3. CASE PersistFindings(j)
        <5>1. PICK batch : runs' = [runs EXCEPT ![j].stage = "score", ![j].scan.findings = batch]
          BY <4>3 DEF PersistFindings
        <5> QED BY <2>1, <5>1, FindingsMove
      <4>4. CASE PersistScores(j)
        <5>1. PICK summary : Returns(j, summary)
          BY <4>4 DEF PersistScores
        <5> QED BY <2>1, <5>1, ReturnsMoves
      <4>5. CASE Cut(j)
        BY <2>1, <4>5, GotoMoves DEF Cut
      <4> QED BY <2>5, <4>1, <4>2, <4>3, <4>4, <4>5 DEF RunStep
    <3> QED BY <2>1, <2>5, <3>1 DEF Moved
  <2>6. ASSUME Begin
        PROVE  FALSE
    BY <2>1, <2>6, BeginRuns
  <2>7. ASSUME Passes \/ ReadLists \/ AnswerImpact
        PROVE  FALSE
    BY <2>1, <2>7 DEF Passes, ReadLists, AnswerImpact
  <2>8. CASE \E j \in 1..Len(runs) : RunStep(j) \/ Cut(j)
    BY <2>2, <2>3, <2>4, <2>5, <2>8 DEF RunStep
  <2> QED BY <2>6, <2>7, <2>8 DEF Next
<1>2. Spec => [][Printing]_vars
  <2> HIDE DEF Printing
  <2> QED BY <1>1, RunsKeepInvariant, PTL DEF Spec
<1> QED BY <1>2 DEF PrintedIsStored

\* A set of numbers whose greatest member is known.
LEMMA GreatestIs ==
  ASSUME NEW S \in SUBSET Nat, IsFiniteSet(S), NEW n \in S, \A y \in S : y <= n
  PROVE  MaxOf(S) = n
<1>1. /\ MaxOf(S) \in Nat /\ MaxOf(S) \in S \cup {0} /\ \A y \in S : y <= MaxOf(S)
  BY MaxOfFacts
<1>2. MaxOf(S) <= n /\ n <= MaxOf(S) /\ n \in Nat
  BY <1>1
<1> QED BY <1>1, <1>2

\* A settled page shows what is stored, with a right impact of it.
LEMMA SettledPage ==
  ASSUME RunInv, Settled
  PROVE  /\ List("page", "assets") = assets /\ List("page", "edges") = edges
         /\ List("page", "findings") = findings /\ List("page", "scores") = scores
         /\ Rates(PageImpact, assets, findings, scores, edges)
         /\ Scores(findings, scores) /\ IsFiniteSet(edges) /\ From(DOMAIN assets, edges) = edges
         /\ Len(runs) \in 1..Len(runs) /\ UnderWay = {}
<1>1. \A of \in {"page", "impact"} : \A list \in Lists : page[<<of, list>>] = ListNow(list)
  BY DEF Settled, Reads
<1>2. /\ ListNow("assets") = assets /\ ListNow("edges") = edges
      /\ ListNow("findings") = findings /\ ListNow("scores") = scores
  BY DEF ListNow
<1>3. \A of \in {"page", "impact"} :
        /\ page[<<of, "assets">>] = assets /\ page[<<of, "edges">>] = edges
        /\ page[<<of, "findings">>] = findings /\ page[<<of, "scores">>] = scores
  BY <1>1, <1>2 DEF Lists
<1>4. /\ List("page", "assets") = assets /\ List("page", "edges") = edges
      /\ List("page", "findings") = findings /\ List("page", "scores") = scores
  BY <1>3 DEF List
<1>5. impact # <<>> /\ <<"page", "assets">> \in DOMAIN page /\ UnderWay = {}
  BY DEF Settled, Whole, Reads, Lists
<1>6. PageOK /\ RowsOK /\ RunsOK
  BY DEF RunInv
<1>7. PICK o \in Orders : PageImpact = computeImpact(assets, findings, scores, edges, o)
  <2>1. PICK o \in Orders :
          impact = <<computeImpact(page[<<"impact", "assets">>], page[<<"impact", "findings">>],
                                   page[<<"impact", "scores">>], page[<<"impact", "edges">>], o)>>
    BY <1>5, <1>6 DEF PageOK
  <2>2. impact = <<computeImpact(assets, findings, scores, edges, o)>>
    BY <1>3, <2>1
  <2> QED BY <2>2 DEF PageImpact
<1>8. Scores(findings, scores) /\ IsFiniteSet(edges) /\ From(DOMAIN assets, edges) = edges
  BY <1>6 DEF RowsOK, Scores, From
<1>9. Rates(PageImpact, assets, findings, scores, edges)
  <2>1. Computable(assets, findings, scores, edges, o)
    BY <1>6, <1>8, OrdersAreLists DEF Computable, RowsOK
  <2> QED BY <1>7, <2>1, ImpactFacts
<1>10. Len(runs) \in 1..Len(runs)
  BY <1>5, <1>6 DEF PageOK, RunsOK
<1> QED BY <1>4, <1>5, <1>8, <1>9, <1>10

\* The rows of its impact.
LEMMA SettledImpact ==
  ASSUME RunInv, Settled
  PROVE  /\ DOMAIN PageImpact = DOMAIN assets
         /\ \A k \in DOMAIN assets :
              LET row == PageImpact[k]
                  own == ownScore(findings, scores, k)
              IN  /\ row.ownScore = own /\ own \in Nat
                  /\ row.impactScore \in Nat /\ own <= row.impactScore
                  /\ row.impactScore = 0 \/ \E x : ownScore(findings, scores, x) = row.impactScore
                  /\ ~OnCycle(k, edges) =>
                       /\ \A e \in edges : e.from = k => PageImpact[e.to].impactScore <= row.impactScore
                       /\ \/ row.impactScore = own
                          \/ \E e \in edges : e.from = k /\ row.impactScore = PageImpact[e.to].impactScore
<1>1. /\ Rates(PageImpact, assets, findings, scores, edges) /\ RowsOK
      /\ Scores(findings, scores) /\ From(DOMAIN assets, edges) = edges
  BY SettledPage DEF RunInv
<1>2. \A e \in edges : e.to \in DOMAIN assets
  BY <1>1 DEF RowsOK
<1>3. \A k : ownScore(findings, scores, k) \in Nat
  BY <1>1, OwnFacts
<1>4. DOMAIN PageImpact = DOMAIN assets /\ \A k \in DOMAIN assets : PageImpact[k].impactScore \in Nat
  BY <1>1 DEF Rates
<1>5. ASSUME NEW k \in DOMAIN assets
      PROVE  LET row == PageImpact[k]
                 own == ownScore(findings, scores, k)
             IN  /\ row.ownScore = own /\ own \in Nat
                 /\ row.impactScore \in Nat /\ own <= row.impactScore
                 /\ row.impactScore = 0 \/ \E x : ownScore(findings, scores, x) = row.impactScore
  BY <1>1, <1>3 DEF Rates
<1>6. ASSUME NEW k \in DOMAIN assets, ~OnCycle(k, edges)
      PROVE  LET row == PageImpact[k]
                 own == ownScore(findings, scores, k)
             IN  /\ \A e \in edges : e.from = k => PageImpact[e.to].impactScore <= row.impactScore
                 /\ \/ row.impactScore = own
                    \/ \E e \in edges : e.from = k /\ row.impactScore = PageImpact[e.to].impactScore
  <2>1. /\ \A e \in edges : e.from = k => PageImpact[k].impactScore >= PageImpact[e.to].impactScore
        /\ \/ PageImpact[k].impactScore = ownScore(findings, scores, k)
           \/ \E e \in edges : e.from = k /\ PageImpact[k].impactScore = PageImpact[e.to].impactScore
    BY <1>1, <1>2, <1>6 DEF Rates
  <2> QED BY <1>2, <1>4, <2>1
<1> QED BY <1>4, <1>5, <1>6

\* A settled page says that an asset has no findings only when it has none, or
\* a run that was cut left those it has without a score.
THEOREM NothingIsHidden == Spec => []HiddenOnlyIfTorn
<1>1. RunInv => HiddenOnlyIfTorn
  <2>1. SUFFICES ASSUME RunInv, Settled, NEW k, NEW f,
                        k \in DOMAIN PageAssets, f \in PageAssets[k].findings,
                        PageAssets[k].interpretation = "no_findings"
                 PROVE  findings[f].seen \in Cuts
    BY Zenon DEF HiddenOnlyIfTorn
  <2>2. PageAssets = buildAssetDetails(assets, findings, PageImpact)
    BY <2>1, SettledPage DEF PageAssets
  <2>3. k \in DOMAIN assets /\ DOMAIN PageImpact = DOMAIN assets
    BY <2>1, <2>2, SettledImpact DEF buildAssetDetails
  <2>4. /\ PageAssets[k].findings = {x \in DOMAIN findings : x[1] = k}
        /\ PageAssets[k].interpretation = riskInterpretation(PageImpact[k])
    BY <2>2, <2>3 DEF buildAssetDetails
  <2>5. PageImpact[k].impactScore = 0
    BY <2>1, <2>4 DEF riskInterpretation
  <2>6. f \in DOMAIN findings /\ f[1] = k
    BY <2>1, <2>4
  <2>7. /\ RowsOK /\ WrittenOK /\ \A j \in 1..Len(runs) : DoneOK(j)
    BY <2>1 DEF RunInv
  <2>8. f \notin DOMAIN scores
    <3>1. SUFFICES ASSUME f \in DOMAIN scores
                   PROVE  FALSE
      OBVIOUS
    <3>2. scores[f] \in Nat \ {0}
      BY <2>7, <3>1 DEF RowsOK
    <3>3. scores[f] <= ownScore(findings, scores, k) /\ ownScore(findings, scores, k) \in Nat
      BY <2>1, <2>6, <3>1, SettledPage, OwnFacts
    <3>4. ownScore(findings, scores, k) <= 0
      BY <2>1, <2>3, <2>5, SettledImpact
    <3> QED BY <3>2, <3>3, <3>4
  <2> DEFINE o == findings[f].seen
  <2>9. o \in 1..Len(runs) /\ f \in PlacesOf(runs[o].scan.findings) /\ runs[o].stage \in {"score", "returned", "cut"}
    BY <2>6, <2>7 DEF WrittenOK
  <2>10. runs[o].stage # "score"
    BY <2>1, <2>9, SettledPage DEF UnderWay, Live
  <2>11. runs[o].stage # "returned"
    <3>1. SUFFICES ASSUME runs[o].stage = "returned"
                   PROVE  FALSE
      OBVIOUS
    <3>2. f \in DOMAIN scorer
      BY <2>7, <2>9, <3>1 DEF DoneOK, Done
    <3> QED BY <2>7, <2>8, <3>2 DEF RowsOK
  <2> QED BY <2>9, <2>10, <2>11 DEF Cuts
<1> QED BY <1>1, RunsKeepInvariant, PTL

\* Off the cycles an asset has the worst of its own score and of the impacts
\* of its dependencies.
LEMMA SettledEquation ==
  ASSUME RunInv, Settled, NEW k \in DOMAIN assets, ~OnCycle(k, edges)
  PROVE  PageImpact[k].impactScore =
           MaxOf({PageImpact[k].ownScore} \cup
                 {PageImpact[e.to].impactScore : e \in {x \in edges : x.from = k}})
<1> DEFINE out == {x \in edges : x.from = k}
           D == {PageImpact[e.to].impactScore : e \in out}
           g == [e \in out |-> PageImpact[e.to].impactScore]
           own == PageImpact[k].ownScore
           n == PageImpact[k].impactScore
           S == {own} \cup D
<1>1. \A e \in edges : e.to \in DOMAIN assets
  BY DEF RunInv, RowsOK
<1>2. own \in Nat /\ n \in Nat /\ own <= n
  BY SettledImpact
<1>3. D \in SUBSET Nat /\ \A y \in D : y <= n
  BY <1>1, SettledImpact
<1>4. n = own \/ n \in D
  BY SettledImpact
<1>5. IsFiniteSet(D)
  <2>1. IsFiniteSet(out)
    BY SettledPage, FS_Subset
  <2>2. IsFiniteSet({g[e] : e \in out})
    <3> HIDE DEF g, out
    <3> QED BY <2>1, FiniteImage
  <2>3. {g[e] : e \in out} = D
    OBVIOUS
  <2> QED BY <2>2, <2>3
<1> HIDE DEF D, own, n
<1>6. IsFiniteSet(S)
  <2>1. IsFiniteSet(D \cup {own})
    BY <1>5, FS_AddElement
  <2>2. S = D \cup {own}
    OBVIOUS
  <2> QED BY <2>1, <2>2
<1>7. S \in SUBSET Nat /\ n \in S /\ \A y \in S : y <= n
  BY <1>2, <1>3, <1>4
<1> HIDE DEF S
<1>8. MaxOf(S) = n
  BY <1>6, <1>7, GreatestIs
<1> QED BY <1>8 DEF S, D, own, n

\* The top impact of a settled page is the top score there is.
LEMMA SettledTop ==
  ASSUME RunInv, Settled
  PROVE  LET all == {scores[f] : f \in DOMAIN scores}
         IN  /\ MaxOf({PageImpact[k].impactScore : k \in DOMAIN PageImpact}) = MaxOf(all)
             /\ MaxOf(all) \in Nat /\ \A y \in all : y <= MaxOf(all)
<1> DEFINE all == {scores[f] : f \in DOMAIN scores}
           K == DOMAIN assets
           F == DOMAIN scores
           g == [k \in K |-> PageImpact[k].impactScore]
           I == {PageImpact[k].impactScore : k \in K}
<1>1. RowsOK
  BY DEF RunInv
<1>2. all \in SUBSET Nat /\ IsFiniteSet(all)
  <2>1. IsFiniteSet(F)
    BY <1>1, FS_Subset DEF RowsOK
  <2>2. IsFiniteSet({scores[f] : f \in F})
    <3> HIDE DEF F
    <3> QED BY <2>1, FiniteImage
  <2> QED BY <1>1, <2>2 DEF RowsOK
<1>3. I \in SUBSET Nat /\ IsFiniteSet(I)
  <2>1. IsFiniteSet(K)
    BY <1>1 DEF RowsOK
  <2>2. IsFiniteSet({g[k] : k \in K})
    <3> HIDE DEF K, g
    <3> QED BY <2>1, FiniteImage
  <2>3. I \in SUBSET Nat
    BY SettledImpact
  <2>4. I = {g[k] : k \in K}
    OBVIOUS
  <2> QED BY <2>2, <2>3, <2>4
<1>4. ASSUME NEW k \in K
      PROVE  PageImpact[k].impactScore = 0 \/ PageImpact[k].impactScore \in all
  <2>1. CASE PageImpact[k].impactScore = 0
    BY <2>1
  <2>2. CASE PageImpact[k].impactScore # 0
    <3>1. PICK x : PageImpact[k].impactScore = ownScore(findings, scores, x)
      BY <2>2, SettledImpact
    <3>2. ownScore(findings, scores, x) \in OwnScores(findings, scores, x) \cup {0}
      BY SettledPage, OwnFacts
    <3> QED BY <3>1, <3>2 DEF OwnScores
  <2> QED BY <2>1, <2>2
<1>5. ASSUME NEW f \in DOMAIN scores
      PROVE  \E y \in I : scores[f] <= y
  <2>1. f \in DOMAIN findings /\ f[1] \in K /\ scores[f] \in Nat
    BY <1>1 DEF RowsOK
  <2>2. scores[f] <= ownScore(findings, scores, f[1]) /\ ownScore(findings, scores, f[1]) \in Nat
    BY <2>1, SettledPage, OwnFacts
  <2>3. ownScore(findings, scores, f[1]) <= PageImpact[f[1]].impactScore /\ PageImpact[f[1]].impactScore \in Nat
    BY <2>1, SettledImpact
  <2>4. scores[f] <= PageImpact[f[1]].impactScore
    BY <2>1, <2>2, <2>3
  <2> QED BY <2>1, <2>4
<1>6. \A y \in all : \E z \in I : y <= z
  BY <1>5
<1>7. \A z \in I : z = 0 \/ z \in all
  BY <1>4
<1>8. DOMAIN PageImpact = K
  BY SettledImpact
<1> HIDE DEF all, I
<1>9. /\ MaxOf(all) \in Nat /\ MaxOf(all) \in all \cup {0} /\ \A y \in all : y <= MaxOf(all)
      /\ MaxOf(I) \in Nat /\ MaxOf(I) \in I \cup {0} /\ \A y \in I : y <= MaxOf(I)
  BY <1>2, <1>3, MaxOfFacts
<1>10. MaxOf(all) <= MaxOf(I)
  BY <1>2, <1>3, <1>6, MaxOfGrows
<1>11. MaxOf(I) <= MaxOf(all)
  BY <1>7, <1>9
<1>12. MaxOf(I) = MaxOf(all)
  BY <1>9, <1>10, <1>11
<1> QED BY <1>8, <1>9, <1>12 DEF all, I

\* A service is on no cycle, since nothing leads to one, and has no findings of
\* its own.
LEMMA ServicesAreTops ==
  ASSUME RunInv, Settled, NEW k \in DOMAIN assets, TypeOf(k) = "service"
  PROVE  ~OnCycle(k, edges) /\ PageImpact[k].ownScore = 0
<1>1. RowsOK /\ Scores(findings, scores) /\ IsFiniteSet(edges)
  BY SettledPage DEF RunInv
<1>2. ~OnCycle(k, edges)
  <2>1. SUFFICES ASSUME NEW e \in edges, k \in Reach({e.to}, edges)
                 PROVE  FALSE
    BY DEF OnCycle
  <2>2. PICK d \in edges : d.to = k
    BY <1>1, <2>1, ReachFinite
  <2> QED BY <1>1, <2>2 DEF RowsOK
<1>3. OwnScores(findings, scores, k) = {}
  BY <1>1 DEF RowsOK, OwnScores
<1>4. ownScore(findings, scores, k) = 0
  BY <1>1, <1>3, OwnFacts
<1> QED BY <1>2, <1>4, SettledImpact

\* The figures of a settled page agree with each other, on any finite graph:
\* the top impact is the top score; off the cycles impact follows from the
\* dependencies that are listed beside it; and that of a service from its
\* dependencies alone.
THEOREM FiguresOfAPageAgree == Spec => []FiguresAgree
<1>1. RunInv => FiguresAgree
  <2>1. SUFFICES ASSUME RunInv, Settled
                 PROVE  FiguresAgree
    BY DEF FiguresAgree
  <2>2. /\ List("page", "assets") = assets /\ List("page", "edges") = edges
        /\ List("page", "findings") = findings /\ Len(runs) \in 1..Len(runs)
    BY <2>1, SettledPage
  <2>3. DOMAIN PageImpact = DOMAIN assets
    BY <2>1, SettledImpact
  <2>4. LET top == summarize(List("page", "assets"), List("page", "findings"), PageImpact).topImpact
            last == runs[Len(runs)]
        IN  /\ top = MaxOf({scores[f] : f \in DOMAIN scores})
            /\ Returned(Len(runs)) /\ last.with = {} => top >= last.summary.topScore
    <3> DEFINE all == {scores[f] : f \in DOMAIN scores}
               last == runs[Len(runs)]
    <3>1. summarize(assets, findings, PageImpact).topImpact = MaxOf({PageImpact[k].impactScore : k \in DOMAIN PageImpact})
      BY DEF summarize
    <3>2. /\ MaxOf({PageImpact[k].impactScore : k \in DOMAIN PageImpact}) = MaxOf(all)
          /\ MaxOf(all) \in Nat /\ \A y \in all : y <= MaxOf(all)
      BY <2>1, SettledTop
    <3>3. ASSUME Returned(Len(runs)), last.with = {}
          PROVE  MaxOf(all) >= last.summary.topScore
      <4>1. last.summary.topScore \in {NoScore, 0} \cup all
        BY <2>1, <2>2, <3>3 DEF RunInv, SummaryOK, Returned
      <4>2. all \in SUBSET Nat
        BY <2>1 DEF RunInv, RowsOK
      <4> HIDE DEF all, last
      <4>3. NoScore = -1 /\ \A y \in all : y \in Nat
        BY <4>2 DEF NoScore
      <4>4. CASE last.summary.topScore \in all
        BY <3>2, <4>3, <4>4
      <4>5. CASE last.summary.topScore \in {-1, 0}
        BY <3>2, <4>5
      <4> QED BY <4>1, <4>3, <4>4, <4>5
    <3> QED BY <2>2, <3>1, <3>2, <3>3
  <2> DEFINE out(k) == {x \in edges : x.from = k}
             D(k) == {PageImpact[e.to].impactScore : e \in out(k)}
             deps(k) == {[to |-> e.to, type |-> e.type, impactScore |-> impactScoreOf(PageImpact, e.to)] : e \in out(k)}
  <2>5. ASSUME NEW k \in DOMAIN assets
        PROVE  {d.impactScore : d \in deps(k)} = D(k)
    <3> DEFINE row(e) == [to |-> e.to, type |-> e.type, impactScore |-> impactScoreOf(PageImpact, e.to)]
    <3>1. \A e \in out(k) : impactScoreOf(PageImpact, e.to) = PageImpact[e.to].impactScore
      BY <2>1, <2>3 DEF impactScoreOf, RunInv, RowsOK
    <3>2. \A e \in out(k) : row(e).impactScore = PageImpact[e.to].impactScore
      BY <3>1
    <3> HIDE DEF row
    <3>3. {d.impactScore : d \in {row(e) : e \in out(k)}} = D(k)
      BY <3>2
    <3> QED BY <3>3 DEF row
  <2>6. ASSUME NEW k \in DOMAIN PageRows, ~OnCycle(k, edges)
        PROVE  PageRows[k].impactScore =
                 MaxOf({PageRows[k].ownScore} \cup {d.impactScore : d \in PageRows[k].dependencies})
    <3>1. PageRows = buildImpactDetails(PageImpact, assets, edges, findings)
      BY <2>2 DEF PageRows
    <3>2. k \in DOMAIN assets
      BY <2>3, <2>6, <3>1 DEF buildImpactDetails
    <3>3. /\ PageRows[k].impactScore = PageImpact[k].impactScore /\ PageRows[k].ownScore = PageImpact[k].ownScore
          /\ PageRows[k].dependencies = deps(k)
      BY <2>3, <3>1, <3>2 DEF buildImpactDetails
    <3>4. PageImpact[k].impactScore = MaxOf({PageImpact[k].ownScore} \cup D(k))
      BY <2>1, <2>6, <3>2, SettledEquation
    <3>5. {d.impactScore : d \in deps(k)} = D(k)
      BY <2>5, <3>2
    <3> HIDE DEF D, deps
    <3> QED BY <3>3, <3>4, <3>5
  <2>7. ASSUME NEW k \in DOMAIN PageServices
        PROVE  PageServices[k].impactScore = MaxOf({d.impactScore : d \in PageServices[k].dependencies})
    <3>1. PageServices = buildServiceViews(assets, edges, PageImpact)
      BY <2>2 DEF PageServices
    <3>2. k \in DOMAIN assets /\ TypeOf(k) = "service"
      BY <2>7, <3>1 DEF buildServiceViews
    <3>3. /\ PageServices[k].impactScore = PageImpact[k].impactScore
          /\ PageServices[k].dependencies = deps(k)
      BY <2>3, <3>1, <3>2 DEF buildServiceViews, impactScoreOf
    <3>4. PageImpact[k].impactScore = MaxOf({0} \cup D(k))
      BY <2>1, <3>2, SettledEquation, ServicesAreTops
    <3>5. {d.impactScore : d \in deps(k)} = D(k)
      BY <2>5, <3>2
    <3> HIDE DEF D, deps
    <3>6. ({0} \cup D(k)) \cup {0} = D(k) \cup {0}
      OBVIOUS
    <3>7. MaxOf({0} \cup D(k)) = MaxOf(D(k))
      BY <3>6 DEF MaxOf
    <3> QED BY <3>3, <3>4, <3>5, <3>7
  <2> QED BY <2>4, <2>6, <2>7 DEF FiguresAgree
<1> QED BY <1>1, RunsKeepInvariant, PTL

\* An asset listed as impacted by a finding depends on that of the finding, or
\* on one of the same name, whatever was written between the reads.
THEOREM ImpactedAreDependent == Spec => []ImpactedByName
<1>1. RunInv => ImpactedByName
  <2>1. SUFFICES ASSUME RunInv, Whole, NEW f \in DOMAIN PageFindings, NEW k \in PageFindings[f].impacted
                 PROVE  \E x \in Reach({k}, edges) \ {k} :
                          NameIn(List("impact", "assets"), x) = PageFindings[f].assetName
    BY DEF ImpactedByName
  <2> DEFINE A == List("impact", "assets")
             E == List("impact", "edges")
             F == List("impact", "findings")
             S == List("impact", "scores")
             name == NameIn(List("page", "assets"), f[1])
             G == From(DOMAIN A, E)
  <2>2. PageFindings[f].assetName = name /\ PageFindings[f].impacted = impactedBy(PageImpact, name)
    BY DEF PageFindings, buildFindingDetails
  <2>3. PICK o \in Orders : PageImpact = computeImpact(A, F, S, E, o)
    <3>1. PICK o \in Orders :
            impact = <<computeImpact(page[<<"impact", "assets">>], page[<<"impact", "findings">>],
                                     page[<<"impact", "scores">>], page[<<"impact", "edges">>], o)>>
      BY <2>1 DEF Whole, RunInv, PageOK
    <3> QED BY <3>1 DEF PageImpact, List
  <2>4. /\ E \subseteq edges /\ IsFiniteSet(edges) /\ IsFiniteSet(DOMAIN A)
        /\ Scores(F, S)
    <3>1. {<<"impact", "edges">>, <<"impact", "assets">>, <<"impact", "findings">>, <<"impact", "scores">>} \subseteq DOMAIN page
      BY <2>1 DEF Whole, Reads, Lists
    <3>2. PageOK /\ RowsOK
      BY <2>1 DEF RunInv
    <3> QED BY <3>1, <3>2 DEF RowsOK, PageOK, List, Scores
  <2>5. Rates(PageImpact, A, F, S, E)
    <3>1. IsFiniteSet(E)
      BY <2>4, FS_Subset
    <3> HIDE DEF A, E, F, S
    <3>2. Computable(A, F, S, E, o)
      BY <2>4, <3>1, OrdersAreLists DEF Computable
    <3> QED BY <2>3, <3>2, ImpactFacts
  <2> HIDE DEF A, E, F, S, name
  <2>6. k \in DOMAIN PageImpact /\ name \in PageImpact[k].rootCause /\ PageImpact[k].asset # name
    BY <2>2 DEF impactedBy
  <2>7. k \in DOMAIN A /\ PageImpact[k].asset = A[k].name
    BY <2>5, <2>6 DEF Rates
  <2>8. PICK x \in Reach({k}, G) : PageImpact[k].rootCause = {NameIn(A, x)}
    BY <2>5, <2>6, <2>7 DEF Rates
  <2>9. x \in Reach({k}, edges)
    <3>1. G \subseteq edges
      BY <2>4 DEF From
    <3> HIDE DEF G
    <3> QED BY <2>4, <2>8, <3>1, ReachGrows
  <2>10. name = NameIn(A, x)
    BY <2>6, <2>8
  <2>11. x # k
    BY <2>6, <2>7, <2>10 DEF NameIn
  <2> QED BY <2>2, <2>9, <2>10, <2>11 DEF A
<1> QED BY <1>1, RunsKeepInvariant, PTL

=============================================================================
