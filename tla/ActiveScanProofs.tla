-------------------------- MODULE ActiveScanProofs --------------------------
(***************************************************************************)
(* Who an active scan asks, and what it says of them, for any word list,   *)
(* limit, pages, logs and answers.                                         *)
(***************************************************************************)
EXTENDS ActiveScan, SelectionsProofs, SequenceTheorems

\* A list, whatever its items are.
List(s) == Len(s) \in Nat /\ s = [i \in 1..Len(s) |-> s[i]]

ItemsOf(s) == {s[i] : i \in Places(s)}

\* Lists are the sequences over their items.
LEMMA ListIsSeq ==
  ASSUME NEW s, List(s)
  PROVE  s \in Seq(ItemsOf(s)) /\ \A i \in Places(s) : s[i] \in ItemsOf(s)
<1>1. \A i \in Places(s) : s[i] \in ItemsOf(s)
  BY DEF ItemsOf
<1>2. s \in [1..Len(s) -> ItemsOf(s)] /\ Len(s) \in Nat
  BY <1>1 DEF List, Places
<1> QED BY <1>1, <1>2

\* A sequence is a list of any set that holds its items.
LEMMA SeqIsList ==
  ASSUME NEW S, NEW s \in Seq(S)
  PROVE  List(s) /\ \A i \in Places(s) : s[i] \in S
<1>1. Len(s) \in Nat /\ s \in [1..Len(s) -> S]
  OBVIOUS
<1> QED BY <1>1 DEF List, Places

\* A function on the first numbers is a list.
LEMMA MadeList ==
  ASSUME NEW n \in Nat, NEW s, DOMAIN s = 1..n, s = [i \in 1..n |-> s[i]]
  PROVE  List(s) /\ Len(s) = n
<1> DEFINE S == {s[i] : i \in 1..n}
<1>1. \A i \in 1..n : s[i] \in S
  OBVIOUS
<1>2. s \in [1..n -> S]
  BY <1>1
<1>3. s \in Seq(S) /\ Len(s) = n
  BY <1>2
<1> QED BY <1>3 DEF List

\* The place in a joined list of the j-th item of its second part.
Past(s, j) == Len(s) + j

\* Two lists joined: the places of the one, and then those of the other.
Joins(u, s, t) ==
  /\ List(u) /\ Len(u) = Len(s) + Len(t)
  /\ \A i \in Places(s) : i \in Places(u) /\ u[i] = s[i]
  /\ \A i \in Places(t) : Past(s, i) \in Places(u) /\ u[Past(s, i)] = t[i]
  /\ \A i \in Places(u) : i \in Places(s) \/ \E j \in Places(t) : i = Past(s, j)

\* Two lists joined: the first one's items, then the second's.
LEMMA ListsJoined ==
  ASSUME NEW s, NEW t, List(s), List(t)
  PROVE  Joins(s \o t, s, t)
<1> DEFINE u == s \o t
<1> DEFINE S == ItemsOf(s) \cup ItemsOf(t)
           n == Len(s)
           m == Len(t)
<1>1. s \in Seq(ItemsOf(s)) /\ t \in Seq(ItemsOf(t)) /\ n \in Nat /\ m \in Nat
  BY ListIsSeq DEF List
<1>2. s \in Seq(S) /\ t \in Seq(S)
  BY <1>1
<1> HIDE DEF S
<1>3. /\ s \o t \in Seq(S) /\ Len(s \o t) = Len(s) + Len(t)
      /\ \A i \in 1..Len(s) : (s \o t)[i] = s[i]
      /\ \A i \in 1..Len(t) : (s \o t)[Len(s) + i] = t[i]
  BY <1>2, Joined
<1>4. List(u)
  BY <1>3, SeqIsList
<1>5. /\ Len(u) = n + m
      /\ \A i \in 1..n : u[i] = s[i]
      /\ \A i \in 1..m : u[n + i] = t[i]
  BY <1>1, <1>3
<1>6. Places(s) = 1..n /\ Places(t) = 1..m /\ Places(u) = 1..Len(u)
  BY DEF Places
<1>7. \A i : Past(s, i) = n + i
  BY DEF Past
<1> HIDE DEF n, m, u
<1>8. /\ \A i \in 1..n : i \in 1..(n + m)
      /\ \A i \in 1..m : n + i \in 1..(n + m)
      /\ \A i \in 1..(n + m) : i \in 1..n \/ \E j \in 1..m : i = n + j
  BY <1>1, JoinedPlaces
<1>9. /\ Len(u) = n + m
      /\ \A i \in Places(s) : i \in Places(u) /\ u[i] = s[i]
      /\ \A i \in Places(t) : Past(s, i) \in Places(u) /\ u[Past(s, i)] = t[i]
      /\ \A i \in Places(u) : i \in Places(s) \/ \E j \in Places(t) : i = Past(s, j)
  <2>1. Places(u) = 1..(n + m)
    BY <1>5, <1>6
  <2>2. \A i \in Places(s) : i \in Places(u) /\ u[i] = s[i]
    BY Zenon, <1>5, <1>6, <1>8, <2>1
  <2>3. \A i \in Places(t) : Past(s, i) \in Places(u) /\ u[Past(s, i)] = t[i]
    BY Zenon, <1>5, <1>6, <1>7, <1>8, <2>1
  <2>4. \A i \in Places(u) : i \in Places(s) \/ \E j \in Places(t) : i = Past(s, j)
    BY Zenon, <1>6, <1>7, <1>8, <2>1
  <2> QED BY <1>5, <2>2, <2>3, <2>4
<1> QED BY <1>4, <1>9 DEF n, m, u, Joins

\* So an item of the whole is one of the first part or of the second.
LEMMA JoinedItems ==
  ASSUME NEW u, NEW s, NEW t, Joins(u, s, t), NEW i \in Places(u)
  PROVE  \/ i \in Places(s) /\ u[i] = s[i]
         \/ \E j \in Places(t) : i = Past(s, j) /\ u[i] = t[j]
BY DEF Joins

\* A list of the places in a set.
LEMMA Ordered ==
  ASSUME NEW N \in Nat, NEW S \in SUBSET (1..N)
  PROVE  /\ List(InOrder(S)) /\ Len(InOrder(S)) = Cardinality(S) /\ Cardinality(S) \in Nat
         /\ \A n \in Places(InOrder(S)) : InOrder(S)[n] = Nth(S, n) /\ InOrder(S)[n] \in S
         /\ \A k \in S : \E n \in Places(InOrder(S)) : InOrder(S)[n] = k
         /\ \A m, n \in Places(InOrder(S)) : m < n => InOrder(S)[m] < InOrder(S)[n]
<1>1. S \in SUBSET (0..N)
  OBVIOUS
<1>2. /\ Cardinality(S) \in Nat
      /\ \A n \in 1..Cardinality(S) : Nth(S, n) \in S
      /\ \A k \in S : \E n \in 1..Cardinality(S) : Nth(S, n) = k
      /\ \A m, n \in 1..Cardinality(S) : m < n => Nth(S, m) < Nth(S, n)
  BY <1>1, NthLists
<1>3. List(InOrder(S)) /\ Len(InOrder(S)) = Cardinality(S)
  BY <1>2, MadeList DEF InOrder
<1>4. \A n \in 1..Cardinality(S) : InOrder(S)[n] = Nth(S, n)
  BY DEF InOrder
<1> QED BY <1>2, <1>3, <1>4 DEF Places

\* A selection from a list.
LEMMA Chosen ==
  ASSUME NEW s, List(s), NEW S \in SUBSET Places(s)
  PROVE  /\ List(ItemsAt(s, S)) /\ Len(ItemsAt(s, S)) = Cardinality(S) /\ Cardinality(S) \in Nat
         /\ \A n \in Places(ItemsAt(s, S)) :
              /\ n \in Places(InOrder(S)) /\ InOrder(S)[n] \in S
              /\ ItemsAt(s, S)[n] = s[InOrder(S)[n]]
         /\ \A k \in S : \E n \in Places(ItemsAt(s, S)) : InOrder(S)[n] = k
         /\ \A m, n \in Places(ItemsAt(s, S)) : m < n => InOrder(S)[m] < InOrder(S)[n]
<1>1. Len(s) \in Nat /\ S \in SUBSET (1..Len(s))
  BY DEF List, Places
<1>2. /\ List(InOrder(S)) /\ Len(InOrder(S)) = Cardinality(S) /\ Cardinality(S) \in Nat
      /\ \A n \in Places(InOrder(S)) : InOrder(S)[n] = Nth(S, n) /\ InOrder(S)[n] \in S
      /\ \A k \in S : \E n \in Places(InOrder(S)) : InOrder(S)[n] = k
      /\ \A m, n \in Places(InOrder(S)) : m < n => InOrder(S)[m] < InOrder(S)[n]
  BY <1>1, Ordered
<1>3. List(ItemsAt(s, S)) /\ Len(ItemsAt(s, S)) = Cardinality(S)
  BY <1>2, MadeList DEF ItemsAt
<1>4. \A n \in 1..Cardinality(S) : ItemsAt(s, S)[n] = s[Nth(S, n)]
  BY DEF ItemsAt
<1> QED BY <1>2, <1>3, <1>4 DEF Places

\* Taking duplicates out: the rest has none, and holds every item once; what
\* comes in after the first w items leaves none of these out.
LEMMA DistinctFacts ==
  ASSUME NEW s, List(s)
  PROVE  LET d == Distinct(s)
         IN  /\ List(d) /\ Len(d) \in Nat
             /\ \A n \in Places(d) : \E i \in Places(s) : d[n] = s[i]
             /\ \A m, n \in Places(d) : d[m] = d[n] => m = n
             /\ \A n \in Places(d), w \in 0..Len(s) :
                  \/ \E i \in 1..w : d[n] = s[i]
                  \/ \A i \in 1..w : \E m \in Places(d) : m < n /\ d[m] = s[i]
<1> DEFINE S == {i \in 1..Len(s) : \A j \in 1..(i - 1) : s[j] # s[i]}
           d == ItemsAt(s, S)
           at == InOrder(S)
<1>1. Len(s) \in Nat /\ Places(s) = 1..Len(s)
  BY DEF List, Places
<1>2. S \in SUBSET Places(s)
  BY <1>1
<1>3. \A i \in S : \A j \in 1..Len(s) : j < i => s[j] # s[i]
  <2>1. ASSUME NEW i \in S, NEW j \in 1..Len(s), j < i
        PROVE  s[j] # s[i]
    <3>1. j \in 1..(i - 1)
      BY <1>1, <2>1
    <3> QED BY <3>1
  <2> QED BY <2>1
<1>4. ASSUME NEW i \in 1..Len(s)
      PROVE  \E k \in S : k <= i /\ s[k] = s[i]
  <2> DEFINE T == {k \in 1..Len(s) : s[k] = s[i]}
  <2>1. T \in SUBSET Nat /\ T # {}
    BY <1>1
  <2>2. PICK k \in T : \A l \in T : k <= l
    BY <2>1, LeastMember
  <2>3. \A l \in 1..(k - 1) : l \in 1..Len(s) /\ l < k
    BY <1>1
  <2>4. \A l \in 1..(k - 1) : s[l] # s[k]
    BY <1>1, <2>2, <2>3
  <2>5. k \in S /\ s[k] = s[i] /\ k <= i
    BY <2>2, <2>4
  <2> QED BY <2>5
<1> HIDE DEF S
<1>5. /\ List(d) /\ Len(d) \in Nat
      /\ \A n \in Places(d) : at[n] \in S /\ d[n] = s[at[n]]
      /\ \A k \in S : \E n \in Places(d) : at[n] = k
      /\ \A m, n \in Places(d) : m < n => at[m] < at[n]
  BY <1>2, Chosen DEF List
<1> HIDE DEF at, d
<1>6. \A n \in Places(d) : n \in Nat /\ at[n] \in 1..Len(s)
  <2>1. Places(d) = 1..Len(d)
    BY DEF Places
  <2>2. \A n \in Places(d) : n \in Nat
    BY <1>5, <2>1
  <2> QED BY <1>1, <1>2, <1>5, <2>2
<1>7. ASSUME NEW m \in Places(d), NEW n \in Places(d), d[m] = d[n]
      PROVE  m = n
  <2>1. ~ (m < n) /\ ~ (n < m)
    BY <1>3, <1>5, <1>6, <1>7
  <2> QED BY <1>6, <2>1
<1>8. ASSUME NEW n \in Places(d), NEW w \in 0..Len(s), ~ \E i \in 1..w : d[n] = s[i],
             NEW i \in 1..w
      PROVE  \E m \in Places(d) : m < n /\ d[m] = s[i]
  <2>1. ~ (at[n] <= w)
    <3>1. at[n] <= w => at[n] \in 1..w
      BY <1>1, <1>6
    <3> QED BY <1>5, <1>8, <3>1
  <2>2. i \in 1..Len(s) /\ w \in Nat
    BY <1>1
  <2>3. PICK k \in S : k <= i /\ s[k] = s[i]
    BY <1>4, <2>2
  <2>4. PICK m \in Places(d) : at[m] = k
    BY <1>5
  <2>5. at[m] < at[n]
    BY <1>1, <1>6, <2>1, <2>2, <2>3, <2>4
  <2>6. m < n
    <3>1. ~ (n < m) /\ n # m
      BY <1>5, <1>6, <2>5
    <3> QED BY <1>6, <3>1
  <2> QED BY <1>5, <2>3, <2>4, <2>6
<1>9. \A n \in Places(d) : \E i \in Places(s) : d[n] = s[i]
  BY <1>1, <1>5, <1>6
<1>10. d = Distinct(s)
  BY DEF d, S, Distinct
<1>11. \A n \in Places(d), w \in 0..Len(s) :
         \/ \E i \in 1..w : d[n] = s[i]
         \/ \A i \in 1..w : \E m \in Places(d) : m < n /\ d[m] = s[i]
  BY <1>8
<1> QED BY <1>5, <1>7, <1>9, <1>10, <1>11

\* What subdomains.ts makes of a word of the list.
Word(root, i) == [root EXCEPT !.labels = Append(@, Wordlist[i])]

\* It is a host below the root.
LEMMA WordBelow ==
  ASSUME NEW root \in Host, NEW i \in Places(Wordlist)
  PROVE  Below(Word(root, i), root)
<1> DEFINE l == root.labels
           w == Wordlist[i]
           a == Append(l, w)
           b == SubSeq(a, 1, Len(l))
<1>1. l \in Seq(Labels) /\ w \in Labels /\ Len(l) \in Nat
  <2>1. Wordlist \in Seq(Labels)
    BY ScanAssumption
  <2> QED BY <2>1 DEF Host, Places
<1>2. Word(root, i).labels = a /\ Word(root, i).domain = root.domain
  BY DEF Word, Host
<1> HIDE DEF l, w
<1>3. /\ a \in Seq(Labels) /\ Len(a) = Len(l) + 1
      /\ \A j \in 1..Len(l) : a[j] = l[j]
  BY <1>1, AppendProperties
<1> HIDE DEF a
<1>4. \A j \in 1..Len(l) : a[j] \in Labels
  BY <1>1, <1>3
<1>5. /\ b \in Seq(Labels) /\ Len(b) = Len(l)
      /\ \A j \in 1..Len(l) : b[j] = a[j]
  <2>1. /\ SubSeq(a, 1, Len(l)) \in Seq(Labels)
        /\ Len(SubSeq(a, 1, Len(l))) = IF 1 <= Len(l) THEN Len(l) - 1 + 1 ELSE 0
        /\ \A j \in 1 .. Len(l) - 1 + 1 : SubSeq(a, 1, Len(l))[j] = a[1 + j - 1]
    <3>1. 1 \in Int /\ Len(l) \in Int
      BY <1>1
    <3> QED BY <1>4, <3>1, SubSeqProperties
  <2> QED BY <1>1, <2>1
<1> HIDE DEF b
<1>6. b = l
  <2>1. \A j \in 1..Len(b) : b[j] = l[j]
    BY <1>3, <1>5
  <2> QED BY <1>1, <1>5, <2>1, SeqEqual
<1>7. Len(a) > Len(l)
  BY <1>1, <1>3
<1> QED BY <1>2, <1>6, <1>7 DEF Below, a, b, l

\* Candidates are below the root, no two are one host, and names of the log are
\* among them only if all words are.
CandidatesOK(c, root) ==
  LET words == {[root EXCEPT !.labels = Append(@, Wordlist[i])] : i \in Places(Wordlist)}
      asked == {c[i] : i \in Places(c)}
  IN  /\ List(c) /\ Len(c) <= MaxCandidates
      /\ \A i \in Places(c) : Below(c[i], root)
      /\ asked \subseteq words \/ words \subseteq asked
      /\ \A i, j \in Places(c) : c[i] = c[j] => i = j

\* While no host is a candidate all is well with them.
LEMMA NoCandidates ==
  ASSUME NEW root
  PROVE  CandidatesOK(<<>>, root)
<1>1. List(<<>>) /\ Len(<<>>) <= MaxCandidates /\ Places(<<>>) = {}
  BY ScanAssumption DEF List, Places
<1> QED BY <1>1 DEF CandidatesOK

\* The cut of a list.
LEMMA CutFacts ==
  ASSUME NEW s, List(s), NEW k \in Nat, k <= Len(s)
  PROVE  /\ List(SubSeq(s, 1, k)) /\ Len(SubSeq(s, 1, k)) = k
         /\ \A i \in 1..k : SubSeq(s, 1, k)[i] = s[i] /\ i \in Places(s)
<1> DEFINE b == SubSeq(s, 1, k)
<1>1. Len(s) \in Nat /\ s \in Seq(ItemsOf(s)) /\ \A i \in 1..k : i \in Places(s) /\ s[i] \in ItemsOf(s)
  BY ListIsSeq DEF List, Places
<1>2. /\ SubSeq(s, 1, k) \in Seq(ItemsOf(s))
      /\ Len(SubSeq(s, 1, k)) = IF 1 <= k THEN k - 1 + 1 ELSE 0
      /\ \A j \in 1 .. k - 1 + 1 : SubSeq(s, 1, k)[j] = s[1 + j - 1]
  BY <1>1, SubSeqProperties
<1> HIDE DEF b
<1>3. b \in Seq(ItemsOf(s)) /\ Len(b) = k /\ \A j \in 1..k : b[j] = s[j]
  BY <1>2 DEF b
<1>4. List(b)
  BY <1>3, SeqIsList
<1> QED BY <1>1, <1>3, <1>4 DEF b

\* The candidates of enumerateSubdomains: hosts below the root, each once, all words
\* of the list before any name of the log.
LEMMA CandidatesMade ==
  ASSUME NEW root \in Host, NEW names, List(names), \A i \in Places(names) : Below(names[i], root)
  PROVE  CandidatesOK(candidatesOf(Wordlist, root, names, MaxCandidates), root)
<1> DEFINE words == [i \in 1..Len(Wordlist) |-> Word(root, i)]
           w == Len(Wordlist)
           both == words \o names
           all == Distinct(both)
           k == IF Len(all) < MaxCandidates THEN Len(all) ELSE MaxCandidates
           c == SubSeq(all, 1, k)
           wordSet == {Word(root, i) : i \in Places(Wordlist)}
           asked == {c[i] : i \in Places(c)}
<1>0. candidatesOf(Wordlist, root, names, MaxCandidates) = c
  BY DEF candidatesOf, Word
<1>1. w \in Nat /\ Places(Wordlist) = 1..w /\ MaxCandidates \in Nat /\ MaxCandidates > 0
  BY ScanAssumption DEF Places
<1>2. List(words) /\ Len(words) = w /\ \A i \in 1..w : words[i] = Word(root, i)
  BY <1>1, MadeList
<1> HIDE DEF words, w
<1>3. /\ List(both) /\ Len(both) = w + Len(names)
      /\ \A i \in 1..w : i \in Places(both) /\ both[i] = Word(root, i)
      /\ \A i \in Places(both) : i \in 1..w \/ \E j \in Places(names) : both[i] = names[j]
  <2>1. Places(words) = 1..w
    BY <1>2 DEF Places
  <2>2. Joins(both, words, names)
    BY <1>2, ListsJoined
  <2> HIDE DEF both
  <2>3. /\ List(both) /\ Len(both) = Len(words) + Len(names)
        /\ \A i \in Places(words) : i \in Places(both) /\ both[i] = words[i]
        /\ \A i \in Places(names) : both[Past(words, i)] = names[i]
        /\ \A i \in Places(both) : i \in Places(words) \/ \E j \in Places(names) : i = Past(words, j)
    BY <2>2 DEF Joins
  <2> QED BY <1>2, <2>1, <2>3
<1> HIDE DEF both
<1>4. Len(names) \in Nat /\ w \in 0..Len(both)
  BY <1>1, <1>3 DEF List
<1>5. \A i \in Places(both) : Below(both[i], root)
  BY <1>1, <1>3, WordBelow
<1>6. /\ List(all) /\ Len(all) \in Nat
      /\ \A n \in Places(all) : \E i \in Places(both) : all[n] = both[i]
      /\ \A m, n \in Places(all) : all[m] = all[n] => m = n
      /\ \A n \in Places(all), v \in 0..Len(both) :
           \/ \E i \in 1..v : all[n] = both[i]
           \/ \A i \in 1..v : \E m \in Places(all) : m < n /\ all[m] = both[i]
  BY <1>3, DistinctFacts
<1> HIDE DEF all
<1>7. k \in Nat /\ k <= Len(all) /\ k <= MaxCandidates
  BY <1>1, <1>6
<1> HIDE DEF k
<1>8. /\ List(c) /\ Len(c) = k /\ Places(c) = 1..k
      /\ \A i \in Places(c) : c[i] = all[i] /\ i \in Places(all)
  BY <1>6, <1>7, CutFacts DEF Places
<1> HIDE DEF c
<1>9. \A i \in Places(c) : Below(c[i], root)
  BY <1>5, <1>6, <1>8
<1>10. \A i, j \in Places(c) : c[i] = c[j] => i = j
  BY <1>6, <1>8
<1>11. ASSUME ~ (asked \subseteq wordSet)
       PROVE  wordSet \subseteq asked
  <2>1. PICK n \in Places(c) : c[n] \notin wordSet
    BY <1>11
  <2>2. ~ \E i \in 1..w : all[n] = both[i]
    BY <1>1, <1>3, <1>8, <2>1
  <2>3. \A i \in 1..w : \E m \in Places(all) : m < n /\ all[m] = both[i]
    BY <1>4, <1>6, <1>8, <2>2
  <2>4. ASSUME NEW i \in 1..w
        PROVE  Word(root, i) \in asked
    <3>1. PICK m \in Places(all) : m < n /\ all[m] = both[i]
      BY <2>3
    <3>2. m \in 1..k
      BY <1>6, <1>7, <1>8, <3>1 DEF Places
    <3>3. m \in Places(c) /\ c[m] = Word(root, i)
      BY <1>3, <1>8, <3>1, <3>2
    <3> QED BY <3>3
  <2> QED BY <1>1, <2>4
<1>12. \/ {c[i] : i \in Places(c)} \subseteq
              {[root EXCEPT !.labels = Append(@, Wordlist[i])] : i \in Places(Wordlist)}
       \/ {[root EXCEPT !.labels = Append(@, Wordlist[i])] : i \in Places(Wordlist)}
              \subseteq {c[i] : i \in Places(c)}
  BY <1>11, Zenon DEF Word
<1> HIDE DEF wordSet, asked
<1>13. CandidatesOK(c, root)
  BY <1>7, <1>8, <1>9, <1>10, <1>12 DEF CandidatesOK
<1> QED BY <1>0, <1>13, Zenon

\* A name of the log is taken only if it is below the root.
LEMMA LogNames ==
  ASSUME NEW root, NEW payload \in Payloads
  PROVE  LET names == parseCrtShNames(payload, root)
         IN  List(names) /\ \A i \in Places(names) : Below(names[i], root)
<1> DEFINE S == {i \in 1..Len(payload) : LET n == payload[i] IN
                   n.plain /\ n.host # root /\ Below(n.host, root)}
           named == ItemsAt(payload, S)
           hosts == [i \in 1..Len(named) |-> named[i].host]
           d == Distinct(hosts)
<1>1. List(payload)
  BY WorldAssumption, SeqIsList
<1>2. S \in SUBSET Places(payload) /\ \A i \in S : Below(payload[i].host, root)
  BY DEF Places
<1> HIDE DEF S
<1>3. /\ List(named) /\ Len(named) = Cardinality(S) /\ Cardinality(S) \in Nat
      /\ \A n \in Places(named) : InOrder(S)[n] \in S /\ named[n] = payload[InOrder(S)[n]]
  BY <1>1, <1>2, Chosen
<1> HIDE DEF named
<1>4. /\ List(hosts) /\ Len(hosts) = Len(named)
      /\ \A n \in Places(named) : hosts[n] = named[n].host
  <2>1. Len(named) \in Nat
    BY <1>3
  <2> QED BY <2>1, MadeList DEF Places
<1> HIDE DEF hosts
<1>5. \A n \in Places(hosts) : Below(hosts[n], root)
  <2>1. Places(hosts) = Places(named)
    BY <1>4 DEF Places
  <2> QED BY <1>2, <1>3, <1>4, <2>1
<1>6. List(d) /\ \A n \in Places(d) : \E i \in Places(hosts) : d[n] = hosts[i]
  BY <1>4, DistinctFacts
<1>7. d = parseCrtShNames(payload, root)
  BY DEF parseCrtShNames, hosts, named, S
<1> QED BY <1>5, <1>6, <1>7

-----------------------------------------------------------------------------
(* What a page amounts to.                                                 *)

\* Findings of which none is about a takeover.
Quiet(fs) == List(fs) /\ \A i \in Places(fs) : fs[i].rule # "SUBDOMAIN-TAKEOVER"

\* An empty list has no takeover finding.
LEMMA QuietEmpty == Quiet(<<>>)
BY DEF Quiet, List, Places

\* Nor has a list of one finding of another rule.
LEMMA QuietOne ==
  ASSUME NEW f, f.rule # "SUBDOMAIN-TAKEOVER"
  PROVE  Quiet(<<f>>)
<1>1. Len(<<f>>) = 1 /\ <<f>>[1] = f /\ Places(<<f>>) = {1}
  BY DEF Places
<1>2. <<f>> \in Seq({f})
  OBVIOUS
<1>3. List(<<f>>)
  BY <1>2, SeqIsList
<1> QED BY <1>1, <1>3 DEF Quiet

\* Nor two lists joined that have none.
LEMMA QuietJoined ==
  ASSUME NEW s, NEW t, Quiet(s), Quiet(t)
  PROVE  Quiet(s \o t)
<1> DEFINE u == s \o t
<1>1. List(s) /\ List(t)
  BY DEF Quiet
<1>2. Joins(u, s, t)
  BY <1>1, ListsJoined
<1> HIDE DEF u
<1>3. Quiet(u)
  BY <1>2 DEF Quiet, Joins
<1> QED BY <1>3 DEF u

\* Nor a finding of another rule made under a condition.
LEMMA QuietWhen ==
  ASSUME NEW condition, NEW f, f.rule # "SUBDOMAIN-TAKEOVER"
  PROVE  Quiet(When(condition, f))
BY QuietEmpty, QuietOne DEF When

\* Nor a list whose findings are all of other rules.
LEMMA QuietMade ==
  ASSUME NEW n \in Nat, NEW fs, DOMAIN fs = 1..n, fs = [i \in 1..n |-> fs[i]],
         \A i \in 1..n : fs[i].rule # "SUBDOMAIN-TAKEOVER"
  PROVE  Quiet(fs)
<1>1. List(fs) /\ Len(fs) = n
  BY MadeList
<1> QED BY <1>1 DEF Quiet, Places

\* evaluateTls, evaluateHeaders, evaluateSri and buildSecretFindings report no
\* takeover.
LEMMA QuietTls ==
  ASSUME NEW p
  PROVE  Quiet(evaluateTls(p))
<1> DEFINE missing == OnRoot("TLS-MISSING", "HIGH")
           expired == OnRoot("TLS-EXPIRED", "HIGH")
           untrusted == OnRoot("TLS-UNTRUSTED", "HIGH")
           weak == OnRoot("TLS-WEAK-PROTOCOL", "MEDIUM")
<1>1. \A f \in {missing, expired, untrusted, weak} : f.rule # "SUBDOMAIN-TAKEOVER"
  BY DEF OnRoot, makeFinding
<1> HIDE DEF missing, expired, untrusted, weak
<1>2. Quiet(<<missing>>)
  BY <1>1, QuietOne
<1>3. /\ Quiet(When(p.tls.expired, expired)) /\ Quiet(When(~p.tls.authorized, untrusted))
      /\ Quiet(When(p.tls.weak, weak))
  BY <1>1, QuietWhen
<1> DEFINE a == When(p.tls.expired, expired)
           b == When(~p.tls.authorized, untrusted)
           d == When(p.tls.weak, weak)
<1>4. Quiet(a \o b \o d)
  <2> HIDE DEF a, b, d
  <2>1. Quiet(a) /\ Quiet(b) /\ Quiet(d)
    BY <1>3 DEF a, b, d
  <2>2. Quiet(a \o b)
    BY <2>1, QuietJoined
  <2> QED BY <2>1, <2>2, QuietJoined
<1>5. evaluateTls(p) = IF ~p.finalUrl.https THEN <<missing>>
                       ELSE IF ~p.tls.known THEN <<>> ELSE a \o b \o d
  BY Zenon DEF evaluateTls, missing, expired, untrusted, weak
<1> HIDE DEF a, b, d
<1> QED BY <1>2, <1>4, <1>5, QuietEmpty

\* Nor are those of the headers.
LEMMA QuietHeaders ==
  ASSUME NEW headers
  PROVE  Quiet(evaluateHeaders(headers))
<1> DEFINE S == {i \in 1..Len(HEADER_RULES) : HEADER_RULES[i].header \notin headers}
           missing == ItemsAt(HEADER_RULES, S)
           fs == [i \in 1..Len(missing) |->
                    makeFinding(1, "HEADER-MISSING", {missing[i].header}, missing[i].severity)]
<1>1. HEADER_RULES \in Seq({HEADER_RULES[i] : i \in 1..4})
  <2> DEFINE a == [header |-> "HSTS", severity |-> "MEDIUM"]
             b == [header |-> "CSP", severity |-> "MEDIUM"]
             c == [header |-> "XFO", severity |-> "LOW"]
             d == [header |-> "XCTO", severity |-> "LOW"]
  <2>1. HEADER_RULES = <<a, b, c, d>>
    BY DEF HEADER_RULES
  <2> HIDE DEF a, b, c, d
  <2>2. /\ HEADER_RULES[1] = a /\ HEADER_RULES[2] = b
        /\ HEADER_RULES[3] = c /\ HEADER_RULES[4] = d
    BY <2>1
  <2>3. <<a, b, c, d>> \in Seq({a, b, c, d})
    OBVIOUS
  <2>4. {HEADER_RULES[i] : i \in 1..4} = {a, b, c, d}
    BY <2>2
  <2> QED BY <2>1, <2>3, <2>4
<1>2. List(HEADER_RULES) /\ S \in SUBSET Places(HEADER_RULES)
  BY <1>1, SeqIsList DEF Places
<1> HIDE DEF S
<1>3. Len(missing) \in Nat
  BY <1>2, Chosen
<1> HIDE DEF missing
<1>4. \A i \in 1..Len(missing) : fs[i].rule = "HEADER-MISSING"
  BY DEF makeFinding
<1>5. DOMAIN fs = 1..Len(missing) /\ fs = [i \in 1..Len(missing) |-> fs[i]]
  OBVIOUS
<1>6. fs = evaluateHeaders(headers)
  BY DEF evaluateHeaders, missing, S
<1> HIDE DEF fs
<1>7. Quiet(fs)
  BY <1>3, <1>4, <1>5, QuietMade
<1> QED BY <1>6, <1>7

\* Nor are those of scripts without integrity.
LEMMA QuietSri ==
  ASSUME NEW scripts, List(scripts)
  PROVE  Quiet(evaluateSri(scripts))
<1> DEFINE S == {i \in 1..Len(scripts) : scripts[i].isThirdParty /\ ~scripts[i].integrity}
           bare == ItemsAt(scripts, S)
           fs == [i \in 1..Len(bare) |-> makeFinding(1, "SRI-MISSING", {bare[i].src}, "MEDIUM")]
<1>1. S \in SUBSET Places(scripts)
  BY DEF Places
<1> HIDE DEF S
<1>2. Len(bare) \in Nat
  BY <1>1, Chosen
<1> HIDE DEF bare
<1>3. \A i \in 1..Len(bare) : fs[i].rule = "SRI-MISSING"
  BY DEF makeFinding
<1>4. DOMAIN fs = 1..Len(bare) /\ fs = [i \in 1..Len(bare) |-> fs[i]]
  OBVIOUS
<1>5. fs = evaluateSri(scripts)
  BY DEF evaluateSri, bare, S
<1> HIDE DEF fs
<1>6. Quiet(fs)
  BY <1>2, <1>3, <1>4, QuietMade
<1> QED BY <1>5, <1>6

\* Nor are those of secrets.
LEMMA QuietSecrets ==
  ASSUME NEW secrets, List(secrets)
  PROVE  Quiet(buildSecretFindings(secrets))
<1> DEFINE heads == [i \in 1..Len(secrets) |->
                       [pattern |-> secrets[i].pattern, head |-> secrets[i].head]]
           matches == Distinct(heads)
           fs == [i \in 1..Len(matches) |->
                    makeFinding(1, "SECRET-EXPOSED", {matches[i]},
                                SecretSeverity[matches[i].pattern])]
<1>1. Len(secrets) \in Nat
  BY DEF List
<1>2. List(heads)
  BY <1>1, MadeList
<1> HIDE DEF heads
<1>3. Len(matches) \in Nat
  BY <1>2, DistinctFacts
<1>4. matches = scanSecrets(secrets)
  BY DEF scanSecrets, heads
<1> HIDE DEF matches
<1>5. \A i \in 1..Len(matches) : fs[i].rule = "SECRET-EXPOSED"
  BY DEF makeFinding
<1>6. DOMAIN fs = 1..Len(matches) /\ fs = [i \in 1..Len(matches) |-> fs[i]]
  OBVIOUS
<1>7. fs = buildSecretFindings(secrets)
  BY <1>4 DEF buildSecretFindings
<1> HIDE DEF fs
<1>8. Quiet(fs)
  BY <1>3, <1>5, <1>6, QuietMade
<1> QED BY <1>7, <1>8

\* The scripts of a page, and the libraries they name, are lists; no library
\* comes twice.
LEMMA ScriptsListed ==
  ASSUME NEW tags, List(tags), NEW page
  PROVE  List(parseScripts(tags, page))
<1> DEFINE S == {i \in 1..Len(tags) : tags[i].src \in {"relative", "absolute"}}
           external == ItemsAt(tags, S)
           host(t) == IF t.src = "relative" THEN page ELSE t.host
           scripts == [i \in 1..Len(external) |->
                         [src |-> [host |-> host(external[i]), lib |-> external[i].lib],
                          integrity |-> external[i].integrity,
                          isThirdParty |-> host(external[i]) # page]]
<1>1. S \in SUBSET Places(tags)
  BY DEF Places
<1> HIDE DEF S
<1>2. Len(external) \in Nat
  BY <1>1, Chosen
<1> HIDE DEF external
<1>3. DOMAIN scripts = 1..Len(external) /\ scripts = [i \in 1..Len(external) |-> scripts[i]]
  OBVIOUS
<1>4. scripts = parseScripts(tags, page)
  BY DEF parseScripts, external, S
<1> HIDE DEF scripts
<1>5. List(scripts)
  BY <1>2, <1>3, MadeList
<1> QED BY <1>4, <1>5

\* The libraries of a page are a list, each once.
LEMMA LibsListed ==
  ASSUME NEW scripts, List(scripts)
  PROVE  LET libs == exposedLibs(scripts)
         IN  List(libs) /\ \A m, n \in Places(libs) : libs[m] = libs[n] => m = n
<1> DEFINE S == {i \in 1..Len(scripts) : scripts[i].src.lib # NoLib}
           known == ItemsAt(scripts, S)
           named == [i \in 1..Len(known) |-> known[i].src.lib]
           libs == Distinct(named)
<1>1. S \in SUBSET Places(scripts)
  BY DEF Places
<1> HIDE DEF S
<1>2. Len(known) \in Nat
  BY <1>1, Chosen
<1> HIDE DEF known
<1>3. List(named)
  BY <1>2, MadeList
<1> HIDE DEF named
<1>4. List(libs) /\ \A m, n \in Places(libs) : libs[m] = libs[n] => m = n
  BY <1>3, DistinctFacts
<1>5. libs = exposedLibs(scripts)
  BY DEF exposedLibs, named, known, S
<1> HIDE DEF libs
<1> QED BY <1>4, <1>5

\* Assets of which the first is the root and every other hangs on it.
Hanging(assets, edges) ==
  \A n \in 2..Len(assets) :
    \E e \in Places(edges) : edges[e].from = 1 /\ edges[e].to = n

Apart(assets) == \A i, j \in Places(assets) : assets[i] = assets[j] => i = j

\* What analyzeSite makes of a page: the root, and then libraries.
RootPart(r, url) ==
  /\ List(r.assets) /\ List(r.edges) /\ Quiet(r.findings)
  /\ Len(r.assets) \in Nat \ {0}
  /\ r.assets[1] = WebKey(url) /\ Apart(r.assets) /\ Hanging(r.assets, r.edges)
  /\ \A i \in Places(r.assets) :
       r.assets[i] = WebKey(url) \/ r.assets[i].type = "software_component"

\* The part of a result that comes of the page: its root asset, its libraries, and
\* findings about these only.
LEMMA AnalyzedFacts ==
  ASSUME NEW p, List(p.tags)
  PROVE  RootPart(analyzeSite(p), p.url)
<1> DEFINE scripts == parseScripts(p.tags, p.finalUrl.host)
           libs == exposedLibs(scripts)
           root == <<WebKey(p.url)>>
           keys == [i \in 1..Len(libs) |-> LibKey(libs[i])]
           assets == root \o keys
           edges == [i \in 1..Len(libs) |-> [from |-> 1, to |-> i + 1, type |-> "depends_on"]]
           findings == evaluateTls(p) \o evaluateHeaders(p.headers) \o evaluateSri(scripts)
<1>1. List(scripts)
  BY ScriptsListed
<1> HIDE DEF scripts
<1>2. /\ List(libs) /\ Len(libs) \in Nat
      /\ \A m, n \in Places(libs) : libs[m] = libs[n] => m = n
  BY <1>1, LibsListed DEF List
<1>3. Quiet(findings)
  <2>1. Quiet(evaluateTls(p) \o evaluateHeaders(p.headers))
    BY QuietTls, QuietHeaders, QuietJoined
  <2>2. Quiet(evaluateSri(scripts))
    BY <1>1, QuietSri
  <2> QED BY <2>1, <2>2, QuietJoined
<1>4. analyzeSite(p) = [assets |-> assets, edges |-> edges, findings |-> findings]
  BY DEF analyzeSite, scripts
<1> HIDE DEF libs, findings
<1>5. /\ List(keys) /\ Len(keys) = Len(libs) /\ Places(keys) = Places(libs)
      /\ \A i \in Places(keys) : keys[i] = LibKey(libs[i])
  BY <1>2, MadeList DEF Places
<1>6. List(edges) /\ Len(edges) = Len(libs)
  BY <1>2, MadeList
<1>7. \A n \in 2..(Len(libs) + 1) : \E e \in Places(edges) : edges[e].from = 1 /\ edges[e].to = n
  <2>1. ASSUME NEW n \in 2..(Len(libs) + 1)
        PROVE  n - 1 \in Places(edges) /\ edges[n - 1].from = 1 /\ edges[n - 1].to = n
    BY <1>2, <1>6, <2>1 DEF Places
  <2> QED BY <2>1
<1>8. List(root) /\ Len(root) = 1 /\ Places(root) = {1} /\ root[1] = WebKey(p.url)
  <2>1. <<WebKey(p.url)>> \in Seq({WebKey(p.url)})
    OBVIOUS
  <2>2. Len(root) = 1 /\ root[1] = WebKey(p.url) /\ Places(root) = {1}
    BY DEF Places
  <2> QED BY <2>1, <2>2, SeqIsList
<1> HIDE DEF keys, edges, root
<1>9. Joins(assets, root, keys)
  BY <1>5, <1>8, ListsJoined
<1> HIDE DEF assets
<1>10. /\ List(assets) /\ Len(assets) = Len(libs) + 1 /\ 1 \in Places(assets)
       /\ assets[1] = WebKey(p.url)
       /\ \A i \in Places(libs) : assets[Past(root, i)] = LibKey(libs[i])
       /\ \A i \in Places(assets) : i = 1 \/ \E j \in Places(libs) : i = Past(root, j)
  BY <1>2, <1>5, <1>8, <1>9 DEF Joins
<1>11. /\ \A l : LibKey(l).type = "software_component" /\ LibKey(l).purl = l
       /\ WebKey(p.url).type = "web_asset"
  BY DEF LibKey, WebKey
<1>12. Apart(assets)
  <2>0. /\ assets[1].type # "software_component"
        /\ \A i \in Places(assets) : i # 1 => assets[i].type = "software_component"
    BY <1>10, <1>11
  <2>1. ASSUME NEW i \in Places(assets), NEW j \in Places(assets), assets[i] = assets[j]
        PROVE  i = j
    <3>1. CASE i = 1 /\ j = 1
      BY <3>1
    <3>2. CASE i = 1 /\ j # 1
      BY <2>0, <2>1, <3>2
    <3>3. CASE i # 1 /\ j = 1
      BY <2>0, <2>1, <3>3
    <3>4. CASE i # 1 /\ j # 1
      <4>1. PICK x \in Places(libs) : i = Past(root, x)
        BY <1>10, <3>4
      <4>2. PICK y \in Places(libs) : j = Past(root, y)
        BY <1>10, <3>4
      <4>3. libs[x] = libs[y]
        BY <1>10, <1>11, <2>1, <4>1, <4>2
      <4> QED BY <1>2, <4>1, <4>2, <4>3
    <3> QED BY <3>1, <3>2, <3>3, <3>4
  <2> QED BY <2>1 DEF Apart
<1>13. \A i \in Places(assets) :
         assets[i] = WebKey(p.url) \/ assets[i].type = "software_component"
  BY <1>10, <1>11
<1>14. Hanging(assets, edges) /\ Len(assets) \in Nat \ {0}
  BY <1>2, <1>7, <1>10 DEF Hanging
<1> QED BY <1>3, <1>4, <1>6, <1>10, <1>12, <1>13, <1>14 DEF RootPart

-----------------------------------------------------------------------------
(* What the hosts below amount to.                                         *)

\* The hosts that exist, and those that may be taken over, in order.
LEMMA AskedFacts ==
  ASSUME NEW N \in Nat, NEW f, DOMAIN f = 1..N
  PROVE  /\ List(Existing(f)) /\ Len(Existing(f)) \in Nat
         /\ \A i \in Places(Existing(f)) : Existing(f)[i] \in 1..N
         /\ \A i, j \in Places(Existing(f)) : Existing(f)[i] = Existing(f)[j] => i = j
         /\ List(Suspects(f)) /\ Len(Suspects(f)) \in Nat
         /\ \A i \in Places(Suspects(f)) :
              \E j \in Places(Existing(f)) : Existing(f)[j] = Suspects(f)[i]
<1> DEFINE E == {i \in DOMAIN f : Exists(f[i])}
           S == {i \in DOMAIN f : Exists(f[i]) /\ AtRisk(f[i])}
<1>1. /\ E \in SUBSET (1..N) /\ S \in SUBSET (1..N) /\ S \subseteq E
      /\ \A k \in E : k \in Nat
  OBVIOUS
<1>2. Existing(f) = InOrder(E) /\ Suspects(f) = InOrder(S)
  BY DEF Existing, Suspects
<1> HIDE DEF E, S
<1>3. /\ List(InOrder(E)) /\ Len(InOrder(E)) \in Nat
      /\ \A n \in Places(InOrder(E)) : InOrder(E)[n] \in E
      /\ \A k \in E : \E n \in Places(InOrder(E)) : InOrder(E)[n] = k
      /\ \A m, n \in Places(InOrder(E)) : m < n => InOrder(E)[m] < InOrder(E)[n]
  BY <1>1, Ordered
<1>4. /\ List(InOrder(S)) /\ Len(InOrder(S)) \in Nat
      /\ \A n \in Places(InOrder(S)) : InOrder(S)[n] \in S
  BY <1>1, Ordered
<1>5. ASSUME NEW m \in Places(InOrder(E)), NEW n \in Places(InOrder(E)),
             InOrder(E)[m] = InOrder(E)[n]
      PROVE  m = n
  <2>1. m \in Nat /\ n \in Nat
    BY <1>3 DEF Places
  <2>2. InOrder(E)[m] \in Nat /\ InOrder(E)[n] \in Nat
    BY <1>1, <1>3
  <2>3. ~ (m < n) /\ ~ (n < m)
    BY <1>3, <1>5, <2>2
  <2> QED BY <2>1, <2>3
<1> QED BY <1>1, <1>2, <1>3, <1>4, <1>5

\* The n-th finding of the hosts is about a suspect, and on its asset.
TakeoverOf(f, assets, before, c, res, answers, n) ==
  LET k == Suspects(res)[n]
  IN  /\ n \in Places(Suspects(res)) /\ f.about = {c[k]}
      /\ f.severity = takeoverSeverity(res[k], answers[n])
      /\ \E i \in Places(assets) : f.on = before + i /\ assets[i] = SubKey(c[k])

HostPart(r, before, c, res, answers) ==
  /\ List(r.assets) /\ List(r.edges) /\ List(r.findings) /\ Apart(r.assets)
  /\ Len(r.assets) \in Nat /\ Places(r.edges) = Places(r.assets)
  /\ \A i \in Places(r.assets) : \E k \in Places(c) : r.assets[i] = SubKey(c[k])
  /\ \A i \in Places(r.edges) : r.edges[i].from = 1 /\ r.edges[i].to = before + i
  /\ \A n \in Places(r.findings) :
       TakeoverOf(r.findings[n], r.assets, before, c, res, answers, n)

\* The part of a result that comes of the hosts asked: an asset and an edge for each
\* host that is there, and takeover findings on such hosts.
LEMMA SubdomainFacts ==
  ASSUME NEW before \in Nat, NEW c, List(c), \A i, j \in Places(c) : c[i] = c[j] => i = j,
         NEW res, DOMAIN res = Places(c), NEW answers
  PROVE  HostPart(subdomainScan(before, c, res, answers), before, c, res, answers)
<1> DEFINE subs == Existing(res)
           asked == Suspects(res)
           place(h) == before + CHOOSE i \in 1..Len(subs) : subs[i] = h
           assets == [i \in 1..Len(subs) |-> SubKey(c[subs[i]])]
           edges == [i \in 1..Len(subs) |-> [from |-> 1, to |-> before + i, type |-> "contains"]]
           findings == [i \in 1..Len(asked) |->
                          makeFinding(place(asked[i]), "SUBDOMAIN-TAKEOVER", {c[asked[i]]},
                                      takeoverSeverity(res[asked[i]], answers[i]))]
<1>1. subdomainScan(before, c, res, answers)
        = [assets |-> assets, edges |-> edges, findings |-> findings]
  BY DEF subdomainScan
<1>2. Len(c) \in Nat /\ Places(c) = 1..Len(c)
  BY DEF List, Places
<1>3. /\ List(subs) /\ Len(subs) \in Nat /\ Places(subs) = 1..Len(subs)
      /\ \A i \in Places(subs) : subs[i] \in Places(c)
      /\ \A i, j \in Places(subs) : subs[i] = subs[j] => i = j
      /\ List(asked) /\ Len(asked) \in Nat /\ Places(asked) = 1..Len(asked)
      /\ \A i \in Places(asked) : \E j \in Places(subs) : subs[j] = asked[i]
  BY <1>2, AskedFacts DEF Places
<1> HIDE DEF subs, asked
<1>4. List(assets) /\ Len(assets) = Len(subs) /\ List(edges) /\ Len(edges) = Len(subs)
  BY <1>3, MadeList
<1>5. List(findings) /\ Len(findings) = Len(asked)
  BY <1>3, MadeList
<1>6. Places(assets) = Places(subs) /\ Places(edges) = Places(subs)
      /\ Places(findings) = Places(asked)
  BY <1>4, <1>5 DEF Places
<1>7. \A i \in Places(subs) : assets[i] = SubKey(c[subs[i]])
  BY <1>3
<1>8. \A i \in Places(subs) : edges[i].from = 1 /\ edges[i].to = before + i
  BY <1>3
<1>9. \A g, h : SubKey(g) = SubKey(h) => g = h
  <2>1. \A g : SubKey(g).url.host = g
    BY DEF SubKey, WebKey
  <2> QED BY <2>1
<1>10. ASSUME NEW n \in Places(asked)
       PROVE  TakeoverOf(findings[n], assets, before, c, res, answers, n)
  <2> DEFINE i == CHOOSE i \in 1..Len(subs) : subs[i] = asked[n]
  <2>1. i \in Places(subs) /\ subs[i] = asked[n]
    BY <1>3
  <2>2. /\ findings[n].on = before + i /\ findings[n].about = {c[asked[n]]}
        /\ findings[n].severity = takeoverSeverity(res[asked[n]], answers[n])
    BY <1>3 DEF makeFinding
  <2> HIDE DEF i, assets, findings
  <2>3. i \in Places(assets) /\ assets[i] = SubKey(c[asked[n]])
    BY <1>6, <1>7, <2>1
  <2> QED BY <2>2, <2>3 DEF TakeoverOf, asked
<1> HIDE DEF assets, edges, findings
<1>11. Apart(assets)
  BY <1>3, <1>6, <1>7, <1>9 DEF Apart
<1>12. \A i \in Places(assets) : \E k \in Places(c) : assets[i] = SubKey(c[k])
  BY <1>3, <1>6, <1>7
<1> QED BY <1>1, <1>3, <1>4, <1>5, <1>6, <1>8, <1>10, <1>11, <1>12 DEF HostPart

\* A takeover is reported on the asset of the suspect it is about.
TakeoversPlaced(findings, assets, c, res, answers) ==
  \A i \in Places(findings) : LET f == findings[i] IN
    f.rule = "SUBDOMAIN-TAKEOVER" =>
      \E n \in Places(Suspects(res)) :
        LET k == Suspects(res)[n]
        IN  /\ f.about = {c[k]} /\ assets[f.on] = SubKey(c[k])
            /\ f.severity = takeoverSeverity(res[k], answers[n])

\* A result of the two parts hangs together.
LEMMA PartsHang ==
  ASSUME NEW url, url.host \in Host, NEW c, CandidatesOK(c, url.host), NEW res, NEW answers,
         NEW first, RootPart(first, url),
         NEW subs, HostPart(subs, Len(first.assets), c, res, answers),
         NEW quiet, Quiet(quiet), NEW assets, Joins(assets, first.assets, subs.assets),
         NEW edges, Joins(edges, first.edges, subs.edges),
         NEW findings, Joins(findings, quiet, subs.findings)
  PROVE  /\ Apart(assets) /\ Hanging(assets, edges)
         /\ TakeoversPlaced(findings, assets, c, res, answers)
<1> DEFINE m == Len(first.assets)
<1>1. /\ List(first.assets) /\ List(first.edges) /\ Quiet(first.findings)
      /\ m \in Nat \ {0}
      /\ first.assets[1] = WebKey(url) /\ Apart(first.assets)
      /\ Hanging(first.assets, first.edges)
      /\ \A i \in Places(first.assets) :
           first.assets[i] = WebKey(url) \/ first.assets[i].type = "software_component"
  BY DEF RootPart
<1>2. /\ List(subs.assets) /\ List(subs.edges) /\ List(subs.findings) /\ Apart(subs.assets)
      /\ Len(subs.assets) \in Nat /\ Places(subs.edges) = Places(subs.assets)
      /\ \A i \in Places(subs.assets) : \E k \in Places(c) : subs.assets[i] = SubKey(c[k])
      /\ \A i \in Places(subs.edges) : subs.edges[i].from = 1 /\ subs.edges[i].to = m + i
      /\ \A n \in Places(subs.findings) :
           TakeoverOf(subs.findings[n], subs.assets, m, c, res, answers, n)
  BY DEF HostPart
<1>3. Quiet(quiet)
  OBVIOUS
<1>5. /\ Joins(assets, first.assets, subs.assets)
      /\ Joins(edges, first.edges, subs.edges)
      /\ Joins(findings, quiet, subs.findings)
  OBVIOUS
<1>6. \A i : Past(first.assets, i) = m + i
  BY DEF Past
<1>7. \A i \in Places(first.assets), j \in Places(subs.assets) :
        first.assets[i] # subs.assets[j]
  <2>1. ASSUME NEW i \in Places(first.assets), NEW k \in Places(c)
        PROVE  first.assets[i] # SubKey(c[k])
    <3>1. Below(c[k], url.host)
      BY DEF CandidatesOK
    <3>2. c[k] # url.host
      <4>1. Len(url.host.labels) \in Nat
        BY DEF Host
      <4> QED BY <3>1, <4>1 DEF Below
    <3>3. SubKey(c[k]).type = "web_asset" /\ SubKey(c[k]).url.host = c[k]
      BY DEF SubKey, WebKey
    <3>4. WebKey(url).url.host = url.host
      BY DEF WebKey
    <3> QED BY <1>1, <3>2, <3>3, <3>4
  <2> QED BY <1>2, <2>1
<1>8. Apart(assets)
  <2>1. ASSUME NEW i \in Places(assets), NEW j \in Places(assets),
               assets[i] = assets[j]
        PROVE  i = j
    <3> DEFINE Early(k) == k \in Places(first.assets) /\ assets[k] = first.assets[k]
               Late(k) == \E l \in Places(subs.assets) :
                            k = Past(first.assets, l) /\ assets[k] = subs.assets[l]
    <3>1. \A k \in Places(assets) : Early(k) \/ Late(k)
      BY <1>5, JoinedItems
    <3>2. CASE Early(i) /\ Early(j)
      BY <1>1, <2>1, <3>2 DEF Apart
    <3>3. CASE Early(i) /\ Late(j)
      BY <1>7, <2>1, <3>3
    <3>4. CASE Late(i) /\ Early(j)
      BY <1>7, <2>1, <3>4
    <3>5. CASE Late(i) /\ Late(j)
      BY <1>2, <2>1, <3>5 DEF Apart
    <3> QED BY <3>1, <3>2, <3>3, <3>4, <3>5
  <2> QED BY <2>1 DEF Apart
<1>9. Hanging(assets, edges)
  <2>1. Len(assets) = m + Len(subs.assets)
    BY <1>5 DEF Joins, m
  <2>2. ASSUME NEW n \in 2..Len(assets)
        PROVE  \E e \in Places(edges) :
                 edges[e].from = 1 /\ edges[e].to = n
    <3>1. CASE n \in 2..m
      <4>1. PICK e \in Places(first.edges) : first.edges[e].from = 1 /\ first.edges[e].to = n
        BY <1>1, <3>1 DEF Hanging, m
      <4>2. e \in Places(edges) /\ edges[e] = first.edges[e]
        BY <1>5 DEF Joins
      <4> QED BY <4>1, <4>2
    <3>2. CASE n \notin 2..m
      <4> HIDE DEF m
      <4>1. n - m \in 1..Len(subs.assets) /\ n = m + (n - m)
        BY <1>1, <1>2, <2>1, <3>2
      <4>2. PICK l \in Places(subs.assets) : n = m + l
        BY <4>1 DEF Places
      <4>3. subs.edges[l].from = 1 /\ subs.edges[l].to = n
        BY <1>2, <4>2
      <4>4. /\ Past(first.edges, l) \in Places(edges)
            /\ edges[Past(first.edges, l)] = subs.edges[l]
        BY <1>2, <1>5 DEF Joins
      <4> QED BY <4>3, <4>4
    <3> QED BY <3>1, <3>2
  <2> QED BY <2>2 DEF Hanging
<1>10. ASSUME NEW i \in Places(findings),
              findings[i].rule = "SUBDOMAIN-TAKEOVER"
       PROVE  LET f == findings[i] IN
                \E n \in Places(Suspects(res)) :
                  LET k == Suspects(res)[n]
                  IN  /\ f.about = {c[k]} /\ assets[f.on] = SubKey(c[k])
                      /\ f.severity = takeoverSeverity(res[k], answers[n])
  <2> DEFINE f == findings[i]
  <2>1. PICK n \in Places(subs.findings) : f = subs.findings[n]
    <3>1. \/ i \in Places(quiet) /\ f = quiet[i]
          \/ \E n \in Places(subs.findings) : f = subs.findings[n]
      BY <1>5, JoinedItems
    <3> HIDE DEF f
    <3>2. f.rule = "SUBDOMAIN-TAKEOVER"
      BY <1>10 DEF f
    <3> QED BY <1>3, <3>1, <3>2 DEF Quiet
  <2>2. TakeoverOf(f, subs.assets, m, c, res, answers, n)
    BY <1>2, <2>1
  <2>3. PICK l \in Places(subs.assets) :
          f.on = m + l /\ subs.assets[l] = SubKey(c[Suspects(res)[n]])
    BY <2>2 DEF TakeoverOf
  <2>4. assets[f.on] = subs.assets[l]
    <3>1. assets[Past(first.assets, l)] = subs.assets[l]
      BY <1>5 DEF Joins
    <3>2. f.on = Past(first.assets, l)
      BY <1>6, <2>3
    <3> HIDE DEF f
    <3> QED BY <3>1, <3>2
  <2> HIDE DEF f
  <2>5. /\ n \in Places(Suspects(res)) /\ f.about = {c[Suspects(res)[n]]}
        /\ f.severity = takeoverSeverity(res[Suspects(res)[n]], answers[n])
    BY <2>2 DEF TakeoverOf
  <2> QED BY <2>3, <2>4, <2>5 DEF f
<1> QED BY <1>8, <1>9, <1>10 DEF TakeoversPlaced

-----------------------------------------------------------------------------
(* The scan.                                                               *)

Early == {"ownership", "fetch", "body", "tls", "log"}

PageHosts == {p.finalUrl.host : p \in Pages \cup {NoPage}}

\* Nobody is asked, and no page searched, for a host whose owner is not verified.
Gated ==
  /\ verified => target.host \in owned
  /\ pc \in {"log", "resolve", "takeover"} \/ candidates # <<>> \/ searched # {} =>
       active /\ verified

\* What is not asked yet has no answer.
NothingAhead ==
  /\ pc \in Early \ {"log"} => searched = {}
  /\ pc \in Early => candidates = <<>> /\ resolved = <<>>
  /\ pc \in Early \cup {"resolve"} => bodies = <<>>

\* Every candidate is resolved before a suspect is probed, and every suspect is
\* probed before the scan returns.
AllAnswered ==
  /\ pc \in {"takeover", "returned"} => DOMAIN resolved = Places(candidates)
  /\ pc = "takeover" => Len(bodies) < Len(Suspects(resolved))
  /\ pc = "returned" => Len(bodies) = Len(Suspects(resolved))

Inv ==
  /\ TypeOK
  /\ Gated
  /\ NothingAhead
  /\ CandidatesOK(candidates, target.host)
  /\ AllAnswered

\* A scan begins with nothing asked and nothing known.
LEMMA InvInit == Init => Inv
<1> SUFFICES ASSUME Init
             PROVE  Inv
  OBVIOUS
<1>1. /\ candidates = <<>> /\ resolved = <<>> /\ bodies = <<>> /\ verified = FALSE
      /\ searched = {}
      /\ pc \in {"ownership", "fetch"} /\ active \in BOOLEAN
      /\ target \in {normalizeUrl(i) : i \in Inputs} /\ owned \subseteq {i.host : i \in Inputs}
      /\ probe = NoProbe
  BY DEF Init
<1>2. probe \in [page : Pages \cup {NoPage}, tls : TlsInfo]
  BY <1>1 DEF NoProbe, NoTls, TlsInfo
<1>3. Len(candidates) <= MaxCandidates /\ DOMAIN resolved = {} /\ bodies \in Seq({"marker", "other", "null"})
  BY <1>1, ScanAssumption
<1>4. TypeOK
  BY <1>1, <1>2, <1>3, Zenon DEF TypeOK
<1>5. Gated /\ NothingAhead /\ AllAnswered
  BY <1>1 DEF Gated, NothingAhead, AllAnswered, Early
<1>6. CandidatesOK(candidates, target.host)
  BY <1>1, NoCandidates
<1> QED BY <1>4, <1>5, <1>6 DEF Inv

\* A list without items is the empty one.
LEMMA NoItems ==
  ASSUME NEW s, List(s)
  PROVE  s = <<>> <=> Len(s) = 0
<1>1. s = <<>> => Len(s) = 0
  OBVIOUS
<1>2. ASSUME Len(s) = 0
      PROVE  s = <<>>
  <2>1. s \in Seq(ItemsOf(s))
    BY ListIsSeq
  <2> QED BY <1>2, <2>1
<1> QED BY <1>1, <1>2

\* The URL asked for has a host.
LEMMA TargetHost ==
  ASSUME target \in {normalizeUrl(i) : i \in Inputs}
  PROVE  target.host \in Host
<1>1. PICK i \in Inputs : target = normalizeUrl(i)
  OBVIOUS
<1> QED BY <1>1, WorldAssumption DEF normalizeUrl

\* Before a log is read, steps only change how far the scan is, what it knows of
\* the owner, and the page.
LEMMA EarlyStep ==
  ASSUME Inv, Kept, UNCHANGED <<candidates, resolved, bodies>>, pc \in Early,
         pc' \in Early \cup {"returned", "thrown"},
         verified' \in BOOLEAN, verified' => target.host \in owned,
         pc' = "log" => active /\ verified',
         searched' \subseteq PageHosts, searched' # {} => active /\ verified' /\ pc' = "log",
         probe' \in [page : Pages \cup {NoPage}, tls : TlsInfo]
  PROVE  Inv'
<1>1. TypeOK /\ Gated /\ candidates = <<>> /\ resolved = <<>> /\ bodies = <<>>
  BY DEF Inv, NothingAhead
<1>2. /\ active' = active /\ target' = target /\ owned' = owned
      /\ candidates' = <<>> /\ resolved' = <<>> /\ bodies' = <<>>
  BY <1>1 DEF Kept
<1>3. TypeOK'
  BY <1>1, <1>2 DEF TypeOK, Early, PageHosts
<1>4. Gated' /\ NothingAhead'
  BY <1>2 DEF Gated, NothingAhead, Early
<1>5. CandidatesOK(candidates, target.host)'
  BY <1>2, NoCandidates
<1>6. AllAnswered'
  <2>1. DOMAIN resolved' = {} /\ Places(candidates') = {} /\ Len(bodies') = 0
    BY <1>2 DEF Places
  <2>2. Suspects(resolved') = InOrder({})
    BY <2>1 DEF Suspects
  <2>3. Len(InOrder({})) = 0
    <3>1. {} \in SUBSET (1..0) /\ 0 \in Nat
      OBVIOUS
    <3>2. Len(InOrder({})) = Cardinality({})
      BY <3>1, Ordered
    <3> QED BY <3>2, FS_EmptySet
  <2> QED BY <2>1, <2>2, <2>3 DEF AllAnswered, Early
<1> QED BY <1>3, <1>4, <1>5, <1>6 DEF Inv

\* A scan that throws keeps it.
LEMMA ThrowKeeps ==
  ASSUME Inv, Throw
  PROVE  Inv'
<1>1. /\ pc' = "thrown" /\ active' = active /\ target' = target /\ owned' = owned
      /\ searched' = searched
      /\ verified' = verified /\ probe' = probe /\ candidates' = candidates
      /\ resolved' = resolved /\ bodies' = bodies
  BY DEF Throw, Goto, Kept
<1>2. TypeOK'
  BY <1>1 DEF Inv, TypeOK
<1>3. Gated' /\ NothingAhead' /\ AllAnswered'
  BY <1>1 DEF Inv, Gated, NothingAhead, AllAnswered, Early
<1>4. CandidatesOK(candidates, target.host)'
  BY <1>1 DEF Inv
<1> QED BY <1>2, <1>3, <1>4 DEF Inv

\* The answer of the log, or none, settles the candidates.
LEMMA LogKeeps ==
  ASSUME Inv, NEW names, List(names),
         \A i \in Places(names) : Below(names[i], target.host), LogEnds(names)
  PROVE  Inv'
<1>1. TypeOK /\ Gated /\ active /\ verified /\ resolved = <<>> /\ bodies = <<>>
  BY DEF Inv, Gated, NothingAhead, LogEnds, Early
<1>2. /\ active' = active /\ target' = target /\ owned' = owned /\ verified' = verified
      /\ searched' = searched
      /\ probe' = probe /\ resolved' = <<>> /\ bodies' = <<>>
      /\ candidates' = candidatesOf(Wordlist, target.host, names, MaxCandidates)
      /\ pc' = IF candidates' = <<>> THEN "returned" ELSE "resolve"
  BY <1>1 DEF LogEnds, Goto, Kept
<1>3. CandidatesOK(candidates', target.host)
  <2>1. target.host \in Host
    BY <1>1, TargetHost DEF TypeOK
  <2> QED BY <1>2, <2>1, CandidatesMade
<1>4. TypeOK'
  <2>1. Len(candidates') <= MaxCandidates /\ DOMAIN resolved' = {}
        /\ pc' \in {"returned", "resolve"}
    BY <1>2, <1>3 DEF CandidatesOK
  <2>2. bodies' \in Seq({"marker", "other", "null"})
    BY <1>2
  <2> QED BY <1>1, <1>2, <2>1, <2>2 DEF TypeOK
<1>5. Gated' /\ NothingAhead'
  BY <1>1, <1>2 DEF Gated, NothingAhead, Early
<1>6. AllAnswered'
  <2>1. CASE candidates' = <<>>
    <3>1. DOMAIN resolved' = {} /\ Places(candidates') = {} /\ Len(bodies') = 0
      BY <1>2, <2>1 DEF Places
    <3>2. Suspects(resolved') = InOrder({})
      BY <3>1 DEF Suspects
    <3>3. Len(InOrder({})) = 0
      <4>1. {} \in SUBSET (1..0) /\ 0 \in Nat
        OBVIOUS
      <4>2. Len(InOrder({})) = Cardinality({})
        BY <4>1, Ordered
      <4> QED BY <4>2, FS_EmptySet
    <3> QED BY <1>2, <2>1, <3>1, <3>2, <3>3 DEF AllAnswered
  <2>2. CASE candidates' # <<>>
    BY <1>2, <2>2 DEF AllAnswered
  <2> QED BY <2>1, <2>2
<1> QED BY <1>2, <1>3, <1>4, <1>5, <1>6 DEF Inv

\* The resolver answers for one candidate; the last answer lets the probes begin.
LEMMA ResolvedKeeps ==
  ASSUME Inv, NEW i, HostResolved(i)
  PROVE  Inv'
<1>1. PICK r \in Resolution :
        LET all == [j \in DOMAIN resolved \cup {i} |-> IF j = i THEN r ELSE resolved[j]]
        IN  /\ resolved' = all
            /\ Goto(IF DOMAIN all # 1..Len(candidates) THEN "resolve"
                    ELSE IF Suspects(all) = <<>> THEN "returned" ELSE "takeover")
  BY DEF HostResolved
<1>2. /\ TypeOK /\ Gated /\ active /\ verified /\ bodies = <<>> /\ pc = "resolve"
      /\ i \in 1..Len(candidates) /\ CandidatesOK(candidates, target.host)
  BY DEF Inv, Gated, NothingAhead, HostResolved, Early
<1>3. /\ active' = active /\ target' = target /\ owned' = owned /\ verified' = verified
      /\ searched' = searched
      /\ probe' = probe /\ candidates' = candidates /\ bodies' = <<>>
  BY <1>2 DEF HostResolved, Kept
<1>4. /\ DOMAIN resolved' = DOMAIN resolved \cup {i}
      /\ \A j \in DOMAIN resolved' : resolved'[j] \in Resolution
  BY <1>1, <1>2 DEF TypeOK
<1>5. pc' = IF DOMAIN resolved' # 1..Len(candidates) THEN "resolve"
            ELSE IF Suspects(resolved') = <<>> THEN "returned" ELSE "takeover"
  BY <1>1 DEF Goto
<1>6. TypeOK'
  <2>1. DOMAIN resolved' \subseteq 1..Len(candidates') /\ Len(candidates') <= MaxCandidates
    BY <1>2, <1>3, <1>4 DEF TypeOK
  <2>2. bodies' \in Seq({"marker", "other", "null"})
    BY <1>3
  <2> QED BY <1>2, <1>3, <1>4, <1>5, <2>1, <2>2 DEF TypeOK
<1>7. Gated' /\ NothingAhead'
  BY <1>2, <1>3, <1>5 DEF Gated, NothingAhead, Early
<1>8. AllAnswered'
  <2>1. CASE DOMAIN resolved' # 1..Len(candidates)
    BY <1>5, <2>1 DEF AllAnswered
  <2>2. CASE DOMAIN resolved' = 1..Len(candidates)
    <3>1. Len(candidates) \in Nat
      BY <1>2 DEF CandidatesOK, List
    <3>2. List(Suspects(resolved')) /\ Len(Suspects(resolved')) \in Nat
      BY <2>2, <3>1, AskedFacts
    <3>3. Suspects(resolved') = <<>> <=> Len(Suspects(resolved')) = 0
      BY <3>2, NoItems
    <3>4. Len(bodies') = 0
      BY <1>3
    <3> QED BY <1>3, <1>5, <2>2, <3>2, <3>3, <3>4 DEF AllAnswered, Places
  <2> QED BY <2>1, <2>2
<1>9. CandidatesOK(candidates, target.host)'
  BY <1>2, <1>3
<1> QED BY <1>6, <1>7, <1>8, <1>9 DEF Inv

\* A takeover probe adds the answer to one host more.
LEMMA ProbedKeeps ==
  ASSUME Inv, NEW body \in {"marker", "other", "null"}, TakeoverProbed(body)
  PROVE  Inv'
<1>1. /\ TypeOK /\ Gated /\ AllAnswered /\ active /\ verified /\ pc = "takeover"
      /\ CandidatesOK(candidates, target.host) /\ bodies \in Seq({"marker", "other", "null"})
  BY DEF Inv, TypeOK, Gated, TakeoverProbed
<1>2. /\ active' = active /\ target' = target /\ owned' = owned /\ verified' = verified
      /\ searched' = searched
      /\ probe' = probe /\ candidates' = candidates /\ resolved' = resolved
      /\ bodies' = Append(bodies, body)
      /\ pc' = IF Len(bodies') = Len(Suspects(resolved)) THEN "returned" ELSE "takeover"
  BY DEF TakeoverProbed, Goto, Kept
<1>3. bodies' \in Seq({"marker", "other", "null"}) /\ Len(bodies') = Len(bodies) + 1
      /\ Len(bodies) \in Nat
  BY <1>1, <1>2
<1>4. TypeOK'
  BY <1>1, <1>2, <1>3 DEF TypeOK
<1>5. Gated' /\ NothingAhead'
  BY <1>1, <1>2 DEF Gated, NothingAhead, Early
<1>6. AllAnswered'
  <2>1. DOMAIN resolved = Places(candidates) /\ Len(bodies) < Len(Suspects(resolved))
    BY <1>1 DEF AllAnswered
  <2>2. Len(Suspects(resolved)) \in Nat
    <3>1. Len(candidates) \in Nat /\ DOMAIN resolved = 1..Len(candidates)
      BY <1>1, <2>1 DEF CandidatesOK, List, Places
    <3> QED BY <3>1, AskedFacts
  <2>3. pc' = "takeover" => Len(bodies') < Len(Suspects(resolved))
    BY <1>2, <1>3, <2>1, <2>2
  <2>4. pc' = "returned" => Len(bodies') = Len(Suspects(resolved))
    BY <1>2
  <2> QED BY <1>2, <2>1, <2>3, <2>4 DEF AllAnswered
<1>7. CandidatesOK(candidates, target.host)'
  BY <1>1, <1>2
<1> QED BY <1>4, <1>5, <1>6, <1>7 DEF Inv

\* Every step of a scan keeps the invariant.
LEMMA InvStep == Inv /\ [Next]_vars => Inv'
<1> SUFFICES ASSUME Inv, [Next]_vars
             PROVE  Inv'
  OBVIOUS
<1>0. /\ TypeOK /\ Gated /\ probe \in [page : Pages \cup {NoPage}, tls : TlsInfo]
      /\ verified \in BOOLEAN /\ (verified => target.host \in owned)
  BY DEF Inv, TypeOK, Gated
<1> DEFINE Page == {probe.page.finalUrl.host}
<1>14. Page \subseteq PageHosts
  BY <1>0 DEF PageHosts
<1> HIDE DEF Page
<1>1. CASE OwnershipAnswered
  <2>1. verified' \in BOOLEAN /\ (verified' => target.host \in owned)
    <3>1. verified' \in {FALSE, target.host \in owned}
      BY <1>1 DEF OwnershipAnswered
    <3>2. CASE target.host \in owned
      <4>1. (target.host \in owned) = TRUE
        BY <3>2
      <4>2. verified' \in {FALSE, TRUE}
        BY <3>1, <4>1
      <4> QED BY <3>2, <4>2
    <3>3. CASE target.host \notin owned
      <4>1. (target.host \in owned) = FALSE
        BY <3>3
      <4>2. verified' = FALSE
        BY <3>1, <4>1
      <4> QED BY <4>2
    <3> QED BY <3>2, <3>3
  <2>2. /\ Kept /\ UNCHANGED <<candidates, resolved, bodies>> /\ probe' = probe
        /\ pc \in Early /\ pc' = "fetch" /\ searched' = {}
    BY <1>1 DEF OwnershipAnswered, Goto, Early, Inv, NothingAhead
  <2> QED BY <1>0, <2>1, <2>2, EarlyStep DEF Early
<1>2. CASE HeadersArrive
  <2>1. PICK p \in Pages : probe' = [page |-> p, tls |-> NoTls]
    BY <1>2 DEF HeadersArrive
  <2>2. probe' \in [page : Pages \cup {NoPage}, tls : TlsInfo]
    BY <2>1 DEF NoTls, TlsInfo
  <2>3. /\ Kept /\ UNCHANGED <<candidates, resolved, bodies>> /\ verified' = verified
        /\ pc \in Early /\ pc' = "body" /\ searched' = {}
    BY <1>2 DEF HeadersArrive, Goto, Early, Inv, NothingAhead
  <2>4. verified' \in BOOLEAN /\ (verified' => target.host \in owned)
    BY <1>0, <2>3, Zenon
  <2>5. pc' \in Early \cup {"returned", "thrown"} /\ pc' # "log"
    BY <2>3 DEF Early
  <2> QED BY <2>2, <2>3, <2>4, <2>5, EarlyStep
<1>3. CASE FetchAborts \/ BodyBreaks
  BY <1>3, ThrowKeeps DEF FetchAborts, BodyBreaks
<1>4. CASE BodyArrives
  <2>1. /\ Kept /\ UNCHANGED <<candidates, resolved, bodies>> /\ verified' = verified
        /\ probe' = probe /\ pc \in Early /\ pc' \in {"tls", AfterProbe}
        /\ \/ pc' = "tls" /\ searched' = {}
           \/ pc' = AfterProbe /\ searched' = IF AfterProbe = "log" THEN Page ELSE {}
    BY <1>4 DEF BodyArrives, ProbeDone, Goto, Early, Inv, NothingAhead, Page
  <2>2. /\ verified' \in BOOLEAN /\ (verified' => target.host \in owned)
        /\ pc' = "log" => active /\ verified'
    BY <1>0, <2>1, Zenon DEF AfterProbe
  <2>3. searched' \subseteq PageHosts /\ (searched' # {} => active /\ verified' /\ pc' = "log")
    BY <1>14, <2>1, <2>2
  <2>4. pc' \in Early \cup {"returned", "thrown"}
    BY <2>1 DEF AfterProbe, Early
  <2> QED BY <1>0, <2>1, <2>2, <2>3, <2>4, EarlyStep
<1>5. ASSUME NEW tls \in TlsInfo, ProbeEnds(tls)
      PROVE  Inv'
  <2>1. /\ Kept /\ UNCHANGED <<candidates, resolved, bodies>> /\ verified' = verified
        /\ probe' = [probe EXCEPT !.tls = tls] /\ pc \in Early /\ pc' = AfterProbe
        /\ searched' = IF AfterProbe = "log" THEN Page ELSE {}
    BY <1>5 DEF ProbeEnds, ProbeDone, Goto, Early, Page
  <2>2. /\ verified' \in BOOLEAN /\ (verified' => target.host \in owned)
        /\ pc' = "log" => active /\ verified'
    BY <1>0, <2>1, Zenon DEF AfterProbe
  <2>5. searched' \subseteq PageHosts /\ (searched' # {} => active /\ verified' /\ pc' = "log")
    BY <1>14, <2>1, <2>2
  <2>4. pc' \in Early \cup {"returned", "thrown"}
    BY <2>1 DEF AfterProbe, Early
  <2>3. probe' \in [page : Pages \cup {NoPage}, tls : TlsInfo]
    BY <1>0, <2>1
  <2> QED BY <1>0, <2>1, <2>2, <2>3, <2>4, <2>5, EarlyStep
<1>6. CASE HandshakeAnswers
  <2>1. PICK cert \in Certs :
          ProbeEnds(IF cert.validTo = "missing" THEN NoTls
                    ELSE [known |-> TRUE, expired |-> cert.validTo = "past",
                          authorized |-> cert.authorized, weak |-> cert.weak])
    BY <1>6 DEF HandshakeAnswers
  <2>2. NoTls \in TlsInfo
        /\ [known |-> TRUE, expired |-> cert.validTo = "past",
            authorized |-> cert.authorized, weak |-> cert.weak] \in TlsInfo
    BY WorldAssumption DEF NoTls, TlsInfo
  <2> QED BY <1>5, <2>1, <2>2
<1>7. CASE HandshakeTimesOut
  <2>1. NoTls \in TlsInfo
    BY DEF NoTls, TlsInfo
  <2> QED BY <1>5, <1>7, <2>1 DEF HandshakeTimesOut
<1>8. CASE LogAnswers
  <2>1. PICK p \in Payloads : LogEnds(parseCrtShNames(p, target.host))
    BY <1>8 DEF LogAnswers
  <2> QED BY <2>1, LogNames, LogKeeps
<1>9. CASE LogTimesOut
  <2>1. List(<<>>) /\ Places(<<>>) = {}
    BY DEF List, Places
  <2> QED BY <1>9, <2>1, LogKeeps DEF LogTimesOut
<1>10. CASE \E i \in 1..MaxCandidates : HostResolved(i)
  BY <1>10, ResolvedKeeps
<1>11. CASE TakeoverAnswers \/ TakeoverTimesOut
  BY <1>11, ProbedKeeps DEF TakeoverAnswers, TakeoverTimesOut
<1>12. CASE UNCHANGED vars
  <2>1. TypeOK' /\ Gated' /\ NothingAhead' /\ AllAnswered'
    BY <1>12 DEF vars, Inv, TypeOK, Gated, NothingAhead, AllAnswered
  <2>2. CandidatesOK(candidates, target.host)'
    BY <1>12 DEF vars, Inv
  <2> QED BY <2>1, <2>2 DEF Inv
<1> QED BY <1>1, <1>2, <1>3, <1>4, <1>6, <1>7, <1>8, <1>9, <1>10, <1>11, <1>12
        DEF Next, TimesOut, Answers

-----------------------------------------------------------------------------
(* What holds of every behaviour.                                          *)

\* The invariant, and with it the types.
THEOREM InvHolds == Spec => []Inv
<1>1. Init => Inv
  BY InvInit
<1>2. Inv /\ [Next]_vars => Inv'
  BY InvStep
<1> QED BY <1>1, <1>2, PTL DEF Spec

\* What a scan knows keeps its type, and no more hosts are asked than the limit
\* of enumerateSubdomains says.
THEOREM TypeCorrect == Spec => []TypeOK
<1>1. Inv => TypeOK
  BY DEF Inv
<1> QED BY <1>1, InvHolds, PTL

\* The active part is only for a host whose owner is verified, and the resolver
\* and the takeover probe are first sent only to hosts below it, whatever the
\* page redirected to and the log answered.
THEOREM OnlyOwnedAreAsked == Spec => []OnlyOwnedHostsAsked
<1>1. Inv => OnlyOwnedHostsAsked
  <2> SUFFICES ASSUME Inv, searched # {} \/ candidates # <<>>
               PROVE  /\ active /\ target.host \in owned
                      /\ \A i \in Places(candidates) : Below(candidates[i], target.host)
    BY DEF OnlyOwnedHostsAsked
  <2>1. active /\ verified /\ target.host \in owned
    BY DEF Inv, Gated
  <2>2. \A i \in Places(candidates) : Below(candidates[i], target.host)
    BY DEF Inv, CandidatesOK
  <2> QED BY <2>1, <2>2
<1> QED BY <1>1, InvHolds, PTL

\* The cut at the limit costs no word of the list, and no host is asked twice.
THEOREM WordsSurvive == Spec => []WordlistSurvives
<1>1. Inv => WordlistSurvives
  BY DEF Inv, CandidatesOK, WordlistSurvives
<1> QED BY <1>1, InvHolds, PTL

\* The page a scan analyses lists its scripts.
LEMMA PassiveIs ==
  ASSUME Inv
  PROVE  /\ RootPart(Passive, target) /\ target.host \in Host
         /\ List(probe.page.secrets)
         /\ \E p : List(p.tags) /\ p.url = target /\ Passive = analyzeSite(p)
<1> DEFINE p == [url |-> target, finalUrl |-> probe.page.finalUrl,
                 headers |-> probe.page.headers, tags |-> probe.page.tags, tls |-> probe.tls]
<1>1. probe.page \in Pages \cup {NoPage} /\ target \in {normalizeUrl(i) : i \in Inputs}
  BY DEF Inv, TypeOK
<1>2. List(probe.page.tags) /\ List(probe.page.secrets)
  <2>1. CASE probe.page \in Pages
    BY <2>1, WorldAssumption, SeqIsList
  <2>2. CASE probe.page = NoPage
    <3>1. probe.page.tags = <<>> /\ probe.page.secrets = <<>>
      <4>1. NoPage.tags = <<>> /\ NoPage.secrets = <<>>
        BY DEF NoPage
      <4> QED BY <2>2, <4>1
    <3>2. List(<<>>)
      BY DEF List
    <3> QED BY <3>1, <3>2
  <2> QED BY <1>1, <2>1, <2>2
<1>3. p.tags = probe.page.tags /\ p.url = target
  OBVIOUS
<1>4. Passive = analyzeSite(p)
  BY DEF Passive
<1> HIDE DEF p
<1>5. RootPart(analyzeSite(p), p.url)
  BY <1>2, <1>3, AnalyzedFacts
<1> QED BY <1>1, <1>2, <1>3, <1>4, <1>5, TargetHost

\* The result of a scan hangs together: an answer is counted for the very host
\* that was asked, though absent hosts lie between and all were asked at once.
THEOREM ResultsHangTogether == Spec => []ResultHangsTogether
<1>1. Inv => ResultHangsTogether
  <2> DEFINE result == Result
             asked == Suspects(resolved)
             about(f) == {n \in Places(asked) : f.about = {candidates[asked[n]]}}
             Sound(f) ==
               f.rule = "SUBDOMAIN-TAKEOVER" =>
                 /\ {result.assets[f.on]} = {SubKey(h) : h \in f.about}
                 /\ \E n \in about(f) :
                      /\ f.severity = "CRITICAL" <=> bodies[n] = "marker"
                      /\ f.severity = "MEDIUM" => resolved[asked[n]].addresses
  <2> SUFFICES ASSUME Inv, pc = "returned"
               PROVE  /\ Apart(result.assets) /\ Hanging(result.assets, result.edges)
                      /\ \A i \in Places(result.findings) : Sound(result.findings[i])
    BY Zenon DEF ResultHangsTogether, Apart, Hanging
  <2>1. RootPart(Passive, target) /\ target.host \in Host /\ List(probe.page.secrets)
    BY PassiveIs
  <2>2. CASE ~ (active /\ verified)
    <3>1. result = Passive
      BY <2>2 DEF Result
    <3> HIDE DEF result
    <3>2. \A i \in Places(result.findings) : result.findings[i].rule # "SUBDOMAIN-TAKEOVER"
      BY <2>1, <3>1 DEF RootPart, Quiet
    <3> QED BY <2>1, <3>1, <3>2 DEF RootPart
  <2>3. CASE active /\ verified
    <3> DEFINE subs == subdomainScan(Len(Passive.assets), candidates, resolved, bodies)
               quiet == Passive.findings \o buildSecretFindings(probe.page.secrets)
    <3>1. /\ result.assets = Passive.assets \o subs.assets
          /\ result.edges = Passive.edges \o subs.edges
          /\ result.findings = quiet \o subs.findings
      BY <2>3 DEF Result
    <3>2. /\ CandidatesOK(candidates, target.host) /\ DOMAIN resolved = Places(candidates)
          /\ List(candidates) /\ Len(Passive.assets) \in Nat
          /\ \A i, j \in Places(candidates) : candidates[i] = candidates[j] => i = j
      BY <2>1 DEF Inv, AllAnswered, CandidatesOK, RootPart
    <3>3. HostPart(subs, Len(Passive.assets), candidates, resolved, bodies)
      BY <3>2, SubdomainFacts
    <3>4. Quiet(quiet)
      BY <2>1, QuietSecrets, QuietJoined DEF RootPart
    <3> HIDE DEF subs, quiet, result
    <3>5. /\ Joins(Passive.assets \o subs.assets, Passive.assets, subs.assets)
          /\ Joins(Passive.edges \o subs.edges, Passive.edges, subs.edges)
          /\ Joins(quiet \o subs.findings, quiet, subs.findings)
      BY <2>1, <3>3, <3>4, ListsJoined DEF RootPart, HostPart, Quiet
    <3>6. /\ Joins(result.assets, Passive.assets, subs.assets)
          /\ Joins(result.edges, Passive.edges, subs.edges)
          /\ Joins(result.findings, quiet, subs.findings)
      BY <3>1, <3>5, Zenon
    <3>7. /\ Apart(result.assets) /\ Hanging(result.assets, result.edges)
          /\ TakeoversPlaced(result.findings, result.assets, candidates, resolved, bodies)
      BY <2>1, <3>2, <3>3, <3>4, <3>6, PartsHang
    <3>8. ASSUME NEW i \in Places(result.findings)
          PROVE  Sound(result.findings[i])
      <4> DEFINE f == result.findings[i]
      <4> SUFFICES ASSUME f.rule = "SUBDOMAIN-TAKEOVER"
                   PROVE  /\ {result.assets[f.on]} = {SubKey(h) : h \in f.about}
                          /\ \E n \in about(f) :
                               /\ f.severity = "CRITICAL" <=> bodies[n] = "marker"
                               /\ f.severity = "MEDIUM" => resolved[asked[n]].addresses
        OBVIOUS
      <4>1. PICK n \in Places(asked) :
              /\ f.about = {candidates[asked[n]]}
              /\ result.assets[f.on] = SubKey(candidates[asked[n]])
              /\ f.severity = takeoverSeverity(resolved[asked[n]], bodies[n])
        BY <3>7 DEF TakeoversPlaced
      <4> HIDE DEF f, asked
      <4>2. {result.assets[f.on]} = {SubKey(h) : h \in f.about}
        BY <4>1
      <4>3. f.severity = "CRITICAL" <=> bodies[n] = "marker"
        BY <4>1 DEF takeoverSeverity
      <4>4. f.severity = "MEDIUM" => resolved[asked[n]].addresses
        BY <4>1 DEF takeoverSeverity
      <4> QED BY <4>1, <4>2, <4>3, <4>4
    <3> QED BY <3>7, <3>8
  <2> QED BY <2>2, <2>3
<1> QED BY <1>1, InvHolds, PTL
=============================================================================
