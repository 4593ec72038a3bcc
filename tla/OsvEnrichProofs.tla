--------------------------- MODULE OsvEnrichProofs --------------------------
(***************************************************************************)
(* Theorems about mapLimit and queryOsv, for any number of packages, any   *)
(* concurrency, any number of retries, and any timeout and delay.          *)
(***************************************************************************)
EXTENDS OsvEnrich, FiniteSets, FiniteSetTheorems, TLAPS

\* A lane counts its tries, ends only at the end of the list, and the caller
\* has been told what became of the lanes.
Counted ==
  \A l \in Lanes :
    /\ lane[l].pc # "done" => requests[lane[l].item] = lane[l].attempt + 1
    /\ lane[l].pc = "failed" => lane[l].attempt = Retries
    /\ lane[l].pc = "done" => cursor = N

Told ==
  /\ outcome = "resolved" => \A l \in Lanes : lane[l].pc = "done"
  /\ outcome = "rejected" <=> \E l \in Lanes : lane[l].pc = "failed"

\* A lane that waits for its next try has one left.
DelayedHasTry == \A l \in Lanes : lane[l].pc = "delay" => lane[l].attempt < Retries

EnrichInv == TypeOK /\ EachTakenOnce /\ Counted /\ Told /\ DelayedHasTry

\* The delays double (queryOsv): twice as many subsets with one member more.
LEMMA PowerOfTwo ==
  ASSUME NEW n \in Nat
  PROVE  2^n \in Nat /\ 2^n >= 1 /\ 2^(n + 1) = 2 * 2^n
<1> DEFINE S == 1..n
           T == 1..(n + 1)
           more == {U \cup {n + 1} : U \in SUBSET S}
           f == [U \in SUBSET S |-> U \cup {n + 1}]
<1>1. /\ IsFiniteSet(S) /\ Cardinality(S) = n
      /\ IsFiniteSet(T) /\ Cardinality(T) = n + 1
  BY FS_Interval
<1>2. /\ IsFiniteSet(SUBSET S) /\ Cardinality(SUBSET S) = 2^n
      /\ IsFiniteSet(SUBSET T) /\ Cardinality(SUBSET T) = 2^(n + 1)
  BY <1>1, FS_SUBSET
<1>3. n + 1 \notin S /\ T = S \cup {n + 1}
  OBVIOUS
<1> DEFINE z == n + 1
<1> HIDE DEF S, T, z
<1>4. SUBSET T = (SUBSET S) \cup more
  <2>1. ASSUME NEW U \in SUBSET T PROVE U \in (SUBSET S) \cup more
    <3>1. U \ {z} \in SUBSET S
      BY <1>3 DEF z
    <3>2. CASE z \in U
      <4>1. U = (U \ {z}) \cup {z}
        BY <3>2
      <4> QED BY <3>1, <4>1 DEF z
    <3>3. CASE z \notin U
      <4>1. U = U \ {z}
        BY <3>3
      <4> QED BY <3>1, <4>1
    <3> QED BY <3>2, <3>3
  <2>2. ASSUME NEW U \in (SUBSET S) \cup more PROVE U \in SUBSET T
    BY <1>3
  <2> QED BY <2>1, <2>2
<1>5. (SUBSET S) \cap more = {}
  BY <1>3
<1>6. ExistsBijection(SUBSET S, more)
  <2>1. ASSUME NEW U \in SUBSET S, NEW V \in SUBSET S, f[U] = f[V] PROVE U = V
    <3>1. U = f[U] \ {z} /\ V = f[V] \ {z}
      BY <1>3 DEF z
    <3> QED BY <2>1, <3>1
  <2>2. f \in [SUBSET S -> more] /\ \A y \in more : \E U \in SUBSET S : f[U] = y
    OBVIOUS
  <2> HIDE DEF f, more
  <2>3. f \in Bijection(SUBSET S, more)
    BY <2>1, <2>2 DEF Bijection, Injection, Surjection, IsInjective
  <2> QED BY <2>3 DEF ExistsBijection
<1>7. IsFiniteSet(more) /\ Cardinality(more) = 2^n
  BY <1>2, <1>6, FS_Bijection
<1> HIDE DEF more, f
<1>8. Cardinality(SUBSET T) = Cardinality(SUBSET S) + Cardinality(more) - Cardinality((SUBSET S) \cap more)
  BY <1>2, <1>4, <1>7, FS_Union
<1>9. Cardinality({}) = 0 /\ Cardinality(SUBSET S) \in Nat /\ Cardinality(SUBSET S) # 0
  <2>1. {} \in SUBSET S
    OBVIOUS
  <2> QED BY <1>2, <2>1, FS_CardinalityType, FS_EmptySet
<1> DEFINE p == 2^n
           q == 2^(n + 1)
<1>10. /\ Cardinality(SUBSET S) = p /\ Cardinality(SUBSET T) = q /\ Cardinality(more) = p
       /\ Cardinality((SUBSET S) \cap more) = 0
  BY <1>2, <1>5, <1>7, <1>9
<1>11. p \in Nat /\ p >= 1 /\ q = 2 * p
  <2> HIDE DEF p, q
  <2> QED BY <1>8, <1>9, <1>10
<1> QED BY <1>11

\* A greater exponent, a greater power.
LEMMA PowersGrow ==
  ASSUME NEW a \in Nat, NEW b \in Nat, a <= b
  PROVE  2^a <= 2^b
<1>1. /\ IsFiniteSet(1..a) /\ Cardinality(1..a) = a
      /\ IsFiniteSet(1..b) /\ Cardinality(1..b) = b
  BY FS_Interval
<1> DEFINE S == SUBSET (1..a)
           T == SUBSET (1..b)
<1>2. IsFiniteSet(T) /\ Cardinality(S) = 2^a /\ Cardinality(T) = 2^b
  BY <1>1, FS_SUBSET
<1>3. S \in SUBSET T
  OBVIOUS
<1> HIDE DEF S, T
<1>4. Cardinality(S) <= Cardinality(T)
  BY <1>2, <1>3, FS_Subset
<1> QED BY <1>2, <1>4

\* Each lane starts with the package of its number.
LEMMA LanesAreItems == Lanes \subseteq Items /\ N \in Nat
BY EnrichAssumption DEF Lanes, Items

\* Every lane has begun its first look-up.
LEMMA EnrichInit == Init => EnrichInv
<1> SUFFICES ASSUME Init PROVE EnrichInv
  OBVIOUS
<1>1. \A l \in Lanes : lane[l] = Query(l, 0)
  BY DEF Init
<1>2. \A l \in Lanes : lane[l].pc = "query" /\ lane[l].item = l /\ lane[l].attempt = 0
  <2> TAKE l \in Lanes
  <2>1. lane[l] = [pc |-> "query", item |-> l, attempt |-> 0, left |-> Timeout]
    BY <1>1 DEF Query
  <2> QED BY <2>1
<1>3. cursor \in 0..N /\ \A i \in Items : i <= cursor <=> i \in Lanes
  BY EnrichAssumption DEF Init, Lanes, Items
<1>4. N = 0 => Lanes = {}
  BY EnrichAssumption DEF Lanes
<1>5. N # 0 => outcome = "pending" /\ 1 \in Lanes
  BY EnrichAssumption DEF Init, Lanes
<1>6. TypeOK
  <2>1. \A l \in Lanes : Query(l, 0) \in Lane
    BY EnrichAssumption, LanesAreItems DEF Query, Lane
  <2>2. lane \in [Lanes -> Lane]
    BY <2>1 DEF Init
  <2>3. requests \in [Items -> 0..(Retries + 1)]
    BY EnrichAssumption DEF Init
  <2> QED BY <1>2, <1>3, <2>2, <2>3, LanesAreItems DEF Init, TypeOK
<1>7. EachTakenOnce
  <2>1. \A i \in Items : results[i] = 0 /\ i # 0 /\ (i \notin Lanes => requests[i] = 0)
    BY DEF Init, Items
  <2> QED BY <1>2, <1>3, <2>1 DEF EachTakenOnce, Items
<1>8. Counted
  <2>1. \A l \in Lanes : requests[l] = 1
    BY LanesAreItems DEF Init
  <2> QED BY <1>2, <2>1 DEF Counted
<1>9. Told
  <2>1. outcome # "rejected"
    BY DEF Init
  <2> QED BY <1>2, <1>4, <1>5, <2>1 DEF Told
<1>10. DelayedHasTry
  BY <1>2 DEF DelayedHasTry
<1> QED BY <1>6, <1>7, <1>8, <1>9, <1>10 DEF EnrichInv

\* What a lane that takes the next package, or ends, does to the others.
OnlyLane(l) == \A k \in Lanes : k # l => lane'[k] = lane[k]

LEMMA TakeEffect ==
  ASSUME TypeOK, NEW l \in Lanes, Take(l)
  PROVE  /\ lane' \in [Lanes -> Lane] /\ OnlyLane(l)
         /\ \/ /\ cursor < N /\ cursor' = cursor + 1 /\ cursor' \in Items
               /\ lane'[l].pc = "query" /\ lane'[l].item = cursor' /\ lane'[l].attempt = 0
               /\ requests' = [requests EXCEPT ![cursor'] = @ + 1]
            \/ /\ cursor = N /\ cursor' = cursor
               /\ lane'[l].pc = "done" /\ requests' = requests
<1>1. CASE cursor < N
  <2>1. cursor + 1 \in Items
    BY <1>1, EnrichAssumption DEF TypeOK, Items
  <2>2. Query(cursor + 1, 0) \in Lane
    BY <2>1, EnrichAssumption DEF Query, Lane
  <2>3. lane' = [lane EXCEPT ![l] = Query(cursor + 1, 0)]
    BY <1>1 DEF Take
  <2>4. lane'[l] = Query(cursor + 1, 0) /\ OnlyLane(l) /\ lane' \in [Lanes -> Lane]
    BY <2>2, <2>3 DEF TypeOK, OnlyLane
  <2> QED BY <1>1, <2>1, <2>4 DEF Take, Query
<1>2. CASE ~(cursor < N)
  <2>1. cursor = N
    BY <1>2, EnrichAssumption DEF TypeOK
  <2>2. Done \in Lane
    BY EnrichAssumption DEF Done, Lane
  <2>3. lane' = [lane EXCEPT ![l] = Done]
    BY <1>2 DEF Take
  <2>4. lane'[l] = Done /\ OnlyLane(l) /\ lane' \in [Lanes -> Lane]
    BY <2>2, <2>3 DEF TypeOK, OnlyLane
  <2> QED BY <1>2, <2>1, <2>4 DEF Take, Done
<1> QED BY <1>1, <1>2

\* An answer moves the package of its lane to the results.
LEMMA AnsweredKeeps ==
  ASSUME EnrichInv, NEW l \in Lanes, Answered(l)
  PROVE  EnrichInv'
<1> DEFINE i == lane[l].item
<1>0. TypeOK /\ EachTakenOnce /\ Counted /\ Told
  BY DEF EnrichInv
<1>1. lane[l].pc = "query" /\ i \in Items
  BY <1>0 DEF Answered, TypeOK
<1>2. /\ lane' \in [Lanes -> Lane] /\ OnlyLane(l)
      /\ \/ /\ cursor < N /\ cursor' = cursor + 1 /\ cursor' \in Items
            /\ lane'[l].pc = "query" /\ lane'[l].item = cursor' /\ lane'[l].attempt = 0
            /\ requests' = [requests EXCEPT ![cursor'] = @ + 1]
         \/ /\ cursor = N /\ cursor' = cursor
            /\ lane'[l].pc = "done" /\ requests' = requests
  BY <1>0, TakeEffect DEF Answered
<1>3. cursor \in 0..N /\ N \in Nat /\ i <= cursor
  BY <1>0, <1>1, EnrichAssumption DEF TypeOK, EachTakenOnce
<1>4. results' = [results EXCEPT ![i] = i]
  BY DEF Answered
<1>5. \A j \in Items : results'[j] = IF j = i THEN i ELSE results[j]
  BY <1>0, <1>1, <1>4 DEF TypeOK
<1>6. cursor < N => requests[cursor'] = 0
  BY <1>0, <1>2, <1>3 DEF EachTakenOnce
<1>7. requests' \in [Items -> 0..(Retries + 1)]
  BY <1>0, <1>2, <1>6, EnrichAssumption DEF TypeOK
<1>8. \A k \in Lanes : k # l => lane'[k] = lane[k] /\ (lane[k].pc # "done" =>
        lane[k].item \in Items /\ lane[k].item # i /\ lane[k].item <= cursor)
  BY <1>0, <1>1, <1>2 DEF OnlyLane, TypeOK, EachTakenOnce
<1>9. TypeOK'
  <2>1. results' \in [Items -> Items \cup {0}]
    BY <1>0, <1>1, <1>4 DEF TypeOK
  <2>2. cursor' \in 0..N
    BY <1>2, <1>3
  <2>3. \A k \in Lanes : lane'[k].pc # "done" => lane'[k].item \in Items
    BY <1>2, <1>8
  <2>4. outcome' \in {"pending", "resolved", "rejected"} /\ elapsed' \in Nat
    BY <1>0 DEF TypeOK, Answered
  <2> QED BY <1>2, <1>7, <2>1, <2>2, <2>3, <2>4 DEF TypeOK
<1>10. EachTakenOnce'
  <2>1. \A j, k \in Lanes :
          lane'[j].pc # "done" /\ lane'[k].pc # "done" /\ lane'[j].item = lane'[k].item => j = k
    BY <1>0, <1>2, <1>3, <1>8 DEF EachTakenOnce
  <2>2. ASSUME NEW j \in Items
        PROVE  /\ j <= cursor' <=>
                    (results'[j] = j \/ \E k \in Lanes : lane'[k].pc # "done" /\ lane'[k].item = j)
               /\ results'[j] = j => \A k \in Lanes : lane'[k].pc # "done" => lane'[k].item # j
               /\ j > cursor' => requests'[j] = 0
    <3>1. j \in Nat /\ 0 \notin Items
      BY DEF Items
    <3>2. CASE j = i
      <4>1. results'[j] = j /\ j <= cursor /\ j <= cursor'
        BY <1>2, <1>3, <1>5, <3>1, <3>2
      <4>2. \A k \in Lanes : lane'[k].pc # "done" => lane'[k].item # j
        BY <1>2, <1>3, <1>8, <3>2
      <4> QED BY <1>3, <1>2, <3>1, <4>1, <4>2
    <3>3. CASE j # i /\ j <= cursor
      <4>1. results'[j] = results[j] /\ j <= cursor'
        BY <1>2, <1>3, <1>5, <3>1, <3>3
      <4>2. \A k \in Lanes : lane'[k].pc # "done" /\ lane'[k].item = j <=>
                             lane[k].pc # "done" /\ lane[k].item = j
        BY <1>1, <1>2, <1>3, <1>8, <3>1, <3>3
      <4>3. /\ results[j] = j \/ \E k \in Lanes : lane[k].pc # "done" /\ lane[k].item = j
            /\ results[j] = j => \A k \in Lanes : lane[k].pc # "done" => lane[k].item # j
        BY <1>0, <3>3 DEF EachTakenOnce
      <4> QED BY <1>2, <1>3, <3>1, <4>1, <4>2, <4>3
    <3>4. CASE j > cursor
      <4>1. /\ results[j] # j /\ requests[j] = 0
            /\ \A k \in Lanes : lane[k].pc # "done" => lane[k].item # j
        BY <1>0, <1>3, <3>1, <3>4 DEF EachTakenOnce
      <4>2. results'[j] # j
        BY <1>3, <1>5, <3>1, <3>4, <4>1
      <4>3. CASE j = cursor'
        BY <1>2, <1>3, <3>1, <3>4, <4>2, <4>3
      <4>4. CASE j # cursor'
        <5>1. j > cursor'
          BY <1>2, <1>3, <3>1, <3>4, <4>4
        <5>2. requests'[j] = 0
          BY <1>0, <1>2, <4>1, <4>4 DEF TypeOK
        <5>3. \A k \in Lanes : lane'[k].pc # "done" => lane'[k].item # j
          BY <1>2, <1>8, <4>1, <4>4
        <5> QED BY <1>2, <1>3, <3>1, <4>2, <5>1, <5>2, <5>3
      <4> QED BY <4>3, <4>4
    <3> QED BY <1>3, <3>1, <3>2, <3>3, <3>4
  <2> QED BY <2>1, <2>2 DEF EachTakenOnce
<1>11. Counted'
  <2> SUFFICES ASSUME NEW k \in Lanes
               PROVE  /\ lane'[k].pc # "done" => requests'[lane'[k].item] = lane'[k].attempt + 1
                      /\ lane'[k].pc = "failed" => lane'[k].attempt = Retries
                      /\ lane'[k].pc = "done" => cursor' = N
    BY DEF Counted
  <2>1. CASE k = l
    BY <1>0, <1>2, <1>6, <2>1 DEF TypeOK
  <2>2. CASE k # l
    <3>1. lane'[k].pc # "done" => requests'[lane'[k].item] = requests[lane[k].item]
      BY <1>0, <1>2, <1>3, <1>8, <2>2 DEF TypeOK
    <3>2. lane'[k] = lane[k]
      BY <1>8, <2>2
    <3> QED BY <1>0, <1>2, <1>3, <3>1, <3>2 DEF Counted
  <2> QED BY <2>1, <2>2
<1>12. Told'
  <2>1. outcome # "resolved"
    BY <1>0, <1>1 DEF Told
  <2>2. \A k \in Lanes : lane'[k].pc = "failed" <=> lane[k].pc = "failed"
    BY <1>1, <1>2 DEF OnlyLane
  <2>3. outcome' = IF \A k \in Lanes : lane'[k].pc = "done" THEN "resolved" ELSE outcome
    BY DEF Answered
  <2> QED BY <1>0, <2>1, <2>2, <2>3 DEF Told
<1>13. DelayedHasTry'
  BY <1>2 DEF EnrichInv, DelayedHasTry, OnlyLane
<1> QED BY <1>9, <1>10, <1>11, <1>12, <1>13 DEF EnrichInv

\* A step that leaves the list, the packages of the lanes and the requests as
\* they are keeps every package where it is.
LEMMA PlacesKept ==
  ASSUME EnrichInv, UNCHANGED <<cursor, results>>,
         \A k \in Lanes : lane'[k].item = lane[k].item /\ (lane'[k].pc = "done" <=> lane[k].pc = "done"),
         \A i \in Items : i > cursor => requests'[i] = requests[i]
  PROVE  EachTakenOnce'
BY DEF EnrichInv, EachTakenOnce

\* A try that fails leads to a delay, or ends the lane and tells the caller.
LEMMA TryFailsKeeps ==
  ASSUME EnrichInv, NEW l \in Lanes, lane[l].pc = "query", TryFails(l)
  PROVE  EnrichInv'
<1>0. TypeOK /\ EachTakenOnce /\ Counted /\ Told
  BY DEF EnrichInv
<1>1. lane[l] \in Lane /\ lane[l].item \in Items
  BY <1>0 DEF TypeOK
<1>2. UNCHANGED <<cursor, requests, results, elapsed>>
  BY DEF TryFails, GivesUp
<1>3. CASE LastTry(l)
  <2>1. lane' = [lane EXCEPT ![l].pc = "failed"] /\ outcome' = "rejected"
    BY <1>3 DEF TryFails, GivesUp
  <2>2. /\ lane'[l].pc = "failed" /\ lane'[l].item = lane[l].item
        /\ lane'[l].attempt = lane[l].attempt /\ lane'[l] \in Lane
    BY <1>0, <1>1, <2>1 DEF TypeOK, Lane
  <2>3. lane' \in [Lanes -> Lane] /\ \A k \in Lanes : k # l => lane'[k] = lane[k]
    BY <1>0, <2>1, <2>2 DEF TypeOK
  <2>4. TypeOK'
    BY <1>0, <1>1, <1>2, <2>1, <2>2, <2>3 DEF TypeOK
  <2>5. EachTakenOnce'
    BY <1>2, <2>2, <2>3, PlacesKept
  <2>6. Counted'
    BY <1>0, <1>2, <1>3, <2>2, <2>3 DEF Counted, LastTry
  <2>7. Told'
    BY <2>1, <2>2 DEF Told
  <2>8. DelayedHasTry'
    BY <2>2, <2>3 DEF EnrichInv, DelayedHasTry
  <2> QED BY <2>4, <2>5, <2>6, <2>7, <2>8 DEF EnrichInv
<1>4. CASE ~LastTry(l)
  <2>1. /\ lane' = [lane EXCEPT ![l].pc = "delay", ![l].left = Backoff(lane[l].attempt)]
        /\ outcome' = outcome
    BY <1>4 DEF TryFails
  <2>2. Backoff(lane[l].attempt) \in Nat
    BY <1>1, PowerOfTwo, EnrichAssumption DEF Backoff, Lane
  <2>3. /\ lane'[l].pc = "delay" /\ lane'[l].item = lane[l].item
        /\ lane'[l].attempt = lane[l].attempt /\ lane'[l] \in Lane
    BY <1>0, <1>1, <2>1, <2>2 DEF TypeOK, Lane
  <2>4. lane' \in [Lanes -> Lane] /\ \A k \in Lanes : k # l => lane'[k] = lane[k]
    BY <1>0, <2>1, <2>3 DEF TypeOK
  <2>5. TypeOK'
    BY <1>0, <1>1, <1>2, <2>1, <2>3, <2>4 DEF TypeOK
  <2>6. EachTakenOnce'
    BY <1>2, <2>3, <2>4, PlacesKept
  <2>7. Counted'
    BY <1>0, <1>2, <2>3, <2>4 DEF Counted
  <2>8. Told'
    BY <1>0, <2>1, <2>3, <2>4 DEF Told
  <2>9. lane[l].attempt < Retries
    <3>1. lane[l].attempt \in 0..Retries
      BY <1>1 DEF Lane
    <3>2. lane[l].attempt # Retries
      BY <1>4 DEF LastTry
    <3>3. Retries \in Nat
      BY EnrichAssumption
    <3> QED BY <3>1, <3>2, <3>3
  <2>10. DelayedHasTry'
    BY <2>3, <2>4, <2>9 DEF EnrichInv, DelayedHasTry
  <2> QED BY <2>5, <2>6, <2>7, <2>8, <2>10 DEF EnrichInv
<1> QED BY <1>3, <1>4

\* The next try is counted.
LEMMA TriesAgainKeeps ==
  ASSUME EnrichInv, NEW l \in Lanes, TriesAgain(l)
  PROVE  EnrichInv'
<1> DEFINE i == lane[l].item
           n == lane[l].attempt + 1
<1>0. TypeOK /\ EachTakenOnce /\ Counted /\ Told
  BY DEF EnrichInv
<1>1. lane[l].pc = "delay" /\ lane[l] \in Lane /\ i \in Items /\ i <= cursor
  BY <1>0 DEF TriesAgain, TypeOK, EachTakenOnce
<1>2. \A k \in Lanes : lane[k].pc = "delay" => lane[k].attempt < Retries
  BY DEF EnrichInv, DelayedHasTry
<1>3. requests[i] = n /\ n \in 0..Retries /\ n + 1 \in 0..(Retries + 1)
  BY <1>0, <1>1, <1>2, EnrichAssumption DEF Counted, Lane
<1>4. UNCHANGED <<cursor, results, outcome, elapsed>>
  BY DEF TriesAgain
<1>5. requests' = [requests EXCEPT ![i] = n + 1]
  BY <1>0, <1>1, <1>3 DEF TriesAgain, TypeOK
<1>6. lane'[l] = Query(i, n) /\ lane' \in [Lanes -> Lane]
      /\ \A k \in Lanes : k # l => lane'[k] = lane[k]
  <2>1. Query(i, n) \in Lane
    BY <1>1, <1>3, EnrichAssumption DEF Query, Lane
  <2> QED BY <1>0, <2>1 DEF TriesAgain, TypeOK
<1>7. lane'[l].pc = "query" /\ lane'[l].item = i /\ lane'[l].attempt = n
  BY <1>6 DEF Query
<1>8. requests' \in [Items -> 0..(Retries + 1)]
  BY <1>0, <1>3, <1>5 DEF TypeOK
<1>9. TypeOK'
  BY <1>0, <1>1, <1>4, <1>6, <1>7, <1>8 DEF TypeOK
<1>10. EachTakenOnce'
  <2>1. \A j \in Items : j > cursor => requests'[j] = requests[j]
    BY <1>0, <1>1, <1>5, EnrichAssumption DEF TypeOK, Items
  <2> QED BY <1>1, <1>4, <1>6, <1>7, <2>1, PlacesKept
<1>11. Counted'
  <2>1. \A k \in Lanes : k # l /\ lane[k].pc # "done" =>
          lane[k].item # i /\ requests'[lane[k].item] = requests[lane[k].item]
    BY <1>0, <1>1, <1>5 DEF EachTakenOnce, TypeOK
  <2>2. requests'[i] = n + 1
    BY <1>0, <1>1, <1>5 DEF TypeOK
  <2> QED BY <1>0, <1>4, <1>6, <1>7, <2>1, <2>2 DEF Counted
<1>12. Told'
  BY <1>0, <1>1, <1>4, <1>6, <1>7 DEF Told
<1>13. DelayedHasTry'
  BY <1>2, <1>6, <1>7 DEF DelayedHasTry
<1> QED BY <1>9, <1>10, <1>11, <1>12, <1>13 DEF EnrichInv

\* A tick moves no package.
LEMMA TickKeeps == ASSUME EnrichInv, Tick PROVE EnrichInv'
<1>0. TypeOK /\ EachTakenOnce /\ Counted /\ Told /\ DelayedHasTry
  BY DEF EnrichInv
<1>1. UNCHANGED <<cursor, requests, results, outcome>> /\ elapsed' \in Nat
  BY <1>0 DEF Tick, TypeOK
<1>2. \A k \in Lanes : /\ lane'[k] \in Lane /\ lane'[k].pc = lane[k].pc
                        /\ lane'[k].item = lane[k].item /\ lane'[k].attempt = lane[k].attempt
  <2> TAKE k \in Lanes
  <2>1. lane[k] \in Lane /\ lane'[k] = IF Active(k) THEN [lane[k] EXCEPT !.left = @ - 1] ELSE lane[k]
    BY <1>0 DEF Tick, TypeOK
  <2>2. Active(k) => lane[k].left > 0
    BY DEF Tick
  <2> QED BY <2>1, <2>2 DEF Lane
<1>3. lane' \in [Lanes -> Lane]
  BY <1>2 DEF Tick
<1>4. TypeOK'
  BY <1>0, <1>1, <1>2, <1>3 DEF TypeOK
<1>5. EachTakenOnce'
  BY <1>1, <1>2, PlacesKept
<1>6. Counted' /\ Told' /\ DelayedHasTry'
  BY <1>0, <1>1, <1>2 DEF Counted, Told, DelayedHasTry
<1> QED BY <1>4, <1>5, <1>6 DEF EnrichInv

\* Every step keeps the invariant.
LEMMA EnrichStep == EnrichInv /\ [Next]_vars => EnrichInv'
<1> SUFFICES ASSUME EnrichInv, [Next]_vars PROVE EnrichInv'
  OBVIOUS
<1>1. CASE Tick
  BY <1>1, TickKeeps
<1>2. ASSUME NEW l \in Lanes, Step(l) PROVE EnrichInv'
  <2>1. CASE Answered(l)
    BY <2>1, AnsweredKeeps
  <2>2. CASE Refused(l) \/ Aborted(l)
    BY <2>2, TryFailsKeeps DEF Refused, Aborted
  <2>3. CASE TriesAgain(l)
    BY <2>3, TriesAgainKeeps
  <2> QED BY <1>2, <2>1, <2>2, <2>3 DEF Step
<1>3. CASE UNCHANGED vars
  BY <1>3 DEF vars, EnrichInv, TypeOK, EachTakenOnce, Counted, Told, DelayedHasTry
<1> QED BY <1>1, <1>2, <1>3 DEF Next

\* It holds of every behaviour.
LEMMA EnrichInvariant == Spec => []EnrichInv
BY EnrichInit, EnrichStep, PTL DEF Spec

\* The state keeps its types: no package is tried more than Retries + 1 times.
THEOREM TypeCorrect == Spec => []TypeOK
<1>1. EnrichInv => TypeOK
  BY DEF EnrichInv
<1> QED BY <1>1, EnrichInvariant, PTL

\* The shared cursor hands out every package to one lane (mapLimit).
THEOREM PackagesTakenOnce == Spec => []EachTakenOnce
<1>1. EnrichInv => EachTakenOnce
  BY DEF EnrichInv
<1> QED BY <1>1, EnrichInvariant, PTL

\* What enrichWithOsv returns is complete.
THEOREM ResultsAreWhole == Spec => []ResolvedIsWhole
<1>1. EnrichInv => ResolvedIsWhole
  <2> SUFFICES ASSUME EnrichInv, outcome = "resolved" PROVE ResolvedIsWhole
    BY DEF ResolvedIsWhole
  <2>1. \A l \in Lanes : lane[l].pc = "done"
    BY DEF EnrichInv, Told
  <2>2. \A i \in Items : i <= cursor
    <3> TAKE i \in Items
    <3>1. 1 \in Lanes
      BY EnrichAssumption DEF Items, Lanes
    <3>2. cursor = N
      BY <2>1, <3>1 DEF EnrichInv, Counted
    <3> QED BY <3>2 DEF Items
  <2>3. \A i \in Items : results[i] = i
    BY <2>1, <2>2 DEF EnrichInv, EachTakenOnce
  <2> QED BY <2>1, <2>3 DEF ResolvedIsWhole
<1> QED BY <1>1, EnrichInvariant, PTL

\* A scan is failed by the enrichment only after a package failed every try.
THEOREM RejectionsHaveCause == Spec => []RejectedHasCause
<1>1. EnrichInv => RejectedHasCause
  BY DEF EnrichInv, Told, Counted, RejectedHasCause
<1> QED BY <1>1, EnrichInvariant, PTL

-----------------------------------------------------------------------------
(* The time of a call.                                                     *)

\* The longest time of the first n tries and the delays after them.
TriesTime(n) == n * Timeout + BaseDelay * (2^n - 1)

\* The longest time since a lane took its package.
Used(l) ==
  IF lane[l].pc = "query" THEN TriesTime(lane[l].attempt) + Timeout - lane[l].left
  ELSE TriesTime(lane[l].attempt + 1) - lane[l].left

\* How many look-ups may have ended before a package is taken: one after another
\* if a single lane is left, else all lanes at once.
Alone(i) == IF i > Limit THEN i - Limit ELSE 0
Round(i) == (i - 1) \div Limit

\* No lane takes its package later than that.
Paced ==
  \A l \in Lanes : Active(l) =>
    /\ elapsed <= Alone(lane[l].item) * QueryTime + Used(l)
    /\ outcome = "pending" => elapsed <= Round(lane[l].item) * QueryTime + Used(l)

TimersSet ==
  \A l \in Lanes :
    /\ lane[l].pc = "query" => lane[l].left <= Timeout
    /\ lane[l].pc = "delay" => lane[l].left <= Backoff(lane[l].attempt)

\* All lanes have begun, and one goes on as long as the caller waits.
AllBegun ==
  /\ cursor < N => Limit <= cursor
  /\ outcome = "pending" => \E l \in Lanes : Active(l)

PaceInv == TimersSet /\ Paced /\ AllBegun

\* More look-ups do not take less time.
LEMMA TimesGrow ==
  ASSUME NEW x \in Nat, NEW m \in Nat, NEW n \in Nat, m <= n
  PROVE  m * x <= n * x /\ m * x \in Nat /\ (m + 1) * x = m * x + x
OBVIOUS

\* One try more, and the delay after it.
LEMMA TriesTimeIs ==
  ASSUME NEW n \in Nat
  PROVE  /\ TriesTime(n) \in Nat /\ Backoff(n) \in Nat
         /\ TriesTime(n + 1) = TriesTime(n) + Timeout + Backoff(n)
<1> DEFINE p == 2^n
           q == 2^(n + 1)
<1>1. p \in Nat /\ p >= 1 /\ q = 2 * p
  BY PowerOfTwo
<1>2. Timeout \in Nat /\ BaseDelay \in Nat
  BY EnrichAssumption
<1>3. /\ TriesTime(n) = n * Timeout + BaseDelay * (p - 1) /\ Backoff(n) = BaseDelay * p
      /\ TriesTime(n + 1) = (n + 1) * Timeout + BaseDelay * (q - 1)
  BY DEF TriesTime, Backoff
<1> HIDE DEF p, q
<1>4. /\ n * Timeout \in Nat /\ BaseDelay * (p - 1) \in Nat /\ BaseDelay * p \in Nat
      /\ (n + 1) * Timeout = n * Timeout + Timeout
  BY <1>1, <1>2
<1>5. BaseDelay * (q - 1) = BaseDelay * (p - 1) + BaseDelay * p
  BY <1>1, <1>2
<1> QED BY <1>2, <1>3, <1>4, <1>5

\* All tries together are the longest look-up.
LEMMA QueryTimeIs ==
  /\ QueryTime \in Nat
  /\ \A n \in 0..Retries : TriesTime(n) + Timeout <= QueryTime
<1>1. Retries \in Nat /\ Timeout \in Nat /\ BaseDelay \in Nat
  BY EnrichAssumption
<1>2. QueryTime = TriesTime(Retries) + Timeout
  <2>1. (Retries + 1) * Timeout = Retries * Timeout + Timeout
    BY <1>1
  <2> DEFINE x == BaseDelay * (2^Retries - 1)
             y == Retries * Timeout
  <2>2. x \in Int /\ y \in Int
    BY <1>1, PowerOfTwo
  <2>3. QueryTime = (Retries + 1) * Timeout + x /\ TriesTime(Retries) = y + x
    BY DEF QueryTime, TriesTime
  <2> HIDE DEF x
  <2> QED BY <1>1, <2>1, <2>2, <2>3
<1>3. ASSUME NEW n \in 0..Retries PROVE TriesTime(n) <= TriesTime(Retries)
  <2> DEFINE p == 2^n
             q == 2^Retries
  <2>1. n \in Nat /\ p \in Nat /\ q \in Nat /\ 1 <= p /\ p <= q
    BY <1>1, PowerOfTwo, PowersGrow
  <2>2. TriesTime(n) = n * Timeout + BaseDelay * (p - 1)
        /\ TriesTime(Retries) = Retries * Timeout + BaseDelay * (q - 1)
    BY DEF TriesTime
  <2> HIDE DEF p, q
  <2>3. n * Timeout <= Retries * Timeout /\ n * Timeout \in Nat
    BY <1>1, <2>1, TimesGrow
  <2>4. (p - 1) * BaseDelay <= (q - 1) * BaseDelay /\ (p - 1) * BaseDelay \in Nat
    BY <1>1, <2>1, TimesGrow
  <2>5. BaseDelay * (p - 1) = (p - 1) * BaseDelay /\ BaseDelay * (q - 1) = (q - 1) * BaseDelay
    BY <1>1, <2>1
  <2>6. Retries * Timeout \in Nat /\ (q - 1) * BaseDelay \in Nat
    BY <1>1, <2>1
  <2> QED BY <2>2, <2>3, <2>4, <2>5, <2>6
<1> QED BY <1>1, <1>2, <1>3, TriesTimeIs

\* A look-up takes no longer than QueryTime, whatever OSV does.
LEMMA UsedIs ==
  ASSUME EnrichInv, TimersSet, NEW l \in Lanes, Active(l)
  PROVE  Used(l) \in Nat /\ Used(l) <= QueryTime
<1>1. /\ lane[l].attempt \in 0..Retries /\ lane[l].left \in Nat /\ Retries \in Nat
      /\ lane[l].pc = "delay" => lane[l].attempt < Retries
  BY EnrichAssumption DEF EnrichInv, TypeOK, Lane, DelayedHasTry
<1> DEFINE a == lane[l].attempt
           r == lane[l].left
<1>2. /\ TriesTime(a) \in Nat /\ Backoff(a) \in Nat /\ Timeout \in Nat
      /\ TriesTime(a + 1) = TriesTime(a) + Timeout + Backoff(a)
  BY <1>1, TriesTimeIs, EnrichAssumption
<1>3. QueryTime \in Nat /\ TriesTime(a) + Timeout <= QueryTime
      /\ (lane[l].pc = "delay" => TriesTime(a + 1) + Timeout <= QueryTime)
  BY <1>1, QueryTimeIs
<1>4. CASE lane[l].pc = "query"
  <2>1. Used(l) = TriesTime(a) + Timeout - r /\ r <= Timeout
    BY <1>4 DEF Used, TimersSet
  <2> HIDE DEF a, r
  <2> QED BY <1>1, <1>2, <1>3, <2>1 DEF r
<1>5. CASE lane[l].pc = "delay"
  <2>1. Used(l) = TriesTime(a + 1) - r /\ r <= Backoff(a)
    BY <1>5 DEF Used, TimersSet
  <2> HIDE DEF a
  <2> QED BY <1>1, <1>2, <1>3, <1>5, <2>1
<1> QED BY <1>4, <1>5 DEF Active

\* The bounds of a package: one more for the next one, or for one a round behind.
LEMMA AloneIs ==
  ASSUME NEW i \in Items
  PROVE  /\ Alone(i) \in Nat /\ Round(i) \in Nat
         /\ \A k \in Items : i < k /\ Limit < k => Alone(i) + 1 <= Alone(k)
         /\ \A k \in Nat : i - 1 + Limit <= k => Round(i) + 1 <= k \div Limit
<1>1. i \in Nat \ {0} /\ Limit \in Nat \ {0} /\ N \in Nat
  BY EnrichAssumption DEF Items
<1>2. Alone(i) \in Nat /\ \A k \in Items : i < k /\ Limit < k => Alone(i) + 1 <= Alone(k)
  BY <1>1 DEF Alone, Items
<1> DEFINE j == i - 1
<1>3. j \in Nat /\ Round(i) = j \div Limit
  BY <1>1 DEF Round
<1> HIDE DEF j
<1>4. j \div Limit \in Nat /\ (j + Limit) \div Limit = j \div Limit + 1
  BY <1>1, <1>3
<1>5. ASSUME NEW k \in Nat, j + Limit <= k PROVE (j + Limit) \div Limit <= k \div Limit
  <2> DEFINE h == j + Limit
  <2>1. h \in Nat /\ h <= k
    BY <1>1, <1>3, <1>5
  <2> HIDE DEF h
  <2>2. h \div Limit <= k \div Limit
    BY <1>1, <2>1
  <2> QED BY <2>2 DEF h
<1> QED BY <1>2, <1>3, <1>4, <1>5 DEF j

\* At the start no time has passed.
LEMMA PaceInit == Init => PaceInv
<1> SUFFICES ASSUME Init PROVE PaceInv
  OBVIOUS
<1>1. \A l \in Lanes : /\ lane[l].pc = "query" /\ lane[l].item = l
                        /\ lane[l].attempt = 0 /\ lane[l].left = Timeout
  BY DEF Init, Query
<1>2. Timeout \in Nat \ {0} /\ BaseDelay \in Nat /\ N \in Nat /\ Limit \in Nat \ {0}
  BY EnrichAssumption
<1>3. TimersSet
  BY <1>1, <1>2 DEF TimersSet
<1>4. AllBegun
  <2>1. N # 0 => 1 \in Lanes
    BY <1>2 DEF Lanes
  <2> QED BY <1>1, <1>2, <2>1 DEF Init, AllBegun, Active
<1>5. Paced
  <2> SUFFICES ASSUME NEW l \in Lanes
               PROVE  /\ elapsed <= Alone(lane[l].item) * QueryTime + Used(l)
                      /\ elapsed <= Round(lane[l].item) * QueryTime + Used(l)
    BY DEF Paced
  <2>1. Used(l) \in Nat
    BY <1>1, <1>3, EnrichInit, UsedIs DEF Active
  <2>2. l \in Items
    BY LanesAreItems
  <2>3. Alone(l) * QueryTime \in Nat /\ Round(l) * QueryTime \in Nat
    BY <2>2, AloneIs, QueryTimeIs, TimesGrow
  <2> QED BY <1>1, <2>1, <2>3 DEF Init
<1> QED BY <1>3, <1>4, <1>5 DEF PaceInv

\* While the caller waits and packages are left, all lanes are at work, so one of
\* them holds a package far enough behind.
LEMMA OneIsBehind ==
  ASSUME EnrichInv, AllBegun, outcome = "pending", cursor < N
  PROVE  \E k \in Lanes : Active(k) /\ lane[k].item - 1 + Limit <= cursor
<1>1. /\ cursor \in Nat /\ N \in Nat /\ Limit \in Nat \ {0} /\ Limit <= cursor
      /\ Lanes = 1..Limit
  BY EnrichAssumption DEF EnrichInv, TypeOK, AllBegun, Lanes
<1>2. \A k \in Lanes : Active(k) /\ lane[k].pc # "done" /\ lane[k].item \in Items
  <2> TAKE k \in Lanes
  <2>1. lane[k].pc \in {"query", "delay", "done", "failed"}
    BY DEF EnrichInv, TypeOK, Lane
  <2>2. lane[k].pc # "failed" /\ lane[k].pc # "done"
    BY <1>1 DEF EnrichInv, Told, Counted
  <2> QED BY <2>1, <2>2 DEF EnrichInv, TypeOK, Active
<1>3. \A k \in Lanes : lane[k].item <= cursor
  BY <1>2 DEF EnrichInv, EachTakenOnce
<1> DEFINE late == (cursor - Limit + 2)..cursor
           f == [k \in Lanes |-> lane[k].item]
<1>4. SUFFICES ASSUME \A k \in Lanes : ~(lane[k].item - 1 + Limit <= cursor)
               PROVE  FALSE
  BY <1>2
<1>5. f \in [Lanes -> late]
  BY <1>1, <1>2, <1>3, <1>4 DEF Items
<1>6. /\ IsFiniteSet(Lanes) /\ Cardinality(Lanes) = Limit
      /\ IsFiniteSet(late) /\ Cardinality(late) = Limit - 1
  <2>1. IsFiniteSet(1..Limit) /\ Cardinality(1..Limit) = Limit
    BY <1>1, FS_Interval
  <2>2. IsFiniteSet(late) /\ Cardinality(late) = Limit - 1
    <3> DEFINE low == cursor - Limit + 2
    <3>1. low \in Int /\ cursor \in Int /\ IF low > cursor THEN Limit - 1 = 0 ELSE cursor - low + 1 = Limit - 1
      BY <1>1
    <3>2. late = low..cursor
      OBVIOUS
    <3> HIDE DEF low, late
    <3> QED BY <3>1, <3>2, FS_Interval
  <2> QED BY <1>1, <2>1, <2>2
<1> HIDE DEF late
<1>7. \E j, k \in Lanes : j # k /\ f[j] = f[k]
  <2> HIDE DEF f
  <2>1. Cardinality(late) < Cardinality(Lanes)
    BY <1>1, <1>6
  <2> QED BY <1>5, <1>6, <2>1, FS_PigeonHole
<1> QED BY <1>2, <1>7 DEF EnrichInv, EachTakenOnce

\* So the package that is taken next is taken in time.
LEMMA TakenInTime ==
  ASSUME EnrichInv, PaceInv, cursor < N, NEW l \in Lanes, Active(l)
  PROVE  /\ elapsed <= Alone(cursor + 1) * QueryTime
         /\ outcome = "pending" => elapsed <= Round(cursor + 1) * QueryTime
<1> DEFINE q == QueryTime
<1>1. /\ TimersSet /\ Paced /\ AllBegun /\ cursor \in Nat /\ elapsed \in Nat /\ N \in Nat
      /\ cursor + 1 \in Items /\ Limit <= cursor /\ Limit \in Nat
  BY EnrichAssumption DEF PaceInv, AllBegun, EnrichInv, TypeOK, Items
<1>2. q \in Nat
  BY QueryTimeIs
<1>3. \A k \in Lanes : Active(k) => /\ lane[k].item \in Items /\ lane[k].item <= cursor
                                     /\ Used(k) \in Nat /\ Used(k) <= q
  <2> SUFFICES ASSUME NEW k \in Lanes, Active(k)
               PROVE  /\ lane[k].item \in Items /\ lane[k].item <= cursor
                      /\ Used(k) \in Nat /\ Used(k) <= q
    OBVIOUS
  <2>1. lane[k].pc # "done"
    BY DEF Active
  <2> QED BY <1>1, <2>1, UsedIs DEF EnrichInv, TypeOK, EachTakenOnce
<1>4. elapsed <= Alone(cursor + 1) * q
  <2> DEFINE m == Alone(lane[l].item)
             n == Alone(cursor + 1)
  <2>1. m \in Nat /\ n \in Nat /\ m + 1 <= n
    BY <1>1, <1>3, AloneIs DEF Items
  <2>2. elapsed <= m * q + Used(l)
    BY <1>1 DEF Paced
  <2> HIDE DEF m, n, q
  <2>3. m * q \in Nat /\ (m + 1) * q = m * q + q /\ (m + 1) * q <= n * q /\ n * q \in Nat
    BY <1>2, <2>1, TimesGrow
  <2>4. elapsed <= n * q
    BY <1>1, <1>2, <1>3, <2>2, <2>3
  <2> QED BY <2>4 DEF n
<1>5. ASSUME outcome = "pending" PROVE elapsed <= Round(cursor + 1) * q
  <2>1. PICK k \in Lanes : Active(k) /\ lane[k].item - 1 + Limit <= cursor
    BY <1>1, <1>5, OneIsBehind
  <2> DEFINE m == Round(lane[k].item)
             n == Round(cursor + 1)
  <2>2. m \in Nat /\ n \in Nat /\ m + 1 <= n
    <3>1. n = cursor \div Limit
      BY <1>1 DEF Round
    <3> QED BY <1>1, <1>3, <2>1, <3>1, AloneIs
  <2>3. elapsed <= m * q + Used(k)
    BY <1>1, <1>5, <2>1 DEF Paced
  <2> HIDE DEF m, n, q
  <2>4. m * q \in Nat /\ (m + 1) * q = m * q + q /\ (m + 1) * q <= n * q /\ n * q \in Nat
    BY <1>2, <2>2, TimesGrow
  <2>5. elapsed <= n * q
    BY <1>1, <1>2, <1>3, <2>1, <2>3, <2>4
  <2> QED BY <2>5 DEF n
<1> QED BY <1>4, <1>5

\* A lane that does nothing in a step that takes no time is as late as before.
Unmoved(k) == lane'[k] = lane[k] /\ elapsed' = elapsed /\ (outcome' = "pending" => outcome = "pending")

LEMMA UnmovedPaced ==
  ASSUME PaceInv, NEW k \in Lanes, Unmoved(k), Active(k)'
  PROVE  /\ elapsed' <= Alone(lane'[k].item) * QueryTime + Used(k)'
         /\ outcome' = "pending" => elapsed' <= Round(lane'[k].item) * QueryTime + Used(k)'
<1>1. Active(k) /\ Used(k)' = Used(k)
  BY DEF Unmoved, Active, Used
<1> QED BY <1>1 DEF PaceInv, Paced, Unmoved

\* While a lane is not done, or has given up, the caller waits only if one is active.
LEMMA WaitedFor ==
  ASSUME EnrichInv', NEW k \in Lanes, lane'[k].pc # "done", outcome' = "pending"
  PROVE  \E l \in Lanes : Active(l)'
BY DEF EnrichInv, TypeOK, Lane, Told, Active

\* A lane that is answered takes the next package in time.
LEMMA AnsweredPaced ==
  ASSUME EnrichInv, EnrichInv', PaceInv, NEW l \in Lanes, Answered(l)
  PROVE  PaceInv'
<1>1. /\ lane[l].pc = "query" /\ Active(l) /\ elapsed' = elapsed /\ OnlyLane(l)
      /\ TimersSet /\ Paced /\ AllBegun /\ TypeOK
  BY TakeEffect DEF Answered, Active, PaceInv, EnrichInv
<1>2. outcome' = "pending" => outcome = "pending" /\ \E k \in Lanes : lane'[k].pc # "done"
  BY DEF Answered
<1>3. \A k \in Lanes : k # l => Unmoved(k)
  BY <1>1, <1>2 DEF OnlyLane, Unmoved
<1>4. cursor \in Nat /\ N \in Nat /\ Timeout \in Nat /\ Limit \in Nat
  BY <1>1, EnrichAssumption DEF TypeOK
<1>5. CASE cursor < N
  <2>1. /\ cursor' = cursor + 1 /\ lane'[l].pc = "query" /\ lane'[l].item = cursor + 1
        /\ lane'[l].attempt = 0 /\ lane'[l].left = Timeout
    BY <1>1, <1>5 DEF Answered, Take, Query, TypeOK
  <2>2. TimersSet'
    BY <1>1, <1>3, <1>4, <2>1 DEF TimersSet, Unmoved, Backoff
  <2>3. AllBegun'
    BY <1>1, <1>2, <1>4, <1>5, <2>1, WaitedFor DEF AllBegun
  <2>4. Used(l)' \in Nat
    <3>1. Used(l)' = TriesTime(0) + Timeout - Timeout
      BY <2>1 DEF Used
    <3>2. TriesTime(0) \in Nat
      BY TriesTimeIs
    <3> QED BY <1>4, <3>1, <3>2
  <2>5. ASSUME NEW k \in Lanes, Active(k)'
        PROVE  /\ elapsed' <= Alone(lane'[k].item) * QueryTime + Used(k)'
               /\ outcome' = "pending" => elapsed' <= Round(lane'[k].item) * QueryTime + Used(k)'
    <3>1. CASE k # l
      BY <1>3, <2>5, <3>1, UnmovedPaced
    <3>2. CASE k = l
      <4> DEFINE x == Alone(cursor + 1) * QueryTime
                 y == Round(cursor + 1) * QueryTime
                 u == Used(l)'
      <4>1. elapsed <= x /\ (outcome = "pending" => elapsed <= y)
        BY <1>1, <1>5, TakenInTime
      <4>2. x \in Nat /\ y \in Nat /\ u \in Nat /\ elapsed \in Nat
        <5>1. cursor + 1 \in Items
          BY <1>4, <1>5 DEF Items
        <5>2. Alone(cursor + 1) \in Nat /\ Round(cursor + 1) \in Nat /\ QueryTime \in Nat
          BY <5>1, AloneIs, QueryTimeIs
        <5> QED BY <1>1, <2>4, <5>2, TimesGrow DEF TypeOK
      <4>3. lane'[k].item = cursor + 1
        BY <2>1, <3>2
      <4> HIDE DEF x, y, u
      <4>4. elapsed' <= x + u /\ (outcome' = "pending" => elapsed' <= y + u)
        BY <1>1, <1>2, <4>1, <4>2
      <4> QED BY <3>2, <4>3, <4>4 DEF x, y, u
    <3> QED BY <3>1, <3>2
  <2>6. Paced'
    BY <2>5 DEF Paced
  <2> QED BY <2>2, <2>3, <2>6 DEF PaceInv
<1>6. CASE ~(cursor < N)
  <2>1. lane'[l].pc = "done" /\ cursor' = cursor
    BY <1>1, <1>6 DEF Answered, Take, Done, TypeOK
  <2>2. TimersSet'
    BY <1>1, <1>3, <2>1 DEF TimersSet, Unmoved, Backoff
  <2>3. AllBegun'
    BY <1>1, <1>2, <2>1, WaitedFor DEF AllBegun
  <2>4. Paced'
    BY <1>3, <2>1, UnmovedPaced DEF Paced, Active
  <2> QED BY <2>2, <2>3, <2>4 DEF PaceInv
<1> QED BY <1>5, <1>6

\* A try that fails takes no longer than its timer.
LEMMA TryFailsPaced ==
  ASSUME EnrichInv, EnrichInv', PaceInv, NEW l \in Lanes, lane[l].pc = "query", TryFails(l)
  PROVE  PaceInv'
<1>1. /\ Active(l) /\ elapsed' = elapsed /\ cursor' = cursor
      /\ TimersSet /\ Paced /\ AllBegun /\ lane \in [Lanes -> Lane]
  BY DEF TryFails, GivesUp, Active, PaceInv, EnrichInv, TypeOK
<1>2. CASE LastTry(l)
  <2>1. /\ lane' = [lane EXCEPT ![l].pc = "failed"] /\ outcome' = "rejected"
    BY <1>2 DEF TryFails, GivesUp
  <2>2. lane'[l].pc = "failed" /\ \A k \in Lanes : k # l => Unmoved(k)
    BY <1>1, <2>1 DEF Unmoved
  <2>3. TimersSet'
    BY <1>1, <2>2 DEF TimersSet, Unmoved, Backoff
  <2>4. Paced'
    BY <2>2, UnmovedPaced DEF Paced, Active
  <2>5. AllBegun'
    BY <1>1, <2>1 DEF AllBegun
  <2> QED BY <2>3, <2>4, <2>5 DEF PaceInv
<1>3. CASE ~LastTry(l)
  <2> DEFINE a == lane[l].attempt
             i == lane[l].item
  <2>1. /\ lane' = [lane EXCEPT ![l].pc = "delay", ![l].left = Backoff(a)]
        /\ outcome' = outcome
    BY <1>3 DEF TryFails
  <2>2. /\ lane'[l].pc = "delay" /\ lane'[l].item = i /\ lane'[l].attempt = a
        /\ lane'[l].left = Backoff(a) /\ \A k \in Lanes : k # l => Unmoved(k)
    BY <1>1, <2>1 DEF Unmoved, Lane
  <2>3. /\ a \in Nat /\ lane[l].left \in Nat /\ Timeout \in Nat
    BY <1>1, EnrichAssumption DEF Lane
  <2>4. /\ TriesTime(a) \in Nat /\ Backoff(a) \in Nat
        /\ TriesTime(a + 1) = TriesTime(a) + Timeout + Backoff(a)
    BY <2>3, TriesTimeIs
  <2>5. TimersSet'
    <3>1. ASSUME NEW k \in Lanes
          PROVE  /\ lane'[k].pc = "query" => lane'[k].left <= Timeout
                 /\ lane'[k].pc = "delay" => lane'[k].left <= Backoff(lane'[k].attempt)
      <4>1. CASE k = l
        <5> HIDE DEF a
        <5> QED BY <2>2, <2>4, <4>1
      <4>2. CASE k # l
        BY <1>1, <2>2, <4>2 DEF TimersSet, Unmoved
      <4> QED BY <4>1, <4>2
    <3> QED BY <3>1 DEF TimersSet, Backoff
  <2>6. AllBegun'
    BY <1>1, <2>1, <2>2, WaitedFor DEF AllBegun
  <2>7. Used(l) <= Used(l)' /\ Used(l) \in Int /\ Used(l)' \in Int
    <3>1. Used(l) = TriesTime(a) + Timeout - lane[l].left
      BY DEF Used
    <3>2. Used(l)' = TriesTime(a + 1) - Backoff(a)
      BY <2>2 DEF Used
    <3> HIDE DEF a
    <3> QED BY <2>3, <2>4, <3>1, <3>2
  <2>8. ASSUME NEW k \in Lanes, Active(k)'
        PROVE  /\ elapsed' <= Alone(lane'[k].item) * QueryTime + Used(k)'
               /\ outcome' = "pending" => elapsed' <= Round(lane'[k].item) * QueryTime + Used(k)'
    <3>1. CASE k # l
      BY <2>2, <2>8, <3>1, UnmovedPaced
    <3>2. CASE k = l
      <4> DEFINE x == Alone(i) * QueryTime
                 y == Round(i) * QueryTime
      <4>1. elapsed <= x + Used(l) /\ (outcome = "pending" => elapsed <= y + Used(l))
        BY <1>1 DEF Paced
      <4>2. x \in Nat /\ y \in Nat /\ elapsed \in Nat
        <5>1. i \in Items /\ elapsed \in Nat
          BY DEF EnrichInv, TypeOK
        <5>2. Alone(i) \in Nat /\ Round(i) \in Nat /\ QueryTime \in Nat
          BY <5>1, AloneIs, QueryTimeIs
        <5> QED BY <5>1, <5>2, TimesGrow
      <4> HIDE DEF x, y
      <4>3. elapsed' <= x + Used(l)' /\ (outcome' = "pending" => elapsed' <= y + Used(l)')
        BY <1>1, <2>1, <2>7, <4>1, <4>2
      <4> QED BY <2>2, <3>2, <4>3 DEF x, y
    <3> QED BY <3>1, <3>2
  <2> QED BY <2>5, <2>6, <2>8 DEF PaceInv, Paced
<1> QED BY <1>2, <1>3

\* A delay that is over took no longer than it should.
LEMMA TriesAgainPaced ==
  ASSUME EnrichInv, EnrichInv', PaceInv, NEW l \in Lanes, TriesAgain(l)
  PROVE  PaceInv'
<1> DEFINE a == lane[l].attempt
           i == lane[l].item
<1>1. /\ lane[l].pc = "delay" /\ lane[l].left = 0 /\ Active(l)
      /\ UNCHANGED <<cursor, outcome, elapsed>> /\ lane' = [lane EXCEPT ![l] = Query(i, a + 1)]
      /\ TimersSet /\ Paced /\ AllBegun /\ lane \in [Lanes -> Lane]
  BY DEF TriesAgain, Active, PaceInv, EnrichInv, TypeOK
<1>2. /\ lane'[l] = Query(i, a + 1) /\ \A k \in Lanes : k # l => Unmoved(k)
  BY <1>1 DEF Unmoved
<1>3. /\ lane'[l].pc = "query" /\ lane'[l].item = i /\ lane'[l].attempt = a + 1
      /\ lane'[l].left = Timeout
  BY <1>2 DEF Query
<1>4. Timeout \in Nat /\ a \in Nat
  BY <1>1, EnrichAssumption DEF Lane
<1>5. TimersSet'
  <2>1. ASSUME NEW k \in Lanes
        PROVE  /\ lane'[k].pc = "query" => lane'[k].left <= Timeout
               /\ lane'[k].pc = "delay" => lane'[k].left <= Backoff(lane'[k].attempt)
    <3>1. CASE k = l
      <4> HIDE DEF a
      <4> QED BY <1>3, <1>4, <3>1
    <3>2. CASE k # l
      BY <1>1, <1>2, <3>2 DEF TimersSet, Unmoved
    <3> QED BY <3>1, <3>2
  <2> QED BY <2>1 DEF TimersSet, Backoff
<1>6. AllBegun'
  BY <1>1, <1>3, WaitedFor DEF AllBegun
<1>7. Used(l)' = Used(l)
  <2>1. Used(l) = TriesTime(a + 1) - 0 /\ Used(l)' = TriesTime(a + 1) + Timeout - Timeout
    BY <1>1, <1>3 DEF Used
  <2>2. TriesTime(a + 1) \in Nat
    BY <1>4, TriesTimeIs
  <2> QED BY <1>4, <2>1, <2>2
<1>8. Paced'
  <2>1. ASSUME NEW k \in Lanes, Active(k)'
        PROVE  /\ elapsed' <= Alone(lane'[k].item) * QueryTime + Used(k)'
               /\ outcome' = "pending" => elapsed' <= Round(lane'[k].item) * QueryTime + Used(k)'
    <3>1. CASE k # l
      BY <1>2, <2>1, <3>1, UnmovedPaced
    <3>2. CASE k = l
      BY <1>1, <1>3, <1>7, <3>2 DEF Paced
    <3> QED BY <3>1, <3>2
  <2> QED BY <2>1 DEF Paced
<1> QED BY <1>5, <1>6, <1>8 DEF PaceInv

\* A tick of the clock is a tick of every timer that runs.
LEMMA TickPaced ==
  ASSUME EnrichInv, PaceInv, Tick
  PROVE  PaceInv'
<1>1. /\ UNCHANGED <<cursor, outcome>> /\ elapsed' = elapsed + 1 /\ elapsed \in Nat
      /\ TimersSet /\ Paced /\ AllBegun
  BY DEF Tick, PaceInv, EnrichInv, TypeOK
<1>2. ASSUME NEW k \in Lanes
      PROVE  /\ lane'[k].pc = lane[k].pc /\ lane'[k].item = lane[k].item
             /\ lane'[k].attempt = lane[k].attempt
             /\ Active(k) => lane'[k].left = lane[k].left - 1 /\ lane[k].left \in Nat
  <2>1. lane[k] \in Lane /\ lane'[k] = IF Active(k) THEN [lane[k] EXCEPT !.left = @ - 1] ELSE lane[k]
    BY DEF Tick, EnrichInv, TypeOK
  <2> QED BY <2>1 DEF Lane
<1>3. Timeout \in Nat /\ \A k \in Lanes : lane[k].attempt \in Nat
  BY EnrichAssumption DEF EnrichInv, TypeOK, Lane
<1>4. TimersSet'
  <2>1. ASSUME NEW k \in Lanes
        PROVE  /\ lane'[k].pc = "query" => lane'[k].left <= Timeout
               /\ lane'[k].pc = "delay" => lane'[k].left <= Backoff(lane'[k].attempt)
    <3>1. Backoff(lane[k].attempt) \in Nat
      BY <1>3, TriesTimeIs
    <3>2. /\ lane[k].pc = "query" => lane[k].left <= Timeout
          /\ lane[k].pc = "delay" => lane[k].left <= Backoff(lane[k].attempt)
      BY <1>1 DEF TimersSet
    <3> QED BY <1>2, <1>3, <3>1, <3>2 DEF Active
  <2> QED BY <2>1 DEF TimersSet, Backoff
<1>5. AllBegun'
  BY <1>1, <1>2 DEF AllBegun, Active
<1>6. Paced'
  <2>1. ASSUME NEW k \in Lanes, Active(k)'
        PROVE  /\ elapsed' <= Alone(lane'[k].item) * QueryTime + Used(k)'
               /\ outcome' = "pending" => elapsed' <= Round(lane'[k].item) * QueryTime + Used(k)'
    <3>1. Active(k) /\ lane'[k].item = lane[k].item
      BY <1>2, <2>1 DEF Active
    <3> DEFINE x == Alone(lane[k].item) * QueryTime
               y == Round(lane[k].item) * QueryTime
    <3>2. elapsed <= x + Used(k) /\ (outcome = "pending" => elapsed <= y + Used(k))
      BY <1>1, <3>1 DEF Paced
    <3>3. Used(k)' = Used(k) + 1 /\ Used(k) \in Nat
      <4>1. Used(k) \in Nat
        BY <1>1, <3>1, UsedIs
      <4>2. TriesTime(lane[k].attempt) \in Nat /\ TriesTime(lane[k].attempt + 1) \in Nat
        BY <1>3, TriesTimeIs
      <4>3. CASE lane[k].pc = "query"
        <5>1. /\ Used(k) = TriesTime(lane[k].attempt) + Timeout - lane[k].left
              /\ Used(k)' = TriesTime(lane[k].attempt) + Timeout - (lane[k].left - 1)
          BY <1>2, <3>1, <4>3 DEF Used
        <5> QED BY <1>2, <1>3, <3>1, <4>1, <4>2, <5>1
      <4>4. CASE lane[k].pc # "query"
        <5>1. /\ Used(k) = TriesTime(lane[k].attempt + 1) - lane[k].left
              /\ Used(k)' = TriesTime(lane[k].attempt + 1) - (lane[k].left - 1)
          BY <1>2, <3>1, <4>4 DEF Used
        <5> QED BY <1>2, <1>3, <3>1, <4>1, <4>2, <5>1
      <4> QED BY <4>3, <4>4
    <3>4. x \in Nat /\ y \in Nat
      <4>1. lane[k].item \in Items
        BY <3>1 DEF EnrichInv, TypeOK, Active
      <4>2. Alone(lane[k].item) \in Nat /\ Round(lane[k].item) \in Nat /\ QueryTime \in Nat
        BY <4>1, AloneIs, QueryTimeIs
      <4> QED BY <4>2, TimesGrow
    <3> HIDE DEF x, y
    <3>5. elapsed' <= x + Used(k)' /\ (outcome' = "pending" => elapsed' <= y + Used(k)')
      BY <1>1, <3>2, <3>3, <3>4
    <3> QED BY <3>1, <3>5 DEF x, y
  <2> QED BY <2>1 DEF Paced
<1> QED BY <1>4, <1>5, <1>6 DEF PaceInv

\* Every step keeps the pace.
LEMMA PaceStep == EnrichInv /\ EnrichInv' /\ PaceInv /\ [Next]_vars => PaceInv'
<1> SUFFICES ASSUME EnrichInv, EnrichInv', PaceInv, [Next]_vars PROVE PaceInv'
  OBVIOUS
<1>1. CASE Tick
  BY <1>1, TickPaced
<1>2. ASSUME NEW l \in Lanes, Step(l) PROVE PaceInv'
  <2>1. CASE Answered(l)
    BY <2>1, AnsweredPaced
  <2>2. CASE Refused(l) \/ Aborted(l)
    BY <2>2, TryFailsPaced DEF Refused, Aborted
  <2>3. CASE TriesAgain(l)
    BY <2>3, TriesAgainPaced
  <2> QED BY <1>2, <2>1, <2>2, <2>3 DEF Step
<1>3. CASE UNCHANGED vars
  BY <1>3 DEF vars, PaceInv, Paced, TimersSet, AllBegun, Active, Used, Backoff
<1> QED BY <1>1, <1>2, <1>3 DEF Next

\* So whoever is active still is in time, up to the last package.
LEMMA LastInTime ==
  ASSUME EnrichInv, PaceInv, NEW l \in Lanes, Active(l)
  PROVE  /\ outcome = "pending" => elapsed <= Rounds * QueryTime
         /\ elapsed <= (IF Limit < N THEN N - Limit + 1 ELSE 1) * QueryTime
<1> DEFINE i == lane[l].item
           q == QueryTime
           turns == IF Limit < N THEN N - Limit + 1 ELSE 1
<1>1. /\ i \in Items /\ elapsed \in Nat /\ N \in Nat /\ Limit \in Nat \ {0} /\ q \in Nat
      /\ Used(l) \in Nat /\ Used(l) <= q
  BY EnrichAssumption, QueryTimeIs, UsedIs DEF EnrichInv, TypeOK, Active, PaceInv
<1>2. elapsed <= turns * q
  <2> DEFINE m == Alone(i)
  <2>1. m \in Nat /\ turns \in Nat /\ m + 1 <= turns
    BY <1>1, AloneIs DEF Alone, Items
  <2>2. elapsed <= m * q + Used(l)
    BY DEF PaceInv, Paced
  <2> HIDE DEF m, q, turns
  <2>3. m * q \in Nat /\ (m + 1) * q = m * q + q /\ (m + 1) * q <= turns * q /\ turns * q \in Nat
    BY <1>1, <2>1, TimesGrow
  <2> QED BY <1>1, <2>2, <2>3
<1>3. ASSUME outcome = "pending" PROVE elapsed <= Rounds * q
  <2> DEFINE m == Round(i)
             n == Rounds
  <2>1. m \in Nat /\ n \in Nat /\ m + 1 <= n
    <3> DEFINE h == N + Limit - 1
    <3>1. h \in Nat /\ i - 1 + Limit <= h
      BY <1>1 DEF Items
    <3>2. n = h \div Limit
      BY DEF Rounds
    <3> HIDE DEF h
    <3>3. m \in Nat /\ m + 1 <= h \div Limit
      BY <1>1, <3>1, AloneIs
    <3>4. h \div Limit \in Nat
      BY <1>1, <3>1
    <3> QED BY <3>2, <3>3, <3>4
  <2>2. elapsed <= m * q + Used(l)
    BY <1>3 DEF PaceInv, Paced
  <2> HIDE DEF m, q, n
  <2>3. m * q \in Nat /\ (m + 1) * q = m * q + q /\ (m + 1) * q <= n * q /\ n * q \in Nat
    BY <1>1, <2>1, TimesGrow
  <2>4. elapsed <= n * q
    BY <1>1, <2>2, <2>3
  <2> QED BY <2>4 DEF n
<1> QED BY <1>2, <1>3

\* The call is answered within the time that the lanes need if every look-up
\* takes as long as it can: no lane rests while packages are left, so the last
\* package is taken when all before it are done or at a lane.
THEOREM EnrichmentEndsInTime == Spec => []EndsInTime
<1>1. EnrichInv /\ PaceInv => EndsInTime
  BY LastInTime DEF PaceInv, AllBegun, EndsInTime
<1>2. Spec => []PaceInv
  BY PaceInit, PaceStep, EnrichInvariant, PTL DEF Spec
<1> QED BY <1>1, <1>2, EnrichInvariant, PTL
=============================================================================
