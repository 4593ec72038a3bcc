------------------------------ MODULE OsvEnrich -----------------------------
(***************************************************************************)
(* enrichWithOsv of packages/enrich-osv: the packages of a scan are looked *)
(* up at OSV by mapLimit, whose lanes share a cursor over the list; every  *)
(* look-up (queryOsv) is tried again after a growing delay, and each try   *)
(* is aborted when its timer runs out.                                     *)
(*                                                                         *)
(* A step of a lane goes from one await to the next.  A try may fail at    *)
(* any time (the network, a status, an answer of another shape).  When a   *)
(* look-up fails for good, Promise.all rejects at once, and the caller     *)
(* goes on; the other lanes are not told and go on too.                    *)
(***************************************************************************)
EXTENDS Integers

CONSTANTS
  N,           \* number of packages
  Limit,       \* concurrency
  Retries,     \* retries
  Timeout,     \* timeoutMs, in ticks
  BaseDelay    \* RETRY_BASE_DELAY_MS, in ticks

ASSUME EnrichAssumption ==
  /\ N \in Nat /\ Limit \in Nat \ {0} /\ Retries \in Nat
  /\ Timeout \in Nat \ {0} /\ BaseDelay \in Nat

Items == 1..N
Lanes == 1..(IF Limit < N THEN Limit ELSE N)

VARIABLES
  cursor,      \* how many packages have been taken
  lane,        \* lane -> what it waits for
  requests,    \* package -> requests sent for it
  results,     \* index -> package whose findings stand there, 0 for a hole
  outcome,     \* what the caller was told
  elapsed      \* ticks since the call

vars == <<cursor, lane, requests, results, outcome, elapsed>>

\* pc: "query" for an answer, "delay" before the next try, "done" at the end of
\* the list, "failed" when its look-up failed for good.
Lane == [pc : {"query", "delay", "done", "failed"}, item : Items \cup {0},
         attempt : 0..Retries, left : Nat]

Active(l) == lane[l].pc \in {"query", "delay"}

TypeOK ==
  /\ cursor \in 0..N
  /\ lane \in [Lanes -> Lane]
  /\ \A l \in Lanes : lane[l].pc # "done" => lane[l].item \in Items
  /\ requests \in [Items -> 0..(Retries + 1)]
  /\ results \in [Items -> Items \cup {0}]
  /\ outcome \in {"pending", "resolved", "rejected"}
  /\ elapsed \in Nat

-----------------------------------------------------------------------------

Query(i, attempt) == [pc |-> "query", item |-> i, attempt |-> attempt, left |-> Timeout]

Done == [pc |-> "done", item |-> 0, attempt |-> 0, left |-> 0]

\* Every lane starts before the first answer can arrive.
Init ==
  /\ cursor = IF Limit < N THEN Limit ELSE N
  /\ lane = [l \in Lanes |-> Query(l, 0)]
  /\ requests = [i \in Items |-> IF i \in Lanes THEN 1 ELSE 0]
  /\ results = [i \in Items |-> 0]
  /\ outcome = IF N = 0 THEN "resolved" ELSE "pending"
  /\ elapsed = 0

\* Mutant of Take: the cursor is read before the await and written after it.
TakeStale(l) ==
  LET next == lane[l].item + 1 IN
  IF next <= N
  THEN /\ cursor' = next
       /\ lane' = [lane EXCEPT ![l] = Query(next, 0)]
       /\ requests' = [requests EXCEPT ![next] = @ + 1]
  ELSE /\ lane' = [lane EXCEPT ![l] = Done]
       /\ UNCHANGED <<cursor, requests>>

\* The loop of a lane takes the next package, or ends.
Take(l) ==
  IF cursor < N
  THEN /\ cursor' = cursor + 1
       /\ lane' = [lane EXCEPT ![l] = Query(cursor + 1, 0)]
       /\ requests' = [requests EXCEPT ![cursor + 1] = @ + 1]
  ELSE /\ lane' = [lane EXCEPT ![l] = Done]
       /\ UNCHANGED <<cursor, requests>>

\* Promise.all resolves with the last lane that ends.
Answered(l) ==
  /\ lane[l].pc = "query"
  /\ results' = [results EXCEPT ![lane[l].item] = lane[l].item]
  /\ Take(l)
  /\ outcome' = IF \A k \in Lanes : lane'[k].pc = "done" THEN "resolved" ELSE outcome
  /\ UNCHANGED elapsed

\* Mutant of Backoff: one doubling too many.
BackoffLate(attempt) == BaseDelay * 2 ^ (attempt + 1)

Backoff(attempt) == BaseDelay * 2 ^ attempt

\* Mutant of LastTry: the last try is left out.
LastTryEarly(l) == lane[l].attempt + 1 >= Retries

LastTry(l) == lane[l].attempt = Retries

\* Mutant of GivesUp: a look-up that failed for good leaves a hole.
GivesUpQuietly(l) ==
  /\ Take(l)
  /\ outcome' = IF \A k \in Lanes : lane'[k].pc = "done" THEN "resolved" ELSE outcome

\* queryOsv throws, the lane rejects and Promise.all with it.
GivesUp(l) ==
  /\ lane' = [lane EXCEPT ![l].pc = "failed"]
  /\ outcome' = "rejected"
  /\ UNCHANGED <<cursor, requests>>

\* The catch block of queryOsv.
TryFails(l) ==
  /\ IF LastTry(l)
     THEN GivesUp(l)
     ELSE /\ lane' = [lane EXCEPT ![l].pc = "delay", ![l].left = Backoff(lane[l].attempt)]
          /\ UNCHANGED <<cursor, requests, outcome>>
  /\ UNCHANGED <<results, elapsed>>

\* The try throws before its timer runs out.
Refused(l) ==
  /\ lane[l].pc = "query"
  /\ lane[l].left > 0
  /\ TryFails(l)

\* Mutant of Aborted: the timer was cleared when the headers had arrived.
AbortedNever(l) == FALSE /\ UNCHANGED vars

Aborted(l) ==
  /\ lane[l].pc = "query"
  /\ lane[l].left = 0
  /\ TryFails(l)

\* The delay is over.
TriesAgain(l) ==
  /\ lane[l].pc = "delay"
  /\ lane[l].left = 0
  /\ lane' = [lane EXCEPT ![l] = Query(lane[l].item, lane[l].attempt + 1)]
  /\ requests' = [requests EXCEPT ![lane[l].item] = @ + 1]
  /\ UNCHANGED <<cursor, results, outcome, elapsed>>

\* Timers fire on time.
Tick ==
  /\ \E l \in Lanes : Active(l)
  /\ \A l \in Lanes : Active(l) => lane[l].left > 0
  /\ lane' = [l \in Lanes |-> IF Active(l) THEN [lane[l] EXCEPT !.left = @ - 1] ELSE lane[l]]
  /\ elapsed' = elapsed + 1
  /\ UNCHANGED <<cursor, requests, results, outcome>>

Step(l) == Answered(l) \/ Refused(l) \/ Aborted(l) \/ TriesAgain(l)

Next == Tick \/ \E l \in Lanes : Step(l)

Spec == Init /\ [][Next]_vars

\* Time passes and timers fire; no answer is ever owed.
FairSpec ==
  /\ Spec
  /\ WF_vars(Tick)
  /\ \A l \in Lanes : WF_vars(Aborted(l)) /\ WF_vars(TriesAgain(l))

-----------------------------------------------------------------------------

\* Every package that was taken is in one place: at a lane, given up by one, or
\* among the results, at its own index; the others have not been touched.
EachTakenOnce ==
  /\ \A k, l \in Lanes :
       lane[k].pc # "done" /\ lane[l].pc # "done" /\ lane[k].item = lane[l].item => k = l
  /\ \A i \in Items :
       /\ i <= cursor <=> (results[i] = i \/ \E l \in Lanes : lane[l].pc # "done" /\ lane[l].item = i)
       /\ results[i] = i => \A l \in Lanes : lane[l].pc # "done" => lane[l].item # i
       /\ i > cursor => requests[i] = 0

\* A list that is handed to the scan has no hole, and nothing goes on behind it.
ResolvedIsWhole ==
  outcome = "resolved" => /\ \A i \in Items : results[i] = i
                          /\ \A l \in Lanes : lane[l].pc = "done"

\* The scan is told of a failure exactly when some package failed every try.
RejectedHasCause ==
  outcome = "rejected" <=>
    \E l \in Lanes : lane[l].pc = "failed" /\ requests[lane[l].item] = Retries + 1

\* The longest look-up, and how many follow each other at most.
QueryTime == (Retries + 1) * Timeout + BaseDelay * (2 ^ Retries - 1)
Rounds == (N + Limit - 1) \div Limit

\* However the network behaves, the caller is answered within this time: the
\* bound to set against the lease of the job.  A call that has rejected may
\* leave a single lane behind, which goes through the rest of the list alone.
EndsInTime ==
  /\ outcome = "pending" => elapsed <= Rounds * QueryTime
  /\ (\E l \in Lanes : Active(l)) =>
       elapsed <= (IF Limit < N THEN N - Limit + 1 ELSE 1) * QueryTime

\* A call is answered, and its lanes come to rest.
EveryLaneRests == <>(outcome # "pending" /\ \A l \in Lanes : ~Active(l))
=============================================================================
