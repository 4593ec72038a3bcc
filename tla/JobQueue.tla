------------------------------ MODULE JobQueue ------------------------------
(***************************************************************************)
(* The asynchronous scan-job queue of packages/storage: the JobQueue port  *)
(* and the behaviour its two adapters share, InMemoryJobQueue (job.ts) and *)
(* PostgresJobQueue (postgres.ts).  The state is the job table; there is   *)
(* one action per method that changes it.  Each method is one atomic step: *)
(* InMemoryJobQueue mutates synchronously, PostgresJobQueue runs one SQL   *)
(* statement (FOR UPDATE SKIP LOCKED for a claim).                         *)
(*                                                                         *)
(* As in the code, complete, fail and retry check neither the status of    *)
(* the job nor who holds it: any caller that knows the id may call them.   *)
(*                                                                         *)
(* Time is kept relative to the present, in ticks.  wait is what remains   *)
(* until availableAt (0: it has passed), age is the time since updatedAt,  *)
(* kept up to Lease and only while the job runs, as nothing reads it in    *)
(* another status.  Job ids are numbered in the order of insertion, the    *)
(* order of the Map and of the column seq.  result and error hold 0 for    *)
(* null and otherwise the number of the attempt that wrote them.           *)
(***************************************************************************)
EXTENDS Naturals

CONSTANTS
  MaxJobs,      \* how many jobs are ever submitted (a bound of the model)
  Lease         \* leaseMs, in ticks

ASSUME QueueAssumption == MaxJobs \in Nat /\ Lease \in Nat \ {0}

VARIABLE job    \* the job table: job id -> record

JobIds == 1..MaxJobs

Statuses == {"absent", "queued", "running", "succeeded", "failed"}

\* "absent" stands for an id that has not been inserted yet.
Job == [status : Statuses, attempts : Nat, wait : Nat, age : 0..Lease,
        result : Nat, error : Nat]

NoJob == [status |-> "absent", attempts |-> 0, wait |-> 0, age |-> 0,
          result |-> 0, error |-> 0]

createJob == [NoJob EXCEPT !.status = "queued"]

QueueInit == job = [j \in JobIds |-> NoJob]

Terminal(j) == job[j].status \in {"succeeded", "failed"}

-----------------------------------------------------------------------------

\* Mutants of leaseExpired: one tick early; claimNext called without leaseMs.
leaseExpiredEarly(j) == job[j].age + 1 >= Lease
leaseIgnored(j) == FALSE

leaseExpired(j) == job[j].age >= Lease

\* Mutant of Claimable: the status of an available row is not looked at.
ClaimableAnyStatus(j) ==
  \/ job[j].status # "absent" /\ job[j].wait = 0
  \/ job[j].status = "running" /\ leaseExpired(j)

Claimable(j) ==
  \/ job[j].status = "queued" /\ job[j].wait = 0
  \/ job[j].status = "running" /\ leaseExpired(j)

Enqueue(j) ==
  /\ job[j].status = "absent"
  /\ \A i \in JobIds : i < j => job[i].status # "absent"
  /\ job' = [job EXCEPT ![j] = createJob]

\* Mutant of Claimed: taking over an expired lease does not count the attempt.
ClaimedUncounted(r) ==
  [r EXCEPT !.status = "running", !.age = 0,
            !.attempts = IF r.status = "queued" THEN @ + 1 ELSE @]

Claimed(r) == [r EXCEPT !.status = "running", !.attempts = r.attempts + 1, !.age = 0]

\* The oldest claimable job, taken from whoever held it.
ClaimNext(j) ==
  /\ Claimable(j)
  /\ \A i \in JobIds : i < j => ~Claimable(i)
  /\ job' = [job EXCEPT ![j] = Claimed(job[j])]

\* Mutant of Complete: the error of an earlier attempt stays.
CompleteKeepsError(j, result) ==
  /\ job[j].status # "absent"
  /\ job' = [job EXCEPT ![j] = [@ EXCEPT !.status = "succeeded",
                                         !.result = result,
                                         !.age = 0]]

Complete(j, result) ==
  /\ job[j].status # "absent"
  /\ job' = [job EXCEPT ![j] = [@ EXCEPT !.status = "succeeded",
                                         !.result = result,
                                         !.error = 0,
                                         !.age = 0]]

Fail(j, error) ==
  /\ job[j].status # "absent"
  /\ job' = [job EXCEPT ![j] = [@ EXCEPT !.status = "failed",
                                         !.result = 0,
                                         !.error = error,
                                         !.age = 0]]

\* Mutant of Retry: the reason of the failure is not kept.
RetryWithoutError(j, error, delay) ==
  /\ job[j].status # "absent"
  /\ job' = [job EXCEPT ![j] = [@ EXCEPT !.status = "queued",
                                         !.wait = delay,
                                         !.age = 0]]

\* retry leaves result as it is.
Retry(j, error, delay) ==
  /\ job[j].status # "absent"
  /\ job' = [job EXCEPT ![j] = [@ EXCEPT !.status = "queued",
                                         !.error = error,
                                         !.wait = delay,
                                         !.age = 0]]


\* One tick of the clock both adapters read with now().
Aged(r) ==
  [r EXCEPT !.wait = IF @ > 0 THEN @ - 1 ELSE 0,
            !.age = IF r.status = "running" /\ @ < Lease THEN @ + 1 ELSE @]

TimePasses == job' = [j \in JobIds |-> Aged(job[j])]
=============================================================================
