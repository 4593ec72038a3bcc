-------------------------- MODULE ScanWorkerProofs --------------------------
(***************************************************************************)
(* Theorems about the scan workers, for any number of workers, jobs,       *)
(* attempts, crashes and throwing calls, and any lease and backoff.        *)
(***************************************************************************)
EXTENDS ScanWorker, TLAPS

-----------------------------------------------------------------------------
(* What each method of the job queue does to the table, whoever calls it.  *)

TableOK == job \in [JobIds -> Job]

\* All jobs but j keep their row.
OthersKept(j) == \A i \in JobIds : i # j => job'[i] = job[i]

\* The values the methods write are of the type of their fields.
LEMMA WrittenValues ==
  /\ \A s \in {"queued", "running", "succeeded", "failed"} : s \in Statuses
  /\ 0 \in 0..Lease /\ 0 \in Nat
BY QueueAssumption DEF Statuses

\* enqueue inserts one fresh row, and touches no row that exists.
LEMMA EnqueueEffect ==
  ASSUME TableOK, NEW j \in JobIds, Enqueue(j)
  PROVE  /\ TableOK' /\ OthersKept(j)
         /\ job[j].status = "absent"
         /\ job'[j].status = "queued" /\ job'[j].attempts = 0
         /\ job'[j].wait = 0 /\ job'[j].result = 0 /\ job'[j].error = 0
<1>1. createJob \in Job /\ createJob.status = "queued" /\ createJob.attempts = 0
      /\ createJob.wait = 0 /\ createJob.result = 0 /\ createJob.error = 0
  BY QueueAssumption DEF createJob, NoJob, Job, Statuses
<1>2. job' = [job EXCEPT ![j] = createJob] /\ job[j].status = "absent"
  BY DEF Enqueue
<1> QED BY <1>1, <1>2 DEF TableOK, OthersKept

\* claimNext takes one queued row whose backoff is over, or one running row
\* whose lease is over, and counts the attempt.
LEMMA ClaimEffect ==
  ASSUME TableOK, NEW j \in JobIds, ClaimNext(j)
  PROVE  /\ TableOK' /\ OthersKept(j)
         /\ \/ job[j].status = "queued" /\ job[j].wait = 0
            \/ job[j].status = "running" /\ job[j].age >= Lease
         /\ job'[j].status = "running" /\ job'[j].attempts = job[j].attempts + 1
         /\ job'[j].age = 0 /\ job'[j].wait = job[j].wait
         /\ job'[j].result = job[j].result /\ job'[j].error = job[j].error
<1>1. job[j] \in Job /\ job[j].attempts + 1 \in Nat
  BY DEF TableOK, Job
<1>2. Claimed(job[j]) \in Job
  BY <1>1, WrittenValues DEF Claimed, Job
<1>3. LET r == Claimed(job[j]) IN
      /\ r.status = "running" /\ r.attempts = job[j].attempts + 1 /\ r.age = 0
      /\ r.wait = job[j].wait /\ r.result = job[j].result /\ r.error = job[j].error
  BY <1>1 DEF Claimed, Job
<1>4. job' \in [JobIds -> Job] /\ job'[j] = Claimed(job[j]) /\ OthersKept(j)
  BY <1>2 DEF TableOK, OthersKept, ClaimNext
<1>5. \/ job[j].status = "queued" /\ job[j].wait = 0
      \/ job[j].status = "running" /\ job[j].age >= Lease
  BY DEF ClaimNext, Claimable, leaseExpired
<1> QED BY <1>3, <1>4, <1>5 DEF TableOK

\* complete stores the result, whatever the row said before.
LEMMA CompleteEffect ==
  ASSUME TableOK, NEW j \in JobIds, NEW res \in Nat, Complete(j, res)
  PROVE  /\ TableOK' /\ OthersKept(j)
         /\ job[j].status # "absent"
         /\ job'[j].status = "succeeded" /\ job'[j].attempts = job[j].attempts
         /\ job'[j].age = 0 /\ job'[j].wait = job[j].wait
         /\ job'[j].result = res /\ job'[j].error = 0
<1> DEFINE r == [job[j] EXCEPT !.status = "succeeded", !.result = res,
                               !.error = 0, !.age = 0]
<1>1. job[j] \in Job
  BY DEF TableOK
<1>2. r \in Job
  BY <1>1, WrittenValues DEF Job
<1>3. /\ r.status = "succeeded" /\ r.attempts = job[j].attempts /\ r.age = 0
      /\ r.wait = job[j].wait /\ r.result = res /\ r.error = 0
  BY <1>1 DEF Job
<1>4. job' = [job EXCEPT ![j] = r] /\ job[j].status # "absent"
  BY DEF Complete
<1>5. job' \in [JobIds -> Job] /\ job'[j] = r /\ OthersKept(j)
  BY <1>2, <1>4 DEF TableOK, OthersKept
<1> HIDE DEF r
<1> QED BY <1>3, <1>4, <1>5 DEF TableOK

\* fail stores the error and drops the result, whatever the row said before.
LEMMA FailEffect ==
  ASSUME TableOK, NEW j \in JobIds, NEW err \in Nat, Fail(j, err)
  PROVE  /\ TableOK' /\ OthersKept(j)
         /\ job[j].status # "absent"
         /\ job'[j].status = "failed" /\ job'[j].attempts = job[j].attempts
         /\ job'[j].age = 0 /\ job'[j].wait = job[j].wait
         /\ job'[j].result = 0 /\ job'[j].error = err
<1> DEFINE r == [job[j] EXCEPT !.status = "failed", !.result = 0,
                               !.error = err, !.age = 0]
<1>1. job[j] \in Job
  BY DEF TableOK
<1>2. r \in Job
  BY <1>1, WrittenValues DEF Job
<1>3. /\ r.status = "failed" /\ r.attempts = job[j].attempts /\ r.age = 0
      /\ r.wait = job[j].wait /\ r.result = 0 /\ r.error = err
  BY <1>1 DEF Job
<1>4. job' = [job EXCEPT ![j] = r] /\ job[j].status # "absent"
  BY DEF Fail
<1>5. job' \in [JobIds -> Job] /\ job'[j] = r /\ OthersKept(j)
  BY <1>2, <1>4 DEF TableOK, OthersKept
<1> HIDE DEF r
<1> QED BY <1>3, <1>4, <1>5 DEF TableOK

\* retry puts the row back with a backoff, and keeps its result.
LEMMA RetryEffect ==
  ASSUME TableOK, NEW j \in JobIds, NEW err \in Nat, NEW delay \in Nat,
         Retry(j, err, delay)
  PROVE  /\ TableOK' /\ OthersKept(j)
         /\ job[j].status # "absent"
         /\ job'[j].status = "queued" /\ job'[j].attempts = job[j].attempts
         /\ job'[j].age = 0 /\ job'[j].wait = delay
         /\ job'[j].result = job[j].result /\ job'[j].error = err
<1> DEFINE r == [job[j] EXCEPT !.status = "queued", !.error = err,
                               !.wait = delay, !.age = 0]
<1>1. job[j] \in Job
  BY DEF TableOK
<1>2. r \in Job
  BY <1>1, WrittenValues DEF Job
<1>3. /\ r.status = "queued" /\ r.attempts = job[j].attempts /\ r.age = 0
      /\ r.wait = delay /\ r.result = job[j].result /\ r.error = err
  BY <1>1 DEF Job
<1>4. job' = [job EXCEPT ![j] = r] /\ job[j].status # "absent"
  BY DEF Retry
<1>5. job' \in [JobIds -> Job] /\ job'[j] = r /\ OthersKept(j)
  BY <1>2, <1>4 DEF TableOK, OthersKept
<1> HIDE DEF r
<1> QED BY <1>3, <1>4, <1>5 DEF TableOK

\* The clock moves timers only: a row at rest stays as it is, and a running
\* row ages by at most one tick.
LEMMA TickEffect ==
  ASSUME TableOK, TimePasses, NEW j \in JobIds
  PROVE  /\ TableOK'
         /\ job'[j].status = job[j].status /\ job'[j].attempts = job[j].attempts
         /\ job'[j].result = job[j].result /\ job'[j].error = job[j].error
         /\ job[j].wait = 0 => job'[j].wait = 0
         /\ job'[j].age <= job[j].age + 1
         /\ job[j].wait = 0 /\ job[j].status # "running" => job'[j] = job[j]
<1> DEFINE W(r) == IF r.wait > 0 THEN r.wait - 1 ELSE 0
           A(r) == IF r.status = "running" /\ r.age < Lease THEN r.age + 1 ELSE r.age
<1>1. \A r \in Job : Aged(r) = [r EXCEPT !.wait = W(r), !.age = A(r)]
  BY DEF Aged
<1>2. \A r \in Job : W(r) \in Nat /\ A(r) \in 0..Lease /\ A(r) <= r.age + 1
      /\ (r.wait = 0 => W(r) = 0) /\ (r.status # "running" => A(r) = r.age)
  BY QueueAssumption DEF Job
<1> HIDE DEF W, A
<1>3. \A r \in Job :
        /\ Aged(r) \in Job
        /\ Aged(r).status = r.status /\ Aged(r).attempts = r.attempts
        /\ Aged(r).result = r.result /\ Aged(r).error = r.error
        /\ Aged(r).wait = W(r) /\ Aged(r).age = A(r)
  BY <1>1, <1>2 DEF Job
<1>4. \A r \in Job : r.wait = 0 /\ r.status # "running" => Aged(r) = r
  <2> SUFFICES ASSUME NEW r \in Job, r.wait = 0, r.status # "running"
               PROVE  Aged(r) = r
    OBVIOUS
  <2>1. W(r) = r.wait /\ A(r) = r.age
    BY <1>2
  <2>2. Aged(r) = [r EXCEPT !.wait = r.wait, !.age = r.age]
    BY <1>1, <2>1
  <2>3. [r EXCEPT !.wait = r.wait, !.age = r.age] = r
    BY Zenon DEF Job
  <2> QED BY <2>2, <2>3
<1>5. job' = [i \in JobIds |-> Aged(job[i])]
  BY DEF TimePasses
<1>6. \A i \in JobIds : job[i] \in Job
  BY DEF TableOK
<1>7. TableOK'
  BY <1>3, <1>5, <1>6 DEF TableOK
<1>8. job'[j] = Aged(job[j]) /\ job[j] \in Job
  BY <1>5, <1>6
<1> QED BY <1>2, <1>3, <1>4, <1>7, <1>8

-----------------------------------------------------------------------------
(* What a step does to one worker.                                         *)

USE DEF TableOK

\* No worker but w changes.
OnlyWorker(w) == \A v \in Workers : v # w => worker'[v] = worker[v]

LEMMA RestEffect ==
  ASSUME TypeOK, NEW w \in Workers, Rest(w)
  PROVE  /\ worker' \in [Workers -> Worker]
         /\ OnlyWorker(w) /\ worker'[w].pc = "idle"
BY DEF TypeOK, Rest, Idle, Worker, OnlyWorker

LEMMA GoEffect ==
  ASSUME TypeOK, NEW w \in Workers, NEW pc \in {"scanned", "caught"}, Go(w, pc)
  PROVE  /\ worker' \in [Workers -> Worker]
         /\ OnlyWorker(w) /\ worker'[w].pc = pc
         /\ worker'[w].job = worker[w].job /\ worker'[w].attempt = worker[w].attempt
<1>1. worker[w] \in Worker
  BY DEF TypeOK
<1>2. [worker[w] EXCEPT !.pc = pc] \in Worker
  BY <1>1 DEF Worker
<1> QED BY <1>1, <1>2 DEF TypeOK, Go, OnlyWorker, Worker

LEMMA ClaimerEffect ==
  ASSUME TypeOK, NEW w \in Workers, NEW j \in JobIds,
         worker' = [worker EXCEPT ![w] = [pc |-> "scanning", job |-> j,
                                          attempt |-> job[j].attempts + 1]]
  PROVE  /\ worker' \in [Workers -> Worker]
         /\ OnlyWorker(w) /\ worker'[w].pc = "scanning"
         /\ worker'[w].job = j /\ worker'[w].attempt = job[j].attempts + 1
<1>1. job[j].attempts + 1 \in Nat
  BY DEF TypeOK, Job
<1> QED BY <1>1 DEF TypeOK, OnlyWorker, Worker

LEMMA CrashEffect ==
  ASSUME TypeOK, NEW w \in Workers, worker' = [worker EXCEPT ![w] = Down]
  PROVE  /\ worker' \in [Workers -> Worker]
         /\ OnlyWorker(w) /\ worker'[w].pc = "down"
BY DEF TypeOK, Down, Idle, Worker, OnlyWorker

\* The number a holder writes with, and the delay it retries with, are numbers.
LEMMA HolderTyped ==
  ASSUME TypeOK, NEW w \in Workers, Holding(w)
  PROVE  /\ worker[w].job \in JobIds /\ worker[w].attempt \in Nat
         /\ worker[w].pc \in {"scanning", "scanned", "caught"}
BY DEF TypeOK, Holding, Worker

LEMMA DelayTyped ==
  ASSUME NEW n \in Nat, n >= 1, n < MaxAttempts
  PROVE  nextRetryAt(n) \in Nat
<1>1. n \in 1..MaxAttempts
  BY WorkerAssumption
<1> QED BY <1>1, DelayAssumption

-----------------------------------------------------------------------------
(* Type correctness, and what attempt numbers tell in every deployment.    *)

\* A claimed copy carries an attempt the job has reached.
CopyNotAhead ==
  \A w \in Workers : Holding(w) =>
    worker[w].attempt >= 1 /\ worker[w].attempt <= job[worker[w].job].attempts

\* Two copies of one job carry different attempts.
CopiesDistinct ==
  \A v, w \in Workers : Holding(v) /\ Holding(w) /\ v # w /\ worker[v].job = worker[w].job
    => worker[v].attempt # worker[w].attempt

\* An id that is not inserted yet has no row.
FreshRows == \A j \in JobIds : job[j].status = "absent" => job[j] = NoJob

BaseInv == TypeOK /\ FreshRows /\ CopyNotAhead /\ CopiesDistinct /\ OutcomeSound

LEMMA BaseInit == Init => BaseInv
<1> SUFFICES ASSUME Init PROVE BaseInv
  OBVIOUS
<1>1. NoJob \in Job
  BY QueueAssumption, 0 \in 0..Lease DEF NoJob, Job, Statuses
<1>2. \A j \in JobIds : job[j] = NoJob
  BY DEF Init, QueueInit
<1>3. \A w \in Workers : worker[w] = Idle
  BY DEF Init
<1>4. TypeOK
  BY <1>1, <1>3 DEF Init, QueueInit, TypeOK, Worker, Idle, Holding
<1>5. CopyNotAhead /\ CopiesDistinct
  BY <1>3 DEF CopyNotAhead, CopiesDistinct, Holding, Idle
<1>6. OutcomeSound
  BY <1>2 DEF OutcomeSound, NoJob
<1>7. FreshRows
  BY <1>2 DEF FreshRows
<1> QED BY <1>4, <1>5, <1>6, <1>7 DEF BaseInv

\* The three parts of the invariant besides the types only look at rows and
\* workers: a step that lets one worker go, and counts no attempt, keeps them.
LEMMA ReleaseKeeps ==
  ASSUME BaseInv, NEW w \in Workers, OnlyWorker(w), ~Holding(w)',
         TypeOK', \A j \in JobIds : job'[j].attempts = job[j].attempts
  PROVE  CopyNotAhead' /\ CopiesDistinct'
<1>1. \A v \in Workers : Holding(v)' => v # w /\ Holding(v) /\ worker'[v] = worker[v]
  BY DEF OnlyWorker, Holding
<1>2. CopyNotAhead'
  BY <1>1 DEF BaseInv, TypeOK, CopyNotAhead
<1>3. CopiesDistinct'
  BY <1>1 DEF BaseInv, CopiesDistinct
<1> QED BY <1>2, <1>3

\* So does a step in which one holder goes on with the copy it has.
LEMMA HolderKeeps ==
  ASSUME BaseInv, NEW w \in Workers, OnlyWorker(w), Holding(w), Holding(w)',
         worker'[w].job = worker[w].job, worker'[w].attempt = worker[w].attempt,
         TypeOK', \A j \in JobIds : job'[j].attempts = job[j].attempts
  PROVE  CopyNotAhead' /\ CopiesDistinct'
<1>1. \A v \in Workers : Holding(v)' =>
        /\ Holding(v)
        /\ worker'[v].job = worker[v].job /\ worker'[v].attempt = worker[v].attempt
  BY DEF OnlyWorker, Holding
<1>2. CopyNotAhead'
  BY <1>1 DEF BaseInv, TypeOK, CopyNotAhead
<1>3. CopiesDistinct'
  BY <1>1 DEF BaseInv, CopiesDistinct
<1> QED BY <1>2, <1>3

\* A claim hands out an attempt number beyond every copy of the job, whether
\* or not its answer reaches the worker.
LEMMA ClaimKeeps ==
  ASSUME BaseInv, NEW w \in Workers, NEW j \in JobIds, ClaimNext(j),
         worker[w].pc = "idle", faults' \in Nat,
         \/ worker' = worker
         \/ worker' = [worker EXCEPT ![w] = [pc |-> "scanning", job |-> j,
                                            attempt |-> job[j].attempts + 1]]
  PROVE  BaseInv'
<1> USE DEF BaseInv
<1>1. /\ job' \in [JobIds -> Job] /\ OthersKept(j)
      /\ job'[j].status = "running" /\ job'[j].attempts = job[j].attempts + 1
  BY ClaimEffect DEF TypeOK
<1>2. \A i \in JobIds : job[i].attempts \in Nat /\ job'[i].attempts \in Nat
                        /\ job[i].attempts <= job'[i].attempts
  BY <1>1 DEF TypeOK, Job, OthersKept
<1>3. OutcomeSound' /\ FreshRows'
  BY <1>1 DEF OutcomeSound, FreshRows, OthersKept
<1>4. CASE worker' = worker
  <2>1. \A v \in Workers : Holding(v)' = Holding(v)
    BY <1>4 DEF Holding
  <2>2. TypeOK'
    BY <1>1, <1>4, <2>1 DEF TypeOK
  <2>3. CopyNotAhead'
    BY <1>2, <1>4, <2>1 DEF CopyNotAhead, TypeOK, Worker
  <2>4. CopiesDistinct'
    BY <1>4, <2>1 DEF CopiesDistinct
  <2> QED BY <1>3, <2>2, <2>3, <2>4
<1>5. CASE worker' = [worker EXCEPT ![w] = [pc |-> "scanning", job |-> j,
                                            attempt |-> job[j].attempts + 1]]
  <2>1. /\ worker' \in [Workers -> Worker]
        /\ OnlyWorker(w) /\ worker'[w].pc = "scanning"
        /\ worker'[w].job = j /\ worker'[w].attempt = job[j].attempts + 1
    BY <1>5, ClaimerEffect
  <2>2. \A v \in Workers : v # w => Holding(v)' = Holding(v) /\ worker'[v] = worker[v]
    BY <2>1 DEF OnlyWorker, Holding
  <2>3. TypeOK'
    BY <1>1, <2>1, <2>2 DEF TypeOK
  <2>4. CopyNotAhead'
    BY <1>1, <1>2, <2>1, <2>2 DEF CopyNotAhead, TypeOK, Worker
  <2>5. \A v \in Workers : v # w /\ Holding(v) /\ worker[v].job = j
          => worker[v].attempt < job[j].attempts + 1
    BY <1>2 DEF CopyNotAhead, TypeOK, Worker
  <2>6. CopiesDistinct'
    <3>1. \A v \in Workers : v # w /\ Holding(v)' /\ worker'[v].job = j
            => worker'[v].attempt # worker'[w].attempt
      BY <1>2, <2>1, <2>2, <2>5 DEF TypeOK, Worker
    <3> QED BY <2>1, <2>2, <3>1 DEF CopiesDistinct
  <2> QED BY <1>3, <2>3, <2>4, <2>6
<1> QED BY <1>4, <1>5

LEMMA BaseStep == BaseInv /\ [Next]_vars => BaseInv'
<1> SUFFICES ASSUME BaseInv, [Next]_vars PROVE BaseInv'
  OBVIOUS
<1>0. /\ TypeOK /\ FreshRows /\ CopyNotAhead /\ CopiesDistinct /\ OutcomeSound /\ TableOK
      /\ job \in [JobIds -> Job]
  BY DEF BaseInv, TypeOK
<1>1. CASE Submit
  <2>1. PICK j \in JobIds : Enqueue(j)
    BY <1>1 DEF Submit
  <2>2. worker' = worker /\ faults' = faults
    BY <1>1 DEF Submit
  <2>3. /\ job' \in [JobIds -> Job] /\ OthersKept(j)
        /\ job[j].status = "absent" /\ job'[j].status = "queued" /\ job'[j].attempts = 0
    BY <1>0, <2>1, EnqueueEffect
  <2>4. \A w \in Workers : Holding(w)' = Holding(w)
    BY <2>2 DEF Holding
  <2>5. TypeOK'
    BY <1>0, <2>2, <2>3, <2>4 DEF TypeOK
  <2>6. \A w \in Workers : Holding(w) => worker[w].job # j
    BY <1>0, <2>3 DEF CopyNotAhead, FreshRows, NoJob, TypeOK, Worker
  <2>7. CopyNotAhead'
    BY <1>0, <2>2, <2>3, <2>4, <2>6 DEF CopyNotAhead, OthersKept, TypeOK
  <2> QED BY <1>0, <2>2, <2>3, <2>4, <2>5, <2>7
          DEF BaseInv, CopiesDistinct, OutcomeSound, FreshRows, OthersKept
<1>2. CASE Tick
  <2>1. TimePasses /\ worker' = worker /\ faults' = faults
    BY <1>2 DEF Tick
  <2>2. \A j \in JobIds : /\ job' \in [JobIds -> Job]
                         /\ job'[j].status = job[j].status
                         /\ job'[j].attempts = job[j].attempts
                         /\ job'[j].result = job[j].result /\ job'[j].error = job[j].error
    BY <1>0, <2>1, TickEffect
  <2>3. \A w \in Workers : Holding(w)' = Holding(w)
    BY <2>1 DEF Holding
  <2>4. job' \in [JobIds -> Job]
    BY <2>1, <2>2 DEF TimePasses
  <2>5. TypeOK'
    BY <1>0, <2>1, <2>3, <2>4 DEF TypeOK
  <2>6. FreshRows'
    BY <1>0, <2>1, <2>2, TickEffect DEF FreshRows, NoJob
  <2> QED BY <1>0, <2>1, <2>2, <2>3, <2>5, <2>6
          DEF BaseInv, TypeOK, CopyNotAhead, CopiesDistinct, OutcomeSound
<1>3. ASSUME NEW w \in Workers, Claim(w) PROVE BaseInv'
  <2>1. PICK j \in JobIds :
          /\ ClaimNext(j)
          /\ worker' = [worker EXCEPT ![w] = [pc |-> "scanning", job |-> j,
                                             attempt |-> job[j].attempts + 1]]
    BY <1>3 DEF Claim
  <2>2. worker[w].pc = "idle" /\ faults' \in Nat
    BY <1>0, <1>3 DEF Claim, TypeOK
  <2> QED BY <2>1, <2>2, ClaimKeeps
<1>4. ASSUME NEW w \in Workers, ClaimThrows(w) PROVE BaseInv'
  <2>1. PICK j \in JobIds : ClaimNext(j)
    BY <1>4 DEF ClaimThrows
  <2>2. worker[w].pc = "idle" /\ worker' = worker /\ faults' \in Nat
    BY <1>0, <1>4 DEF ClaimThrows, Fault, TypeOK
  <2> QED BY <2>1, <2>2, ClaimKeeps
<1>5. ASSUME NEW w \in Workers, ScanEnds(w) PROVE BaseInv'
  <2>1. PICK pc \in {"scanned", "caught"} : Go(w, pc)
    BY <1>5 DEF ScanEnds, ScanReturns, ScanThrows
  <2>2. Holding(w) /\ job' = job /\ faults' = faults
    BY <1>5 DEF ScanEnds, ScanReturns, ScanThrows, Holding
  <2>3. /\ worker' \in [Workers -> Worker] /\ OnlyWorker(w) /\ worker'[w].pc = pc
        /\ worker'[w].job = worker[w].job /\ worker'[w].attempt = worker[w].attempt
    BY <1>0, <2>1, GoEffect
  <2>4. TypeOK'
    BY <1>0, <2>2, <2>3 DEF TypeOK, OnlyWorker, Holding
  <2>5. CopyNotAhead' /\ CopiesDistinct'
    BY <2>2, <2>3, <2>4, HolderKeeps DEF Holding
  <2> QED BY <1>0, <2>2, <2>4, <2>5 DEF BaseInv, OutcomeSound, FreshRows
<1>6. ASSUME NEW w \in Workers, CompleteReturns(w) PROVE BaseInv'
  <2>1. Holding(w) /\ Rest(w) /\ faults' = faults
    BY <1>6 DEF CompleteReturns, Holding
  <2> DEFINE j == worker[w].job
  <2>2. j \in JobIds /\ worker[w].attempt \in Nat /\ worker[w].attempt > 0
    BY <1>0, <2>1, HolderTyped DEF CopyNotAhead
  <2> HIDE DEF j
  <2>3. Complete(j, worker[w].attempt)
    BY <1>6 DEF CompleteReturns, j
  <2>4. /\ job' \in [JobIds -> Job] /\ OthersKept(j)
        /\ job'[j].status = "succeeded" /\ job'[j].attempts = job[j].attempts
        /\ job'[j].result = worker[w].attempt /\ job'[j].error = 0
    BY <1>0, <2>2, <2>3, CompleteEffect
  <2>5. worker' \in [Workers -> Worker] /\ OnlyWorker(w) /\ worker'[w].pc = "idle"
    BY <1>0, <2>1, RestEffect
  <2>6. TypeOK' /\ ~Holding(w)'
    BY <1>0, <2>1, <2>4, <2>5 DEF TypeOK, OnlyWorker, Holding
  <2>7. CopyNotAhead' /\ CopiesDistinct'
    BY <2>4, <2>5, <2>6, ReleaseKeeps DEF OthersKept
  <2>8. OutcomeSound' /\ FreshRows'
    BY <1>0, <2>2, <2>4 DEF OutcomeSound, FreshRows, OthersKept
  <2> QED BY <2>6, <2>7, <2>8 DEF BaseInv
<1>7. ASSUME NEW w \in Workers, CompleteThrows(w) PROVE BaseInv'
  <2>1. Holding(w) /\ Go(w, "caught") /\ faults' \in Nat
    BY <1>0, <1>7 DEF CompleteThrows, Holding, Fault, TypeOK
  <2> DEFINE j == worker[w].job
  <2>2. j \in JobIds /\ worker[w].attempt \in Nat /\ worker[w].attempt > 0
    BY <1>0, <2>1, HolderTyped DEF CopyNotAhead
  <2> HIDE DEF j
  <2>3. job' = job \/ Complete(j, worker[w].attempt)
    BY <1>7 DEF CompleteThrows, j
  <2>4. /\ job' \in [JobIds -> Job] /\ OthersKept(j)
        /\ job'[j].attempts = job[j].attempts
        /\ \/ job' = job
           \/ /\ job'[j].status = "succeeded"
              /\ job'[j].result = worker[w].attempt /\ job'[j].error = 0
    BY <1>0, <2>2, <2>3, CompleteEffect DEF OthersKept
  <2>5. /\ worker' \in [Workers -> Worker] /\ OnlyWorker(w) /\ worker'[w].pc = "caught"
        /\ worker'[w].job = worker[w].job /\ worker'[w].attempt = worker[w].attempt
    BY <1>0, <2>1, GoEffect
  <2>6. TypeOK' /\ Holding(w)'
    BY <1>0, <2>1, <2>4, <2>5 DEF TypeOK, OnlyWorker, Holding
  <2>7. CopyNotAhead' /\ CopiesDistinct'
    BY <2>1, <2>4, <2>5, <2>6, HolderKeeps DEF OthersKept
  <2>8. OutcomeSound' /\ FreshRows'
    BY <1>0, <2>2, <2>4 DEF OutcomeSound, FreshRows, OthersKept
  <2> QED BY <2>6, <2>7, <2>8 DEF BaseInv
<1>8. ASSUME NEW w \in Workers, CatchRetries(w) PROVE BaseInv'
  <2>1. Holding(w) /\ Rest(w) /\ faults' = faults /\ worker[w].attempt < MaxAttempts
    BY <1>8 DEF CatchRetries, Holding
  <2> DEFINE j == worker[w].job
             d == nextRetryAt(worker[w].attempt)
  <2>2. j \in JobIds /\ worker[w].attempt \in Nat /\ worker[w].attempt >= 1
    BY <1>0, <2>1, HolderTyped DEF CopyNotAhead
  <2>3. d \in Nat
    BY <2>1, <2>2, DelayTyped
  <2>4. Retry(j, worker[w].attempt, d)
    BY <1>8 DEF CatchRetries
  <2> HIDE DEF j, d
  <2>5. /\ job' \in [JobIds -> Job] /\ OthersKept(j)
        /\ job'[j].status = "queued" /\ job'[j].attempts = job[j].attempts
    BY <1>0, <2>2, <2>3, <2>4, RetryEffect
  <2>6. worker' \in [Workers -> Worker] /\ OnlyWorker(w) /\ worker'[w].pc = "idle"
    BY <1>0, <2>1, RestEffect
  <2>7. TypeOK' /\ ~Holding(w)'
    BY <1>0, <2>1, <2>5, <2>6 DEF TypeOK, OnlyWorker, Holding
  <2>8. CopyNotAhead' /\ CopiesDistinct'
    BY <2>5, <2>6, <2>7, ReleaseKeeps DEF OthersKept
  <2>9. OutcomeSound' /\ FreshRows'
    BY <1>0, <2>2, <2>5 DEF OutcomeSound, FreshRows, OthersKept
  <2> QED BY <2>7, <2>8, <2>9 DEF BaseInv
<1>9. ASSUME NEW w \in Workers, CatchFails(w) PROVE BaseInv'
  <2>1. Holding(w) /\ Rest(w) /\ faults' = faults /\ worker[w].attempt >= MaxAttempts
    BY <1>9 DEF CatchFails, Holding
  <2> DEFINE j == worker[w].job
  <2>2. /\ j \in JobIds /\ worker[w].attempt \in Nat /\ worker[w].attempt >= 1
        /\ worker[w].attempt <= job[j].attempts
    BY <1>0, <2>1, HolderTyped DEF CopyNotAhead
  <2> HIDE DEF j
  <2>3. Fail(j, worker[w].attempt)
    BY <1>9 DEF CatchFails, j
  <2>4. /\ job' \in [JobIds -> Job] /\ OthersKept(j)
        /\ job'[j].status = "failed" /\ job'[j].attempts = job[j].attempts
        /\ job'[j].result = 0 /\ job'[j].error = worker[w].attempt
    BY <1>0, <2>2, <2>3, FailEffect
  <2>5. worker' \in [Workers -> Worker] /\ OnlyWorker(w) /\ worker'[w].pc = "idle"
    BY <1>0, <2>1, RestEffect
  <2>6. TypeOK' /\ ~Holding(w)'
    BY <1>0, <2>1, <2>4, <2>5 DEF TypeOK, OnlyWorker, Holding
  <2>7. CopyNotAhead' /\ CopiesDistinct'
    BY <2>4, <2>5, <2>6, ReleaseKeeps DEF OthersKept
  <2>8. job[j].attempts >= MaxAttempts
    BY <1>0, <2>1, <2>2, WorkerAssumption DEF TypeOK, Job
  <2>9. OutcomeSound' /\ FreshRows'
    BY <1>0, <2>2, <2>4, <2>8 DEF OutcomeSound, FreshRows, OthersKept
  <2> QED BY <2>6, <2>7, <2>9 DEF BaseInv
<1>10. ASSUME NEW w \in Workers, CatchThrows(w) \/ Crash(w) \/ Restart(w) PROVE BaseInv'
  <2>1. job' = job /\ faults' \in Nat
    BY <1>0, <1>10 DEF CatchThrows, Crash, Restart, Fault, TypeOK
  <2>2. /\ worker' \in [Workers -> Worker] /\ OnlyWorker(w)
        /\ worker'[w].pc \in {"idle", "down"}
    BY <1>0, <1>10, RestEffect, CrashEffect DEF CatchThrows, Crash, Restart
  <2>3. TypeOK' /\ ~Holding(w)'
    BY <1>0, <2>1, <2>2 DEF TypeOK, OnlyWorker, Holding
  <2>4. CopyNotAhead' /\ CopiesDistinct'
    BY <2>1, <2>2, <2>3, ReleaseKeeps
  <2> QED BY <1>0, <2>1, <2>3, <2>4 DEF BaseInv, OutcomeSound, FreshRows
<1>11. CASE UNCHANGED vars
  <2>1. job' = job /\ worker' = worker /\ faults' = faults
    BY <1>11 DEF vars
  <2> QED BY <1>0, <2>1 DEF BaseInv, TypeOK, CopyNotAhead, CopiesDistinct,
                           OutcomeSound, FreshRows, Holding
<1> QED BY <1>1, <1>2, <1>3, <1>4, <1>5, <1>6, <1>7, <1>8, <1>9, <1>10, <1>11
        DEF Next, WorkerStep, CallReturns

\* Every state is of the declared types, whatever the deployment.
THEOREM TypeCorrect == Spec => []TypeOK
<1>1. BaseInv => TypeOK
  BY DEF BaseInv
<1> QED BY <1>1, BaseInit, BaseStep, PTL DEF Spec

\* An attempt number names one claim of one job, however many workers share
\* the queue, and however their leases, crashes and lost answers fall.
THEOREM ClaimsAreDistinct == Spec => []ClaimsDistinct
<1>1. BaseInv => ClaimsDistinct
  <2> SUFFICES ASSUME BaseInv PROVE ClaimsDistinct
    OBVIOUS
  <2>1. \A w \in Workers : \A j \in JobIds :
          Holds(w, j) => worker[w].attempt \in 1..job[j].attempts
    BY DEF BaseInv, TypeOK, Worker, Job, CopyNotAhead, Holds
  <2> QED BY <2>1 DEF BaseInv, CopiesDistinct, ClaimsDistinct, Holds
<1> QED BY <1>1, BaseInit, BaseStep, PTL DEF Spec

\* In every deployment a job is given up only after MaxAttempts claims, and a
\* settled row is whole.
THEOREM OutcomesAreSound == Spec => []OutcomeSound
<1>1. BaseInv => OutcomeSound
  BY DEF BaseInv
<1> QED BY <1>1, BaseInit, BaseStep, PTL DEF Spec

-----------------------------------------------------------------------------
(* Deployments in which nobody else gets at a held job: one worker, or runs *)
(* that end within the lease; and in which complete throws only when it was *)
(* not applied.                                                            *)

SafeDeployment ==
  /\ "complete" \notin LostAcks
  /\ ~MayOverrun \/ \A v, w \in Workers : v = w

\* No held job can be claimed when runs end within the lease.
WithinLease ==
  ~MayOverrun => \A w \in Workers : Holding(w) => job[worker[w].job].age < Lease

SafeInv == BaseInv /\ HolderIsCurrent /\ WithinLease

LEMMA SafeParts ==
  ASSUME SafeInv
  PROVE  /\ TypeOK /\ FreshRows /\ CopyNotAhead /\ CopiesDistinct /\ OutcomeSound
         /\ HolderIsCurrent /\ WithinLease /\ TableOK /\ job \in [JobIds -> Job]
BY DEF SafeInv, BaseInv, TypeOK

\* Two holders of one job would carry its latest attempt both.
LEMMA HoldersDiffer ==
  ASSUME SafeInv, NEW v \in Workers, NEW w \in Workers, Holding(v), Holding(w), v # w
  PROVE  worker[v].job # worker[w].job
BY SafeParts DEF CopiesDistinct, HolderIsCurrent

\* A job that an idle worker may claim is in nobody's hands.
LEMMA ClaimedIsFree ==
  ASSUME SafeInv, SafeDeployment, NEW w \in Workers, worker[w].pc = "idle",
         NEW j \in JobIds, ClaimNext(j), NEW v \in Workers, Holding(v)
  PROVE  worker[v].job # j
<1>1. CASE MayOverrun
  BY <1>1 DEF SafeDeployment, Holding
<1>2. CASE ~MayOverrun
  <2>1. \/ job[j].status = "queued"
        \/ job[j].age >= Lease
    BY SafeParts, ClaimEffect
  <2>2. job[j].age \in Nat
    BY SafeParts, QueueAssumption DEF Job
  <2> QED BY <1>2, <2>1, <2>2, SafeParts, QueueAssumption DEF HolderIsCurrent, WithinLease
<1> QED BY <1>1, <1>2

\* What one step does to the row of j.
Inserts(j) ==
  /\ job[j] = NoJob
  /\ job'[j].status = "queued" /\ job'[j].attempts = 0 /\ job'[j].wait = 0
  /\ job'[j].result = 0 /\ job'[j].error = 0

Takes(j) ==
  /\ \/ job[j].status = "queued" /\ job[j].wait = 0
     \/ job[j].status = "running"
  /\ job'[j].status = "running" /\ job'[j].attempts = job[j].attempts + 1
  /\ job'[j].wait = job[j].wait
  /\ job'[j].result = job[j].result /\ job'[j].error = job[j].error

\* A holder ends the attempt it holds.
Ends(j) ==
  /\ job[j].status = "running" /\ job[j].attempts > 0
  /\ job'[j].attempts = job[j].attempts

Succeeds(j) ==
  /\ Ends(j) /\ job'[j].status = "succeeded" /\ job'[j].wait = job[j].wait
  /\ job'[j].result = job[j].attempts /\ job'[j].error = 0

Requeues(j) ==
  /\ Ends(j) /\ job'[j].status = "queued" /\ job[j].attempts < MaxAttempts
  /\ job'[j].result = job[j].result /\ job'[j].error = job[j].attempts

GivesUp(j) ==
  /\ Ends(j) /\ job'[j].status = "failed" /\ job'[j].wait = job[j].wait
  /\ job[j].attempts >= MaxAttempts
  /\ job'[j].result = 0 /\ job'[j].error = job[j].attempts

\* Only a timer of the row moves.
Waits(j) ==
  /\ job'[j].status = job[j].status /\ job'[j].attempts = job[j].attempts
  /\ job'[j].result = job[j].result /\ job'[j].error = job[j].error
  /\ job[j].wait = 0 => job'[j].wait = 0
  /\ job[j].wait = 0 /\ job[j].status # "running" => job'[j] = job[j]

StepShape ==
  \/ \A j \in JobIds : Waits(j)
  \/ \E j \in JobIds :
       /\ OthersKept(j)
       /\ Inserts(j) \/ Takes(j) \/ Succeeds(j) \/ Requeues(j) \/ GivesUp(j)

\* When a worker holds what is current, what it writes ends that attempt.
LEMMA HolderEnds ==
  ASSUME SafeInv, NEW w \in Workers, CallReturns(w)
  PROVE  /\ Holding(w) /\ worker[w].job \in JobIds /\ OthersKept(worker[w].job)
         /\ OnlyWorker(w) /\ ~Holding(w)' /\ faults' = faults
         /\ \/ Succeeds(worker[w].job)
            \/ Requeues(worker[w].job)
            \/ GivesUp(worker[w].job)
<1> DEFINE j == worker[w].job
           n == worker[w].attempt
           d == nextRetryAt(n)
<1>1. Holding(w) /\ Rest(w) /\ faults' = faults
  BY DEF CallReturns, CompleteReturns, CatchRetries, CatchFails, Holding
<1>2. /\ j \in JobIds /\ n \in Nat /\ n >= 1
      /\ job[j].status = "running" /\ job[j].attempts = n
  BY <1>1, SafeParts, HolderTyped DEF CopyNotAhead, HolderIsCurrent
<1>3. OnlyWorker(w) /\ ~Holding(w)'
  BY <1>1, SafeParts, RestEffect DEF Holding
<1>4. \/ Complete(j, n)
      \/ Retry(j, n, d) /\ n < MaxAttempts
      \/ Fail(j, n) /\ n >= MaxAttempts
  BY DEF CallReturns, CompleteReturns, CatchRetries, CatchFails
<1>5. n < MaxAttempts => d \in Nat
  BY <1>2, DelayTyped
<1> HIDE DEF j, n, d
<1>6. OthersKept(j) /\ (Succeeds(j) \/ Requeues(j) \/ GivesUp(j))
  <2>1. CASE Complete(j, n)
    BY <1>2, <2>1, SafeParts, CompleteEffect DEF Succeeds, Ends
  <2>2. CASE Retry(j, n, d) /\ n < MaxAttempts
    BY <1>2, <1>5, <2>2, SafeParts, RetryEffect DEF Requeues, Ends
  <2>3. CASE Fail(j, n) /\ n >= MaxAttempts
    BY <1>2, <2>3, SafeParts, FailEffect DEF GivesUp, Ends
  <2> QED BY <1>4, <2>1, <2>2, <2>3
<1> QED BY <1>1, <1>2, <1>3, <1>6 DEF j

LEMMA ShapeOfStep ==
  ASSUME SafeInv, SafeDeployment, [Next]_vars
  PROVE  StepShape
<1>1. CASE Submit
  <2>1. PICK j \in JobIds : Enqueue(j)
    BY <1>1 DEF Submit
  <2>2. OthersKept(j) /\ Inserts(j)
    BY <2>1, SafeParts, EnqueueEffect DEF Inserts, FreshRows
  <2> QED BY <2>2 DEF StepShape
<1>2. CASE Tick
  <2>1. \A j \in JobIds : Waits(j)
    BY <1>2, SafeParts, TickEffect DEF Tick, Waits
  <2> QED BY <2>1 DEF StepShape
<1>3. ASSUME NEW w \in Workers, Claim(w) \/ ClaimThrows(w) PROVE StepShape
  <2>1. PICK j \in JobIds : ClaimNext(j)
    BY <1>3 DEF Claim, ClaimThrows
  <2>2. OthersKept(j) /\ Takes(j)
    BY <2>1, SafeParts, ClaimEffect DEF Takes
  <2> QED BY <2>2 DEF StepShape
<1>4. ASSUME NEW w \in Workers, CallReturns(w) PROVE StepShape
  BY <1>4, HolderEnds DEF StepShape
<1>5. ASSUME job' = job PROVE StepShape
  BY <1>5 DEF StepShape, Waits
<1>6. ASSUME NEW w \in Workers,
             ScanEnds(w) \/ CompleteThrows(w) \/ CatchThrows(w) \/ Crash(w) \/ Restart(w)
      PROVE  StepShape
  BY <1>5, <1>6 DEF ScanEnds, ScanReturns, ScanThrows, CompleteThrows, CatchThrows,
                    Crash, Restart, SafeDeployment
<1>7. CASE UNCHANGED vars
  BY <1>5, <1>7 DEF vars
<1> QED BY <1>1, <1>2, <1>3, <1>4, <1>6, <1>7 DEF Next, WorkerStep

LEMMA SafeInit == Init => SafeInv
<1> SUFFICES ASSUME Init PROVE SafeInv
  OBVIOUS
<1>1. \A w \in Workers : ~Holding(w)
  BY DEF Init, Idle, Holding
<1> QED BY <1>1, BaseInit DEF SafeInv, HolderIsCurrent, WithinLease

\* A step that leaves the jobs of the remaining holders alone keeps them current.
LEMMA HoldersStayCurrent ==
  ASSUME SafeInv,
         \A v \in Workers : Holding(v)' =>
           /\ Holding(v) /\ worker'[v].job = worker[v].job
           /\ worker'[v].attempt = worker[v].attempt
           /\ job'[worker[v].job] = job[worker[v].job]
  PROVE  HolderIsCurrent' /\ WithinLease'
BY SafeParts DEF HolderIsCurrent, WithinLease

LEMMA SafeStep == SafeDeployment /\ SafeInv /\ [Next]_vars => SafeInv'
<1> SUFFICES ASSUME SafeDeployment, SafeInv, [Next]_vars
             PROVE  HolderIsCurrent' /\ WithinLease'
  BY BaseStep DEF SafeInv
<1>0. /\ TypeOK /\ FreshRows /\ CopyNotAhead /\ HolderIsCurrent /\ WithinLease
      /\ TableOK /\ job \in [JobIds -> Job]
      /\ \A v \in Workers : Holding(v) => worker[v].job \in JobIds
  BY SafeParts DEF TypeOK
<1>1. CASE Submit
  <2>1. PICK j \in JobIds : Enqueue(j)
    BY <1>1 DEF Submit
  <2>2. worker' = worker /\ OthersKept(j) /\ job[j].status = "absent"
    BY <1>0, <1>1, <2>1, EnqueueEffect DEF Submit
  <2>3. \A v \in Workers : Holding(v) => worker[v].job # j
    BY <1>0, <2>2 DEF HolderIsCurrent
  <2> QED BY <1>0, <2>2, <2>3, HoldersStayCurrent DEF OthersKept, Holding
<1>2. CASE Tick
  <2>1. TimePasses /\ worker' = worker
    BY <1>2 DEF Tick
  <2>2. \A v \in Workers : Holding(v) =>
          LET j == worker[v].job IN
            /\ job'[j].status = job[j].status /\ job'[j].attempts = job[j].attempts
            /\ job'[j].age <= job[j].age + 1
            /\ job[j].age \in Nat /\ job'[j].age \in Nat
    BY <1>0, <2>1, TickEffect, QueueAssumption DEF Job
  <2>3. HolderIsCurrent'
    BY <1>0, <2>1, <2>2 DEF HolderIsCurrent, Holding
  <2>4. WithinLease'
    <3> SUFFICES ASSUME ~MayOverrun, NEW v \in Workers, Holding(v)'
                 PROVE  job'[worker'[v].job].age < Lease
      BY DEF WithinLease
    <3>1. Holding(v) /\ worker'[v].job = worker[v].job
      BY <2>1 DEF Holding
    <3>2. job[worker[v].job].age + 1 < Lease
      BY <1>2, <3>1 DEF Tick
    <3> QED BY <2>2, <3>1, <3>2, QueueAssumption
  <2> QED BY <2>3, <2>4
<1>3. ASSUME NEW w \in Workers, Claim(w) PROVE HolderIsCurrent' /\ WithinLease'
  <2>1. PICK j \in JobIds :
          /\ ClaimNext(j)
          /\ worker' = [worker EXCEPT ![w] = [pc |-> "scanning", job |-> j,
                                             attempt |-> job[j].attempts + 1]]
    BY <1>3 DEF Claim
  <2>2. /\ OthersKept(j) /\ job'[j].status = "running"
        /\ job'[j].attempts = job[j].attempts + 1 /\ job'[j].age = 0
    BY <1>0, <2>1, ClaimEffect
  <2>3. /\ OnlyWorker(w) /\ worker'[w].job = j
        /\ worker'[w].attempt = job[j].attempts + 1
    BY <1>0, <2>1, ClaimerEffect
  <2>4. \A v \in Workers : v # w /\ Holding(v)' =>
          Holding(v) /\ worker'[v] = worker[v] /\ job'[worker[v].job] = job[worker[v].job]
    <3>1. \A v \in Workers : Holding(v) => worker[v].job # j
      BY <1>3, <2>1, ClaimedIsFree DEF Claim
    <3> QED BY <1>0, <2>2, <2>3, <3>1 DEF OnlyWorker, OthersKept, Holding
  <2> QED BY <1>0, <2>2, <2>3, <2>4, QueueAssumption DEF HolderIsCurrent, WithinLease
<1>4. ASSUME NEW w \in Workers, ClaimThrows(w) PROVE HolderIsCurrent' /\ WithinLease'
  <2>1. PICK j \in JobIds : ClaimNext(j)
    BY <1>4 DEF ClaimThrows
  <2>2. OthersKept(j) /\ worker' = worker
    BY <1>0, <1>4, <2>1, ClaimEffect DEF ClaimThrows
  <2>3. \A v \in Workers : Holding(v) => worker[v].job # j
    BY <1>4, <2>1, ClaimedIsFree DEF ClaimThrows
  <2> QED BY <1>0, <2>2, <2>3, HoldersStayCurrent DEF OthersKept, Holding
<1>5. ASSUME NEW w \in Workers, CallReturns(w) PROVE HolderIsCurrent' /\ WithinLease'
  <2>1. Holding(w) /\ OthersKept(worker[w].job) /\ OnlyWorker(w) /\ ~Holding(w)'
    BY <1>5, HolderEnds
  <2>2. \A v \in Workers : Holding(v)' =>
          v # w /\ Holding(v) /\ worker'[v] = worker[v] /\ worker[v].job # worker[w].job
    BY <2>1, HoldersDiffer DEF OnlyWorker, Holding
  <2> QED BY <1>0, <2>1, <2>2, HoldersStayCurrent DEF OthersKept
<1>6. ASSUME NEW w \in Workers, ScanEnds(w) \/ CompleteThrows(w)
      PROVE  HolderIsCurrent' /\ WithinLease'
  <2>1. PICK pc \in {"scanned", "caught"} : Go(w, pc)
    BY <1>6 DEF ScanEnds, ScanReturns, ScanThrows, CompleteThrows
  <2>2. job' = job /\ Holding(w)
    BY <1>6 DEF ScanEnds, ScanReturns, ScanThrows, CompleteThrows, SafeDeployment, Holding
  <2>3. /\ OnlyWorker(w)
        /\ worker'[w].job = worker[w].job /\ worker'[w].attempt = worker[w].attempt
    BY <1>0, <2>1, GoEffect
  <2> QED BY <2>2, <2>3, HoldersStayCurrent DEF OnlyWorker, Holding
<1>7. ASSUME NEW w \in Workers, CatchThrows(w) \/ Crash(w) \/ Restart(w)
      PROVE  HolderIsCurrent' /\ WithinLease'
  <2>1. job' = job
    BY <1>7 DEF CatchThrows, Crash, Restart
  <2>2. OnlyWorker(w) /\ ~Holding(w)'
    BY <1>0, <1>7, RestEffect, CrashEffect DEF CatchThrows, Crash, Restart, Holding
  <2> QED BY <2>1, <2>2, HoldersStayCurrent DEF OnlyWorker, Holding
<1>8. CASE UNCHANGED vars
  BY <1>8, HoldersStayCurrent DEF vars, Holding
<1> QED BY <1>1, <1>2, <1>3, <1>4, <1>5, <1>6, <1>7, <1>8 DEF Next, WorkerStep

\* With one worker, or runs that end within the lease, who holds a job holds
\* its latest claim, and nobody settled or requeued it meanwhile.
THEOREM HoldersAreCurrent ==
  ASSUME SafeDeployment
  PROVE  Spec => []HolderIsCurrent
<1>1. SafeInv => HolderIsCurrent
  BY DEF SafeInv
<1>2. SafeInv /\ [Next]_vars => SafeInv'
  BY SafeStep
<1> QED BY <1>1, <1>2, SafeInit, PTL DEF Spec

\* Then no job is run by two workers at once.
THEOREM NoDuplicateRuns ==
  ASSUME SafeDeployment
  PROVE  Spec => []NoDuplicateRun
<1>1. SafeInv => NoDuplicateRun
  BY HoldersDiffer DEF NoDuplicateRun, Holds
<1>2. SafeInv /\ [Next]_vars => SafeInv'
  BY SafeStep
<1> QED BY <1>1, <1>2, SafeInit, PTL DEF Spec

-----------------------------------------------------------------------------
(* The rows in those deployments.                                          *)

\* Only a queued row waits for its backoff.
OnlyQueuedWaits == \A j \in JobIds : job[j].status # "queued" => job[j].wait = 0

RowInv == SafeInv /\ OnlyQueuedWaits /\ RowTellsLastAttempt

LEMMA RowInit == Init => RowInv
<1> SUFFICES ASSUME Init PROVE RowInv
  OBVIOUS
<1>1. \A j \in JobIds : job[j] = NoJob
  BY DEF Init, QueueInit
<1>2. OnlyQueuedWaits /\ RowTellsLastAttempt
  BY <1>1 DEF OnlyQueuedWaits, RowTellsLastAttempt, NoJob
<1> QED BY <1>2, SafeInit DEF RowInv

LEMMA RowStep == SafeDeployment /\ RowInv /\ [Next]_vars => RowInv'
<1> SUFFICES ASSUME SafeDeployment, RowInv, [Next]_vars
             PROVE  OnlyQueuedWaits' /\ RowTellsLastAttempt'
  BY SafeStep DEF RowInv
<1>0. /\ SafeInv /\ OnlyQueuedWaits /\ RowTellsLastAttempt /\ job \in [JobIds -> Job]
  BY SafeParts DEF RowInv
<1>1. \A j \in JobIds : /\ job[j].attempts \in Nat /\ job[j].error \in Nat
                       /\ job[j].status \in Statuses
  BY <1>0 DEF Job
<1>2. CASE \A j \in JobIds : Waits(j)
  BY <1>0, <1>2 DEF Waits, OnlyQueuedWaits, RowTellsLastAttempt
<1>3. ASSUME NEW j \in JobIds, OthersKept(j),
             Inserts(j) \/ Takes(j) \/ Succeeds(j) \/ Requeues(j) \/ GivesUp(j)
      PROVE  OnlyQueuedWaits' /\ RowTellsLastAttempt'
  <2> DEFINE Told(r) == /\ r.status # "queued" => r.wait = 0
                        /\ r.status = "succeeded" => r.result = r.attempts
                        /\ r.status \in {"queued", "failed"} =>
                             r.error = r.attempts /\ r.result = 0
                        /\ r.status = "running" => r.error < r.attempts /\ r.result = 0
  <2>1. \A i \in JobIds : Told(job[i])
    BY <1>0 DEF OnlyQueuedWaits, RowTellsLastAttempt
  <2>2. Told(job'[j])
    <3>1. CASE Inserts(j)
      BY <3>1 DEF Inserts
    <3>2. CASE Takes(j)
      BY <1>1, <2>1, <3>2 DEF Takes
    <3>3. CASE Succeeds(j)
      BY <2>1, <3>3 DEF Succeeds, Ends
    <3>4. CASE Requeues(j)
      BY <2>1, <3>4 DEF Requeues, Ends
    <3>5. CASE GivesUp(j)
      BY <2>1, <3>5 DEF GivesUp, Ends
    <3> QED BY <1>3, <3>1, <3>2, <3>3, <3>4, <3>5
  <2>3. \A i \in JobIds : Told(job'[i])
    BY <1>3, <2>1, <2>2 DEF OthersKept
  <2> QED BY <2>3 DEF OnlyQueuedWaits, RowTellsLastAttempt
<1> QED BY <1>0, <1>2, <1>3, ShapeOfStep DEF StepShape

\* What a client reads in a row is the outcome of the job's last attempt.
THEOREM RowsTellLastAttempt ==
  ASSUME SafeDeployment
  PROVE  Spec => []RowTellsLastAttempt
<1>1. RowInv => RowTellsLastAttempt
  BY DEF RowInv
<1>2. RowInv /\ [Next]_vars => RowInv'
  BY RowStep
<1> QED BY <1>1, <1>2, RowInit, PTL DEF Spec

\* A settled job stays exactly as it was settled.
THEOREM SettledJobsStay ==
  ASSUME SafeDeployment
  PROVE  Spec => SettledIsFinal
<1>1. RowInv /\ [Next]_vars => (\A j \in JobIds : Terminal(j) => job'[j] = job[j])
  <2> SUFFICES ASSUME RowInv, [Next]_vars, NEW j \in JobIds, Terminal(j)
               PROVE  job'[j] = job[j]
    OBVIOUS
  <2>1. job[j].status \in {"succeeded", "failed"} /\ job[j].wait = 0
    BY DEF Terminal, RowInv, OnlyQueuedWaits
  <2>2. StepShape
    BY ShapeOfStep DEF RowInv
  <2>3. CASE \A i \in JobIds : Waits(i)
    BY <2>1, <2>3 DEF Waits
  <2>4. ASSUME NEW i \in JobIds, OthersKept(i),
               Inserts(i) \/ Takes(i) \/ Succeeds(i) \/ Requeues(i) \/ GivesUp(i)
        PROVE  job'[j] = job[j]
    BY <2>1, <2>4 DEF OthersKept, Inserts, NoJob, Takes, Succeeds, Requeues, GivesUp, Ends
  <2> QED BY <2>2, <2>3, <2>4 DEF StepShape
<1>2. RowInv /\ [Next]_vars => RowInv'
  BY RowStep
<1> QED BY <1>1, <1>2, RowInit, PTL DEF Spec, SettledIsFinal

\* The refinement mapping of ImplementsLifecycle.
PhaseOf(r) == IF r.status \in {"queued", "running"} THEN "pending" ELSE r.status

Phase == [j \in JobIds |-> PhaseOf(job[j])]

Tries == [j \in JobIds |-> job[j].attempts]

\* Where a step changes only the row of j, so does the step it maps to.
LEMMA MappedRow ==
  ASSUME NEW j \in JobIds, OthersKept(j)
  PROVE  /\ Phase' = [Phase EXCEPT ![j] = PhaseOf(job'[j])]
         /\ Tries' = [Tries EXCEPT ![j] = job'[j].attempts]
BY DEF OthersKept, Phase, Tries

\* In those deployments the queue and its workers implement the life of a job
\* the client counts on: settled once, never reopened, given up only after
\* MaxAttempts tries.
THEOREM LifecycleImplemented ==
  ASSUME SafeDeployment
  PROVE  Spec => ImplementsLifecycle
<1> DEFINE AbsInit == /\ Phase = [j \in JobIds |-> "absent"]
                      /\ Tries = [j \in JobIds |-> 0]
           AbsSubmit(j) == /\ Phase[j] = "absent"
                           /\ Phase' = [Phase EXCEPT ![j] = "pending"]
                           /\ UNCHANGED Tries
           AbsTry(j) == /\ Phase[j] = "pending"
                        /\ Tries' = [Tries EXCEPT ![j] = Tries[j] + 1]
                        /\ UNCHANGED Phase
           AbsSucceed(j) == /\ Phase[j] = "pending" /\ Tries[j] > 0
                            /\ Phase' = [Phase EXCEPT ![j] = "succeeded"]
                            /\ UNCHANGED Tries
           AbsGiveUp(j) == /\ Phase[j] = "pending" /\ Tries[j] >= MaxAttempts
                           /\ Phase' = [Phase EXCEPT ![j] = "failed"]
                           /\ UNCHANGED Tries
           AbsNext == \E j \in JobIds :
                        AbsSubmit(j) \/ AbsTry(j) \/ AbsSucceed(j) \/ AbsGiveUp(j)
<1>1. Init => AbsInit
  <2> SUFFICES ASSUME Init PROVE AbsInit
    OBVIOUS
  <2>1. \A j \in JobIds : job[j].status = "absent" /\ job[j].attempts = 0
    BY DEF Init, QueueInit, NoJob
  <2> QED BY <2>1 DEF Phase, PhaseOf, Tries
<1>2. RowInv /\ [Next]_vars => AbsNext \/ UNCHANGED <<Phase, Tries>>
  <2> SUFFICES ASSUME RowInv, [Next]_vars
               PROVE  AbsNext \/ UNCHANGED <<Phase, Tries>>
    OBVIOUS
  <2>1. StepShape
    BY ShapeOfStep DEF RowInv
  <2>2. CASE \A j \in JobIds : Waits(j)
    BY <2>2 DEF Waits, Phase, PhaseOf, Tries
  <2>3. ASSUME NEW j \in JobIds, OthersKept(j),
               Inserts(j) \/ Takes(j) \/ Succeeds(j) \/ Requeues(j) \/ GivesUp(j)
        PROVE  AbsNext \/ UNCHANGED <<Phase, Tries>>
    <3>1. /\ Phase' = [Phase EXCEPT ![j] = PhaseOf(job'[j])]
          /\ Tries' = [Tries EXCEPT ![j] = job'[j].attempts]
      BY <2>3, MappedRow
    <3>2. Phase[j] = PhaseOf(job[j]) /\ Tries[j] = job[j].attempts
      BY DEF Phase, Tries
    <3>3. /\ Tries \in [JobIds -> Nat] /\ Phase = [i \in JobIds |-> Phase[i]]
          /\ Tries = [i \in JobIds |-> Tries[i]]
      BY SafeParts DEF RowInv, Tries, Phase, Job
    <3>4. CASE Inserts(j)
      <4>1. AbsSubmit(j)
        BY <3>1, <3>2, <3>3, <3>4 DEF Inserts, NoJob, PhaseOf
      <4> QED BY <4>1
    <3>5. CASE Takes(j)
      <4>1. AbsTry(j)
        BY <3>1, <3>2, <3>3, <3>5 DEF Takes, PhaseOf
      <4> QED BY <4>1
    <3>6. CASE Succeeds(j)
      <4>1. AbsSucceed(j)
        BY <3>1, <3>2, <3>3, <3>6 DEF Succeeds, Ends, PhaseOf
      <4> QED BY <4>1
    <3>7. CASE Requeues(j)
      BY <3>1, <3>2, <3>3, <3>7 DEF Requeues, Ends, PhaseOf
    <3>8. CASE GivesUp(j)
      <4>1. AbsGiveUp(j)
        BY <3>1, <3>2, <3>3, <3>8 DEF GivesUp, Ends, PhaseOf
      <4> QED BY <4>1
    <3> QED BY <2>3, <3>4, <3>5, <3>6, <3>7, <3>8
  <2> QED BY <2>1, <2>2, <2>3 DEF StepShape
<1>3. RowInv /\ [Next]_vars => RowInv'
  BY RowStep
<1>4. AbsInit => Lifecycle!Init
  BY DEF Lifecycle!Init, Phase, PhaseOf, Tries
<1>5. AbsNext \/ UNCHANGED <<Phase, Tries>> => [Lifecycle!Next]_(Lifecycle!vars)
  BY DEF Lifecycle!Next, Lifecycle!Submit, Lifecycle!Try, Lifecycle!Succeed,
         Lifecycle!GiveUp, Lifecycle!vars, Phase, PhaseOf, Tries
<1> QED BY <1>1, <1>2, <1>3, <1>4, <1>5, RowInit, PTL
        DEF Spec, ImplementsLifecycle, Lifecycle!Spec

-----------------------------------------------------------------------------
(* Tries beyond MaxAttempts are paid for by faults.                        *)

Held(j) == \E w \in Workers : Holding(w) /\ worker[w].job = j

\* A job in the queue has a try left; a running job nobody holds was left by
\* a fault that its attempts have not used up yet.
AttemptBudget ==
  \A j \in JobIds :
    /\ job[j].attempts <= MaxAttempts + faults
    /\ job[j].status = "queued" => job[j].attempts < MaxAttempts
    /\ job[j].status = "running" /\ ~Held(j) => job[j].attempts < MaxAttempts + faults

BudgetInv == SafeInv /\ AttemptBudget

LEMMA BudgetInit == Init => BudgetInv
<1> SUFFICES ASSUME Init PROVE BudgetInv
  OBVIOUS
<1>1. /\ \A j \in JobIds : job[j].attempts = 0 /\ job[j].status = "absent"
      /\ faults = 0
  BY DEF Init, QueueInit, NoJob
<1>2. AttemptBudget
  BY <1>1, WorkerAssumption DEF AttemptBudget
<1> QED BY <1>2, SafeInit DEF BudgetInv

LEMMA BudgetStep == SafeDeployment /\ BudgetInv /\ [Next]_vars => BudgetInv'
<1> SUFFICES ASSUME SafeDeployment, BudgetInv, [Next]_vars PROVE AttemptBudget'
  BY SafeStep DEF BudgetInv
<1>0. /\ SafeInv /\ TypeOK /\ FreshRows /\ AttemptBudget /\ HolderIsCurrent
      /\ TableOK /\ job \in [JobIds -> Job]
  BY SafeParts DEF BudgetInv
<1>1. /\ MaxAttempts \in Nat \ {0} /\ faults \in Nat
      /\ \A j \in JobIds : job[j].attempts \in Nat
  BY <1>0, WorkerAssumption DEF TypeOK, Job
<1>2. CASE Submit
  <2>1. PICK j \in JobIds : Enqueue(j)
    BY <1>2 DEF Submit
  <2>2. OthersKept(j) /\ job'[j].status = "queued" /\ job'[j].attempts = 0
    BY <1>0, <2>1, EnqueueEffect
  <2>3. faults' = faults /\ \A i \in JobIds : Held(i)' = Held(i)
    BY <1>2 DEF Submit, Held, Holding
  <2> QED BY <1>0, <1>1, <2>2, <2>3 DEF AttemptBudget, OthersKept
<1>3. CASE Tick
  <2>1. \A j \in JobIds : job'[j].status = job[j].status /\ job'[j].attempts = job[j].attempts
    BY <1>0, <1>3, TickEffect DEF Tick
  <2>2. faults' = faults /\ \A i \in JobIds : Held(i)' = Held(i)
    BY <1>3 DEF Tick, Held, Holding
  <2> QED BY <1>0, <2>1, <2>2 DEF AttemptBudget
<1>4. ASSUME NEW w \in Workers, Claim(w) \/ ClaimThrows(w) PROVE AttemptBudget'
  <2>1. PICK j \in JobIds :
          /\ ClaimNext(j)
          /\ \/ faults' = faults + 1 /\ worker' = worker
             \/ /\ faults' = faults
                /\ worker' = [worker EXCEPT ![w] = [pc |-> "scanning", job |-> j,
                                                   attempt |-> job[j].attempts + 1]]
    BY <1>4 DEF Claim, ClaimThrows, Fault
  <2>2. /\ OthersKept(j) /\ job'[j].attempts = job[j].attempts + 1
        /\ job[j].status \in {"queued", "running"} /\ job'[j].status = "running"
    BY <1>0, <2>1, ClaimEffect
  <2>3. ~Held(j) /\ worker[w].pc = "idle"
    BY <1>0, <1>4, <2>1, ClaimedIsFree DEF Held, Claim, ClaimThrows
  <2>4. job'[j].attempts <= MaxAttempts + faults
    BY <1>0, <1>1, <2>2, <2>3 DEF AttemptBudget
  <2>5. CASE faults' = faults + 1 /\ worker' = worker
    <3>1. \A i \in JobIds : Held(i)' = Held(i)
      BY <2>5 DEF Held, Holding
    <3> QED BY <1>0, <1>1, <2>2, <2>4, <2>5, <3>1 DEF AttemptBudget, OthersKept
  <2>6. CASE /\ faults' = faults
             /\ worker' = [worker EXCEPT ![w] = [pc |-> "scanning", job |-> j,
                                                attempt |-> job[j].attempts + 1]]
    <3>1. OnlyWorker(w) /\ worker'[w].pc = "scanning" /\ worker'[w].job = j
      BY <1>0, <2>6, ClaimerEffect
    <3>2. Held(j)'
      BY <3>1 DEF Held, Holding
    <3>3. \A i \in JobIds : Held(i) => Held(i)'
      BY <2>3, <3>1 DEF Held, Holding, OnlyWorker
    <3> QED BY <1>0, <1>1, <2>2, <2>4, <2>6, <3>2, <3>3 DEF AttemptBudget, OthersKept
  <2> QED BY <2>1, <2>5, <2>6
<1>5. ASSUME NEW w \in Workers, CallReturns(w) PROVE AttemptBudget'
  <2> DEFINE j == worker[w].job
  <2>1. /\ j \in JobIds /\ OthersKept(j) /\ OnlyWorker(w) /\ faults' = faults
        /\ ~Holding(w)'
        /\ Succeeds(j) \/ Requeues(j) \/ GivesUp(j)
    BY <1>0, <1>5, HolderEnds
  <2> HIDE DEF j
  <2>2. \A i \in JobIds : i # j /\ Held(i) => Held(i)'
    BY <2>1 DEF Held, Holding, OnlyWorker, j
  <2>3. /\ job'[j].attempts = job[j].attempts /\ job'[j].status # "running"
        /\ job'[j].status = "queued" => job[j].attempts < MaxAttempts
    BY <2>1 DEF Succeeds, Requeues, GivesUp, Ends
  <2> QED BY <1>0, <1>1, <2>1, <2>2, <2>3 DEF AttemptBudget, OthersKept
<1>6. ASSUME NEW w \in Workers, ScanEnds(w) \/ CompleteThrows(w) PROVE AttemptBudget'
  <2>1. PICK pc \in {"scanned", "caught"} : Go(w, pc)
    BY <1>6 DEF ScanEnds, ScanReturns, ScanThrows, CompleteThrows
  <2>2. job' = job /\ Holding(w) /\ faults' \in {faults, faults + 1}
    BY <1>6 DEF ScanEnds, ScanReturns, ScanThrows, CompleteThrows, SafeDeployment,
                Holding, Fault
  <2>3. OnlyWorker(w) /\ worker'[w].pc = pc /\ worker'[w].job = worker[w].job
    BY <1>0, <2>1, GoEffect
  <2>4. \A i \in JobIds : Held(i) => Held(i)'
    BY <2>2, <2>3 DEF Held, Holding, OnlyWorker
  <2> QED BY <1>0, <1>1, <2>2, <2>4 DEF AttemptBudget
<1>7. ASSUME NEW w \in Workers, CatchThrows(w) \/ Crash(w) PROVE AttemptBudget'
  <2>1. job' = job /\ faults' = faults + 1
    BY <1>7 DEF CatchThrows, Crash, Fault
  <2> QED BY <1>0, <1>1, <2>1 DEF AttemptBudget
<1>8. ASSUME NEW w \in Workers, Restart(w) PROVE AttemptBudget'
  <2>1. job' = job /\ faults' = faults /\ OnlyWorker(w) /\ ~Holding(w)
    BY <1>0, <1>8, RestEffect DEF Restart, Holding
  <2>2. \A i \in JobIds : Held(i) => Held(i)'
    BY <2>1 DEF Held, Holding, OnlyWorker
  <2> QED BY <1>0, <2>1, <2>2 DEF AttemptBudget
<1>9. CASE UNCHANGED vars
  BY <1>0, <1>9 DEF vars, AttemptBudget, Held, Holding
<1> QED BY <1>2, <1>3, <1>4, <1>5, <1>6, <1>7, <1>8, <1>9 DEF Next, WorkerStep

\* Each try of a job beyond MaxAttempts took a crash or a throwing call.
THEOREM AttemptsAreBounded ==
  ASSUME SafeDeployment
  PROVE  Spec => []AttemptsBounded
<1>1. BudgetInv => AttemptsBounded
  BY DEF BudgetInv, AttemptBudget, AttemptsBounded
<1>2. BudgetInv /\ [Next]_vars => BudgetInv'
  BY BudgetStep
<1> QED BY <1>1, <1>2, BudgetInit, PTL DEF Spec
=============================================================================
