----------------------------- MODULE ScanWorker -----------------------------
(***************************************************************************)
(* The scan workers of apps/api (worker.ts) against the job queue.  Every  *)
(* API process starts one ScanWorker, whose tick loop runs processNext     *)
(* calls one after the other; several processes share a Postgres queue.    *)
(*                                                                         *)
(* processNext is several steps, with a wait at each await: the claim, the *)
(* scan, the call of complete, and in the catch block the call of retry or *)
(* fail.  The catch block decides with the attempts of the job it claimed, *)
(* a copy that may be old by then.  A call may throw, before the queue     *)
(* applied it or after (the answer of the database is lost), a process may *)
(* crash at any point and start again; MaxFaults bounds how often.         *)
(***************************************************************************)
EXTENDS JobQueue

CONSTANTS
  Workers,        \* the worker processes
  MaxAttempts,    \* maxAttempts
  RetryBase,      \* retryBaseMs, in ticks
  MayOverrun,     \* whether a run can take longer than the lease
  LostAcks,       \* the calls that can be applied and still throw
  MaxFaults,      \* bound on crashes and calls that throw
  AttemptCap      \* bound on how often a job is claimed

ASSUME WorkerAssumption ==
  /\ MaxAttempts \in Nat \ {0}
  /\ MayOverrun \in BOOLEAN
  /\ LostAcks \subseteq {"claimNext", "complete"}
  /\ MaxFaults \in Nat
  /\ AttemptCap \in Nat

VARIABLES
  worker,         \* worker -> what it is doing, and the job it claimed
  faults          \* crashes and throwing calls so far

vars == <<job, worker, faults>>

\* nextRetryAt, as a delay: base * 2^(attempts-1).
nextRetryAt(attempts) == RetryBase * 2 ^ (attempts - 1)

ASSUME DelayAssumption == \A n \in 1..MaxAttempts : nextRetryAt(n) \in Nat

\* pc: "idle" between two calls of processNext, "scanning" in runScanJob,
\* "scanned" about to call complete, "caught" in the catch block, "down"
\* when the process is not running.  job and attempt are the claimed copy.
Worker == [pc : {"idle", "scanning", "scanned", "caught", "down"},
           job : JobIds \cup {0}, attempt : Nat]

Idle == [pc |-> "idle", job |-> 0, attempt |-> 0]
Down == [Idle EXCEPT !.pc = "down"]

Holding(w) == worker[w].pc \in {"scanning", "scanned", "caught"}

Holds(w, j) == Holding(w) /\ worker[w].job = j

TypeOK ==
  /\ job \in [JobIds -> Job]
  /\ worker \in [Workers -> Worker]
  /\ \A w \in Workers : Holding(w) => worker[w].job \in JobIds
  /\ faults \in Nat

Init ==
  /\ QueueInit
  /\ worker = [w \in Workers |-> Idle]
  /\ faults = 0

-----------------------------------------------------------------------------

\* The API server puts a job in the queue (enqueueScan).
Submit ==
  /\ \E j \in JobIds : Enqueue(j)
  /\ UNCHANGED <<worker, faults>>

Fault == faults < MaxFaults /\ faults' = faults + 1

Go(w, pc) == worker' = [worker EXCEPT ![w] = [@ EXCEPT !.pc = pc]]

Rest(w) == worker' = [worker EXCEPT ![w] = Idle]

Claim(w) ==
  /\ worker[w].pc = "idle"
  /\ \E j \in JobIds :
       /\ job[j].attempts < AttemptCap
       /\ ClaimNext(j)
       /\ worker' = [worker EXCEPT ![w] = [pc |-> "scanning", job |-> j,
                                           attempt |-> job[j].attempts + 1]]
  /\ UNCHANGED faults

\* The claim is committed and its answer lost: the job runs, in nobody's hands.
ClaimThrows(w) ==
  /\ "claimNext" \in LostAcks
  /\ worker[w].pc = "idle"
  /\ \E j \in JobIds : job[j].attempts < AttemptCap /\ ClaimNext(j)
  /\ Fault
  /\ UNCHANGED worker

ScanReturns(w) ==
  /\ worker[w].pc = "scanning"
  /\ Go(w, "scanned")
  /\ UNCHANGED <<job, faults>>

ScanThrows(w) ==
  /\ worker[w].pc = "scanning"
  /\ Go(w, "caught")
  /\ UNCHANGED <<job, faults>>

CompleteReturns(w) ==
  /\ worker[w].pc = "scanned"
  /\ Complete(worker[w].job, worker[w].attempt)
  /\ Rest(w)
  /\ UNCHANGED faults

\* complete is called inside the try: when it throws, the catch block retries.
CompleteThrows(w) ==
  /\ worker[w].pc = "scanned"
  /\ \/ UNCHANGED job
     \/ /\ "complete" \in LostAcks
        /\ Complete(worker[w].job, worker[w].attempt)
  /\ Fault
  /\ Go(w, "caught")

\* Mutants of CatchRetries and CatchFails: the limit compared one off.
CatchRetriesOnceMore(w) ==
  /\ worker[w].pc = "caught"
  /\ worker[w].attempt <= MaxAttempts
  /\ Retry(worker[w].job, worker[w].attempt, nextRetryAt(worker[w].attempt))
  /\ Rest(w)
  /\ UNCHANGED faults

CatchFailsOnceEarly(w) ==
  /\ worker[w].pc = "caught"
  /\ worker[w].attempt + 1 >= MaxAttempts
  /\ Fail(worker[w].job, worker[w].attempt)
  /\ Rest(w)
  /\ UNCHANGED faults

\* A lost answer of retry or fail changes nothing more: the worker lets go.
CatchRetries(w) ==
  /\ worker[w].pc = "caught"
  /\ worker[w].attempt < MaxAttempts
  /\ Retry(worker[w].job, worker[w].attempt, nextRetryAt(worker[w].attempt))
  /\ Rest(w)
  /\ UNCHANGED faults

CatchFails(w) ==
  /\ worker[w].pc = "caught"
  /\ worker[w].attempt >= MaxAttempts
  /\ Fail(worker[w].job, worker[w].attempt)
  /\ Rest(w)
  /\ UNCHANGED faults

\* retry or fail throws before it is applied: processNext rejects, tick logs
\* the error and goes on, and the job stays running until its lease expires.
CatchThrows(w) ==
  /\ worker[w].pc = "caught"
  /\ Fault
  /\ Rest(w)
  /\ UNCHANGED job

Crash(w) ==
  /\ worker[w].pc # "down"
  /\ Fault
  /\ worker' = [worker EXCEPT ![w] = Down]
  /\ UNCHANGED job

Restart(w) ==
  /\ worker[w].pc = "down"
  /\ Rest(w)
  /\ UNCHANGED <<job, faults>>

\* Without overruns a run, its last write included, ends within the lease.
Tick ==
  /\ MayOverrun \/ \A w \in Workers : Holding(w) => job[worker[w].job].age + 1 < Lease
  /\ TimePasses
  /\ UNCHANGED <<worker, faults>>

ScanEnds(w) == ScanReturns(w) \/ ScanThrows(w)

CallReturns(w) == CompleteReturns(w) \/ CatchRetries(w) \/ CatchFails(w)

WorkerStep(w) ==
  \/ Claim(w) \/ ClaimThrows(w)
  \/ ScanEnds(w)
  \/ CallReturns(w)
  \/ CompleteThrows(w) \/ CatchThrows(w)
  \/ Crash(w) \/ Restart(w)

Next == Submit \/ Tick \/ \E w \in Workers : WorkerStep(w)

Spec == Init /\ [][Next]_vars

\* The clock goes on, the loop polls for as long as it runs, a scan ends, the
\* event loop gets to the next call, and a crashed process is started again.
\* A step that throws is never owed.
Fairness ==
  /\ WF_vars(Tick)
  /\ \A w \in Workers :
       /\ WF_vars(Claim(w))
       /\ WF_vars(ScanEnds(w))
       /\ WF_vars(CallReturns(w))
       /\ WF_vars(Restart(w))

FairSpec == Spec /\ Fairness

-----------------------------------------------------------------------------
(* What holds in every deployment, overruns and lost answers included.     *)

\* Two claims of a job never carry the same attempt number, and no claimed
\* copy is ahead of the job: the attempt number names the claim.
ClaimsDistinct ==
  /\ \A v, w \in Workers : \A j \in JobIds :
       Holds(v, j) /\ Holds(w, j) /\ v # w => worker[v].attempt # worker[w].attempt
  /\ \A w \in Workers : \A j \in JobIds :
       Holds(w, j) => worker[w].attempt \in 1..job[j].attempts

\* A job is given up only after it has been claimed MaxAttempts times, and
\* the outcome a client polls is whole: a success carries a result and no
\* error, a failure an error and no result.
OutcomeSound ==
  \A j \in JobIds :
    /\ job[j].status = "failed" =>
         job[j].attempts >= MaxAttempts /\ job[j].error > 0 /\ job[j].result = 0
    /\ job[j].status = "succeeded" => job[j].result > 0 /\ job[j].error = 0

\* Every submitted job settles for good, though runs outlive their leases and
\* answers are lost.
EveryJobSettles ==
  \A j \in JobIds : job[j].status = "queued" ~> [](Terminal(j))

-----------------------------------------------------------------------------
(* What holds when only one worker runs, or every run ends in its lease.   *)

\* Who holds a job holds its latest claim, and the job is still running: no
\* other claim, retry or completion came between.
HolderIsCurrent ==
  \A w \in Workers : Holding(w) =>
    /\ job[worker[w].job].status = "running"
    /\ job[worker[w].job].attempts = worker[w].attempt

\* No job is run by two workers at once.
NoDuplicateRun ==
  \A v, w \in Workers : \A j \in JobIds : Holds(v, j) /\ Holds(w, j) => v = w

\* The row of a job tells of its last attempt: the outcome of a settled job is
\* the one that attempt produced, a queued job carries its error and no result.
RowTellsLastAttempt ==
  \A j \in JobIds : LET r == job[j] IN
    /\ r.status = "succeeded" => r.result = r.attempts
    /\ r.status \in {"queued", "failed"} => r.error = r.attempts /\ r.result = 0
    /\ r.status = "running" => r.error < r.attempts /\ r.result = 0

\* A job is tried beyond MaxAttempts only when a process crashed or a call
\* threw, once for each time.
AttemptsBounded ==
  \A j \in JobIds : job[j].attempts <= MaxAttempts + faults

\* A settled job stays exactly as it was settled: the client that polls it
\* (awaitJob) may stop at the first settled answer.
SettledIsFinal ==
  [][\A j \in JobIds : Terminal(j) => job'[j] = job[j]]_vars

\* The workers and the queue implement the life of a job the client counts on.
Lifecycle == INSTANCE JobLifecycle WITH
  Jobs <- JobIds,
  phase <- [j \in JobIds |-> IF job[j].status \in {"queued", "running"}
                             THEN "pending" ELSE job[j].status],
  tries <- [j \in JobIds |-> job[j].attempts]

ImplementsLifecycle == Lifecycle!Spec

-----------------------------------------------------------------------------
(* What the comments say and a deployment of several workers does not keep. *)

\* Running a job twice is safe (worker.ts): what succeeded is not lost again.
SuccessIsNotLost ==
  [][\A j \in JobIds : job[j].status = "succeeded" => job'[j].status = "succeeded"]_vars

\* maxAttempts is the maximum number of attempts (worker.ts).
AttemptsAtMostMax == \A j \in JobIds : job[j].attempts <= MaxAttempts
=============================================================================
