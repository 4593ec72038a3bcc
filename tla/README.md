# A TLA+ model of OmniGuard

OmniGuard (AIO-TF) collects the assets of a tenant (npm packages, vendors, cloud
resources, services, web sites), finds their weaknesses, scores them and carries
the scores along the dependencies between the assets.  Scans run asynchronously:
the HTTP API puts a job in a queue, workers take jobs from it, run the connectors,
write what they found to a repository, and a client polls the job until it has
settled.  This directory holds TLA+ modules of the parts of that program whose
behaviour is hard to test, the TLC configurations that check them, and TLAPS
proofs of the results that matter most.

Paths below are relative to the root of the repository.

## 1. The system

| part | code | state | operations |
| --- | --- | --- | --- |
| Job queue | `packages/storage/src/job.ts`, `postgres.ts` (class `PostgresJobQueue`), migrations 003 and 004 | one row per job: status, attempts, availableAt, updatedAt, result, error | enqueue, getJob, claimNext, complete, fail, retry |
| Scan worker | `apps/api/src/worker.ts` | per process: running, timer, the claimed copy of a job | processNext, start, stop |
| Scan pipeline | `apps/api/src/scans.ts` | per run: what the connector returned, the ids the repository gave back | runScanJob and one function per kind of scan, computeImpact |
| Repository | `packages/storage/src/port.ts`, `memory.ts`, `postgres.ts` | four tables (assets, relationships, findings, scores) keyed by tenant and natural key | four upserts, four lists |
| Risk graph | `packages/graph/src/index.ts` | none (a pure function; the call stack, visiting set and memo of one call) | propagateRisk |
| Scoring | `packages/scoring/src/index.ts` | none | scoreFinding |
| OSV enrichment | `packages/enrich-osv/src` | per call: cursor of the parallel map, attempt of each query | enrichWithOsv |
| Web connector | `packages/connector-web/src` | none kept; several network calls per scan | scanUrl, activeScanUrl |
| npm, vendor, IaC, service connectors | `packages/connector-*/src` | none | parsing and rule evaluation |
| API server | `apps/api/src/server.ts`, `index.ts`, `envelope.ts` | none beyond the stores | reads, five scan submissions, job status, token issue, list, revoke |
| Authentication and tokens | `apps/api/src/auth.ts`, `packages/storage/src/token.ts`, `postgres.ts` | token table | authenticate, seed, issue, revoke |
| Migrations | `applyMigrations` in `postgres.ts`, `packages/storage/migrations` | schema, advisory lock | migrate at boot |
| CLI | `apps/cli/src` | none | one run of a scan, in the foreground: the same upserts, then a printed report |
| Web dashboard | `apps/web` | none kept | `ApiClient`, `awaitJob`, views over the lists |
| GitHub Action | `examples/github-action/action.yml` | none | submit, poll |

How they interact:

* `apps/api/src/index.ts` starts one worker loop and one HTTP server per process.
  With `DATABASE_URL` several processes share the queue, the repository and the
  tokens; without it each has its own in-memory ones.
* API to worker: only through the job row.  The API inserts it, the worker claims
  it and writes its outcome, the API reads it back for the client.
* Worker to pipeline: one call of `runScanJob` per claim.  The pipeline writes the
  repository in two to four transactions, one after the other, awaiting the
  network between them.
* Readers (`computeImpact`, the dashboard) read the four lists in four separate
  transactions; a page of the dashboard sends several requests at once, and each may
  see another moment of a scan that writes.
* Every connection of the Postgres deployment goes to one database, whose schema any
  of the processes may be creating when another boots.

### What is hard, and what makes each part correct

* **Queue and worker.**  A process may die at any await; a run may outlive its
  lease and be run a second time while it still goes on; `complete`, `fail` and
  `retry` check neither the status nor the holder; the catch block decides with a
  copy of the job that may be old; a call may be applied and still throw.  Correct
  means: a job is not run twice at once, a settled job stays settled, the row
  tells of the last attempt, the number of attempts is bounded, and every job
  settles.
* **Pipeline and repository.**  No foreign keys: that every relationship, finding
  and score refers to something stored rests on the order of the transactions and
  on ids that never change once given.  Runs overlap, are cut short, and are
  repeated; their transactions lock rows in the order of the input and can
  deadlock.  Correct means: nothing dangles, a repeated run adds nothing new, a
  run that reports success has stored all it reports.
* **Risk graph.**  Cycles occur in stored data.  Correct means: the search ends,
  its recursion is bounded, every impact has a cause that explains it, and the
  impact is the one of the equation in the comment wherever that is possible.
* **Enrichment.**  Timeouts, retries, a bounded parallel map one of whose calls may fail
  while others go on.  Correct means: no package is lost or looked up twice, and the
  call ends.
* **Web connector.**  An ownership check guards the active part of a scan; the page may
  be redirected elsewhere in between; many look-ups run at once, any may fail; every
  peer may be silent.  Correct means: only hosts of a verified owner are asked, what is
  found is reported on the host it was found at, and a scan ends.
* **Boot and migrations.**  Several processes boot at once on one schema and may die
  while they migrate.  Correct means: one migrates at a time, nobody uses a schema that
  is not complete, and everybody comes up.
* **Tokens.**  Revocation is a read and a delete; seeding at boot writes tokens again;
  an unknown role must not pass.  Correct means: an issued token that was revoked stays
  out, and only its tenant can revoke it.
* **Clients.**  Polling is bounded and races the worker, each poll may reach another
  process, and a process may die between a write and its answer.  Correct means: a
  client is told the truth, and is told something.
* **Connectors, scores, views.**  Findings, scores and criticalities of one asset are
  written by different scans at different times, and read one list at a time.  Correct
  means: what is shown is what is stored, but for exceptions that can be named.

## 2. The modules and the code

| module | models | extends |
| --- | --- | --- |
| `JobQueue` | the job table and the methods of both queue adapters | |
| `ScanWorker` | `processNext` and the poll loop of every worker process, crashes, lost answers | `JobQueue` |
| `JobLifecycle` | what queue and workers promise a client (abstract) | |
| `ScanWorkerProofs` | theorems about the two | |
| `RiskGraph` | `propagateRisk`, call by call | |
| `RiskGraphProofs` | theorems about it | |
| `Repository` | the upserts of the repository as transactions that lock row by row | |
| `Selections` | parts of a list that keep its order | |
| `ScanPipeline` | `runScanJob`: the transactions of one execution, overlapping with others | `Repository`, `Selections` |
| `Inventory` | the facts a reader of the repository sees (abstract) | |
| `SelectionsProofs`, `ScanPipelineProofs` | theorems about these | |
| `OsvEnrich` | `enrichWithOsv`: the parallel map and the tries of each look-up | |
| `OsvEnrichProofs` | theorems about it | |
| `SiteAnalysis` | the pure functions of `connector-web`: what a page and the hosts below it amount to | `Selections` |
| `ActiveScan` | `scanUrl` and `activeScanUrl`, await by await | `SiteAnalysis` |
| `ActiveScanProofs` | theorems about the two | `SelectionsProofs` |
| `Boot` | `main` of the API: migrations under the advisory lock, seeding of tokens, deaths | |
| `ApiServer` | requests and their clients on those processes: roles, tokens, jobs | `Boot`, instance of `JobLifecycle` |
| `ApiServerProofs` | theorems about the two | |
| `Connectors` | what the npm, IaC, vendor and service connectors make of their input; `scoreFinding` | `Selections` |
| `Views` | `computeImpact` with its search, the views of the dashboard, the report of the command line | `Connectors` |
| `ScanRuns` | scans of all kinds at the same time, and the pages read meanwhile | `Views` |
| `ScanRunsProofs` | theorems about the three | `SelectionsProofs` |
| `MCScanWorker`, `MCRiskGraph`, `MCScanPipeline`, `MCActiveScan`, `MCApiServer`, `MCScanRuns` | instances for TLC | |

**JobQueue.**  `job` is the table, a function from job id to row; ids are numbered
in the order of insertion (the column `seq`, the order of the Map).  One action
per method: `Enqueue`, `ClaimNext`, `Complete`, `Fail`, `Retry`.  Each is one
atomic step because the in-memory adapter changes the Map synchronously and the
Postgres adapter runs one SQL statement.  None checks the status or the holder,
as in the code.  Time is relative: `wait` is what remains until `availableAt`,
`age` the time since `updatedAt`, counted up to the lease, and `TimePasses`
changes both.  This is one clock; the code compares time stamps that several
processes write, and skew between their clocks is left out.  `result` and `error`
hold the number of the attempt that wrote them, so that the properties can tell
whose outcome a row carries.

**ScanWorker.**  `worker[w]` is where process `w` is in `processNext` and the copy
of the job it claimed.  There is a step per await: `Claim`, then `ScanReturns` or
`ScanThrows`, then `CompleteReturns` or `CompleteThrows`, and in the catch block
`CatchRetries`, `CatchFails` or `CatchThrows`.  The catch block decides with the
copy, never with the row.  `Crash` and `Restart` are the process dying and being
started again; with them and the throwing calls counted in `faults`.  After a
crash the queue is as it was: this is the Postgres deployment (the in-memory
queue dies with its process).  `MayOverrun` says whether a run may take longer
than the lease, `LostAcks` which calls may be applied and still throw.

**RiskGraph.**  `stack` is the stack of calls of `compute`, `memo` its cache; a step
is one call, one answer or one turn of the loop over the dependencies.  Assets,
edges and scores are arbitrary, and the lists may come in any order.

**Repository and ScanPipeline.**  The four tables are one partial function `rows`
from natural keys to ids; the natural key of an edge, a finding or a score holds
ids.  `locked[c]` is what the open transaction of execution `c` has written: a
`Statement` waits for a row that another transaction has locked, `Commit` makes
the batch visible, `Rollback` forgets it.  The ids returned are those of the rows
as they are stored at the commit, which are those at the statement because the
rows are locked in between.  The type of a relationship, which its natural key holds beside the two
ends, is left out here and kept in `ScanRuns`.  An execution goes through `scan`, `list` (service
manifests only), `asset`, `edge`, `finding`, `score`; a kind of scan that has no
edges or no findings has an empty batch there.  `Throws` is an exception or the
end of the process at any step, `CommitThrows` a commit whose answer is lost.
Waiting, the detection of a deadlock and the choice of its victim are the
database's and are marked external in the map.

**Selections.**  Where the code filters a list, or takes duplicates out of it with a Set or
a Map, the models say which places of the list stay: `ItemsAt(s, S)` is the list of the
items of `s` at the places `S`, in their order, and `Nth(S, n)` the place that `n` of the
places are up to.  It is what `SelectSeq` computes, defined by a cardinality instead of a
recursion, so that `SelectionsProofs` can show for lists of every length that the
selection keeps the order, takes each place once and misses none.

**OsvEnrich.**  `lane[l]` is one of the `limit` workers of `mapLimit`: it waits for an
answer (`Answered`, `Refused`, `Aborted`), for its next try (`TriesAgain`), or has
ended.  `cursor` and `results` are the variables of that name, `requests` counts what
was sent for each package, `outcome` is what `Promise.all` told the caller.  An answer
and the turn of the loop that takes the next package are one step, because there is
no await between them.  Time is in ticks; a `Tick` passes only while no timer is due.
What OSV answers is left out but for whether the try threw.

**SiteAnalysis and ActiveScan.**  `pc` is the await a scan is at: the TXT records, the
headers of the page, its body, the certificate, the log of certificates, all look-ups at
once, one takeover probe after another.  `verified` is what `verifyOwnership` answered,
about the host asked for (`target`), while the page may have come from another host
(`finalUrl`).  What others answer is arbitrary, no answer is owed, and a call without an
answer ends by its timer: `FetchAborts`, `HandshakeTimesOut`, `LogTimesOut`,
`TakeoverTimesOut`; the resolver has a timer of its own.  For the body the code sets none
(the HTTP library has one between two pieces of it).  After the gate an active scan searches
the page it got for secrets: `searched` is the host that page is of.  Redirects that a
takeover probe follows are left out: what is said of the hosts asked is said of the first
request to each.  `Result` is
what the scan returns: assets as a sequence of natural keys, edges and findings by place,
which is the form `ScanPipeline` stores.  Text is abstracted: a host is a domain and
labels, a script the library its URL names, a secret a pattern with its first four
characters.

**Boot and ApiServer.** `proc[p]` is how far a process is in `main`: waiting for the lock,
at which migration, at which token of the environment, or serving. `lock` is the advisory
lock, freed by `Unlock` (the `finally` of `applyMigrations`) or by the end of the session
(`Die`). A call is what a client has open: a call to manage tokens is one request; a scan is
submitted and polled, each poll a request to whatever process serves. A request is
authenticated by one statement (`Authenticate`) and handled by others, so the token may be
revoked in between, and a request that was authenticated before goes on; a revocation is
`RevokeFinds` and then `RevokeDeletes`. `Dies` breaks the connections to the process, which
a client sees as an error. The callers in `Patient` are the GitHub action, which polls on
whatever it is answered and ends only when nobody listens or its polls are used up. What the
workers do to a job is a step of `JobLifecycle` (`TriesOrSettles`), which `ScanWorker` is
shown to implement in a safe deployment: this is how the two halves of the system meet.
Beyond it, as no deployment is assumed here, a run that outlived its lease or lost the
acknowledgement of its `complete` may write a job that has ended once more (`Rewrites`):
complete it, fail it, or have it tried again. `ended` and `rewritten` record which ends a
row has had and which jobs were written after one; `told` is the end a caller was told of
last. Handlers that only read a list are left out. `MaxJobs`, `MaxCrashes` and `Fresh` bound
jobs, deaths and tokens.

**Connectors, Views and ScanRuns.**  A history is what users submit, in order of its
beginning; up to `MaxParallel` runs are under way at once, those of the workers and those of
the command line.  `runs[i]` is what run `i` was given, what its connector found, the
transaction it does next (`asset`, `edge`, `finding`, `score`), and `with`, the runs it
overlapped; it may be cut before any of them.  Each step uses what the run's own earlier
upserts returned, as `scanAndPersist` and `scoreAndPersist` do, whatever other runs have
written since.  A transaction is one step here: how two of them exclude each other, and that
rows may be named by natural key, is what `ImplementsInventory` shows of `ScanPipeline`.  A
kind of scan that has no edges or findings passes through an empty stage.  `since` and `seen`
are the first and the last run that wrote a row, `scorer` the run that wrote a score.  `page`
holds the lists that a page, and `computeImpact` for it, have read so far, group by group,
while the last runs go on or after them; `Opened` are the histories in which a page is
opened.

`propagateRisk` is the search of the code, in `Views` as a function of the lists: a stack of
calls, a memo, and a call that is under way answering with its own score.  `RiskGraph` has
it call by call, `Views` runs it to its end, in the order in which a reader lists assets and
edges.  That order is the one of random ids; `Orders` are the orders tried, the rest is
chosen.  On a cycle the result depends on it, so the pages and the command line, which list
on their own, may differ.  Where the code keeps the last row of such a list
(`indexAssets`), any is allowed.
A plan is the list of its modules, each the list of its resources, the root first: the
depth at which a module is nested is nothing `collectResources` tells apart.
A version range is the sequence of the versions in it; a date is a number of days and a
time a number of half-days.

## 3. What TLC checks

| run | question | bounds |
| --- | --- | --- |
| `within_lease` | two processes whose runs end in the lease: does a job run twice, is a claimed copy ever stale, does a settled job change, do they implement `JobLifecycle`? | 2 workers, 3 jobs, 2 faults, lease 3 |
| `overrun` | what still holds when runs outlive the lease and acknowledgements are lost, and does every job settle? | 2 workers, 2 jobs, 2 faults |
| `overrun_success` (violation) | is a duplicate run harmless, as a comment says? | 1 job |
| `crash_attempts` (violation) | is `maxAttempts` the most attempts? | 1 job, 2 faults |
| `all_graphs` | does the search end, with which results? | every graph of 3 assets, scores 0 to 2 |
| `cyclic_equation` (violation) | does the equation of the comment hold on cycles? | the same, scores 0 and 1 |
| `scans` | references, ids, completeness and repetition of overlapping executions; do they implement `Inventory`, and does every one end although transactions deadlock? | 2 executions of every scan of 2 assets, 1 edge, 1 link, 1 finding |
| `enrichment` | is any package lost or looked up twice, is the caller told the truth, and how soon? | 4 packages, 2 lanes, 3 tries of 2 ticks |
| `active_scan` | who is asked, what is reported where, and does a scan end? | 3 inputs, 3 pages, 2 certificates, 2 logs, 2 words, 3 candidates |
| `redirected_secrets` (violation) | is only a verified domain searched for secrets, as the comment says? | the same |
| `api` | do processes come up one by one, who is let in, what is a client told, and does every call and every boot end? | 2 processes, 1 death, 2 migrations, 2 tokens of the environment and 1 issued, a manager and a patient client, 1 job, 1 attempt, 1 poll |
| `scan_runs` | do scores, references, printed reports, figures and pages agree with what is stored? | 91 histories of one to three runs of all kinds, up to 3 at once, 1 cut, 2 times, 3 orders; a page read in 4 groups in 5 of the histories |

The properties are in the modules, each with a comment.  Why the bounds are enough:

* Workers touch each other only through a row, so two workers show every race over
  one job; a second job lets the order of claims matter, a third lets one wait
  behind another while a worker is in its catch block.  With `MaxAttempts` 2 there
  is an attempt that retries and one that fails; with two faults one attempt is
  lost and the next is hit again.  What `within_lease` shows is also proved for every
  size, and for the deployment of one process whose runs may outlive the lease
  (section 5).
* `AttemptCap` bounds claims in the guard of `Claim`.  In the runs where it is 9 it
  is never reached, because every claim beyond `MaxAttempts` needs a fault or an overrun,
  and an overrun another worker that holds the job (the run of `overrun` would deadlock
  or starve if it were).  In the violation runs 4 claims are two rounds of every attempt
  at most.
* Three assets have cycles of one, two and three, two cycles that share an asset,
  and diamonds with a cycle on one side.  The proofs cover every other size but
  for `Terminates`.
* In `scans` both executions take the same or different scans, one may be a repeat of the
  other, and natural keys may come twice in a batch (`BoundedSeq` does not ask for distinct
  keys), which makes edges from an asset to itself. A batch has two rows, so two
  transactions can deadlock. Cycles of three transactions would need a third execution; the
  detection that ends them is the database's, and does not depend on their number.
* In `enrichment` each lane takes two packages on average and one may take three, so a
  slow lane is overtaken; three tries have two delays, so the doubling shows.
* In `active_scan` the word list has two words and the log up to two names more, of which
  one fits under the limit of three: the cut falls inside the log.  The pages are one of
  the host asked for, one without https and one of another domain; every subset of the
  hosts asked for is owned.
* In `api` the two processes boot at the same time and one of them may die anywhere,
  holding the lock, between two tokens or in the middle of a request.  The two tenants
  make a revocation across tenants possible; the role of the second token of the
  environment is none the code knows.  One job suffices because clients share nothing
  but the queue, which has its own runs.  With one attempt a late run completes or fails a
  job that has ended otherwise; that it has it tried again needs two, which the theorem
  `ClientsAreToldTheTruth` covers and the run, to stay small, does not.
* In `scan_runs` the histories hold one package in two versions, a package that is an
  application of its own, packages that depend on each other, one resource address in two
  plans, a vendor whose criticality changes and whose certificate expires between two times,
  references that are found, are found by name in several versions, and are not found: any
  two of nine runs in either order, and some of three, all of them interleaved transaction by
  transaction.  A run that is cut, one that overlaps it and one that follows need three.  A
  page is opened in five histories, two of which store a cycle, one with a score below it
  and one with a score on it, and lists start at either end of it.
* Symmetry is used where no liveness is checked, over workers and assets that no
  definition tells apart.

`CHECK_DEADLOCK FALSE` is set where the system stops: a search that has returned,
executions, an enrichment or a scan that have ended, and histories that are finite.

### Fairness

* `ScanWorker!FairSpec`: the clock goes on; `tick` is rescheduled in a `finally`, so a
  process that runs keeps polling (weak fairness of `Claim`); a run ends and the
  call after it returns; a process that died is started again.  Fairness of a
  crash or of a throwing call is never assumed, and `MaxFaults` bounds them: with
  faults for ever nothing can be promised.  That a run ends is an assumption: the
  body of a web page is read without a timer (`connector-web/src/probe.ts:82`), and
  a run that hangs stops the loop of its process.  The liveness run (`overrun`) lets runs
  outlive their lease and answers get lost, and every job still settles: a run that ends
  late ends, and whoever ends last leaves the job settled or queued.
* `ScanPipeline!FairSpec`: an execution that can go on does, and the database ends
  some transaction of a deadlock.  An execution that waits is not promised
  anything but that.
* `OsvEnrich!FairSpec`: time passes and timers fire.  No answer is ever owed: an
  enrichment ends because its timers do.  The timer covers the body as well, since the
  signal is given to `fetch` and cleared only in the `finally`.
* `ActiveScan!FairSpec`: timers fire (`TimesOut`), and nothing else is owed.  Hence the
  exception in `EndsUnlessBodyHangs`: the timer of the page is cleared when its headers
  are there.
* `ApiServer!FairSpec`: a process that is down is started again and boots on (the
  supervisor of the deployment; a process is also down after a migration that failed),
  and a call that can go on does.  No request is ever made to begin, and the worker owes
  nothing: a client's call ends by its polls.
* `RiskGraph!FairSpec`: one synchronous call runs to its end.

## 4. Where code and comments differ

* `maxAttempts` is said to be the most attempts (`worker.ts:20`), but only the catch
  block compares it: a job whose process dies is claimed again without end
  (`crash_attempts`).  What holds instead is `AttemptsBounded`: one more attempt
  for each fault.
* A duplicate run is said to be safe (`worker.ts:26`).  It is for the repository (next
  item), not for the job: a run that outlived its lease and then throws overwrites
  the success of the run that took over (`overrun_success`); in the same way it
  reopens a job that has failed for good.
* The impact is said to be the one of the equation (`graph/src/index.ts:22`).  It is
  for every asset that is on no cycle (`EquationOffCycles`, proved); on a cycle it
  depends on the asset the search starts at (`cyclic_equation`).
* Subdomains and secrets are said to be looked for only at domains whose owner is verified
  (`connector-web/src/ownership.ts:39`).  For subdomains that is so (`OnlyOwnedHostsAsked`,
  proved).  But the page that is searched for secrets is the one the probe came back with,
  which after a redirect is of a domain nobody verified (`connector-web/src/index.ts:378`,
  `redirected_secrets`).
* Upserts are said to keep ids (`port.ts:10`); the in-memory adapter gives a score that is
  upserted again a new one (`memory.ts:75`).  Nothing refers to the id of a score, and no run
  is about it: `KeepsId` of `Repository` holds all four tables, as in Postgres.

Not a disagreement, but worth knowing: `EndsInTime` bounds an enrichment by
`Rounds * QueryTime`.  With the defaults (three tries of 10 s, delays of 0.3 s and 0.6 s,
8 lanes) that is 30.9 s for every 8 packages, so a slow network can take more than the
lease of 5 minutes from the 73rd package on: `MayOverrun` is a real deployment.  After a
rejection the other lanes are not told: they go on beside the next attempt of the job,
and a single one may be left with all the rest of the list, hence the second, larger
bound of `EndsInTime`.

Also worth knowing, of the web application and its API:

* A body that never ends hangs a scan, and with it the poll loop of its process
  (`EndsUnlessBodyHangs`); `ScanWorker`'s assumption that a run ends is as good as the
  sites that are scanned.
* A request that was authenticated before its token was revoked is still carried out;
  a token of the environment that was revoked is back after the next boot.  What
  `RevokedStaysOut` says is about issued tokens and about requests that come later.
* The GitHub action waits on after a 401 or a 404; only its time ends it.
* A client may be told an end that does not last: where runs outlive their lease, or the
  answer of `complete` is lost, a job is written again after it has ended (`ToldTheTruth` says
  no more than that).
* A score can be old.  A later scan that changes the criticality of an asset scores only
  the findings it sees itself.  And of two scans at the same time, one may score by the
  criticality it wrote, after the other has written another: the score stays wrong although
  neither was cut, until a scan sees the finding again (`StaleScoreExplained` names the cases).
* On a cycle of dependencies the impact that two pages show may differ, since each depends on
  the order in which ids happen to sort.
* "No findings" may be shown beside findings: when the page was read while a scan wrote,
  or after a scan that was cut before its scores (`HiddenOnlyIfTorn`).
* Heirs of a finding are looked up by the name of the root cause, so an asset of the same
  name (another version of a package) shares them (`ImpactedByName`).
* Nothing closes a finding or removes an edge; a certificate that has expired has both
  its findings.
* A certificate counts as expired from the start of its last day, since the number of
  days is rounded down (`connector-vendor/src/evaluate.ts:24`).
* A resource of two IaC stacks with one address is one asset (`connector-iac/src/index.ts:139`).
* The npm, vendor and IaC commands of the command line take a new tenant for each run
  (`apps/cli/src/index.ts:17`): nothing they store is found again by another run.
* The worker of a process starts before the process listens (`apps/api/src/index.ts:116`); the
  two are one step, `Listen`, since nothing a client sees tells them apart.
* With a concurrency of 0 an enrichment would have no lane and find nothing; the default
  is 8 and no caller gives another (`EnrichAssumption`).

For the repository, repeating a run is safe: `RepeatAddsNothing`, `IdsKept` and
`NoDangling` hold however executions overlap or are cut.  Scans that link to
assets found before are excepted from `RepeatAddsNothing`: a repeat may know more
assets and so add edges.

## 5. What is proved

TLAPS checks the theorems of `ScanWorkerProofs`, `RiskGraphProofs`, `ScanPipelineProofs`,
`OsvEnrichProofs`, `ActiveScanProofs`, `ApiServerProofs` and `ScanRunsProofs`, with the
lemmas of `SelectionsProofs`, for every value of the constants that satisfies the
assumptions named in the modules (`QueueAssumption`: a positive lease; `WorkerAssumption`:
at least one attempt; `DelayAssumption`: a backoff is a number of ticks; `GraphAssumption`:
`None` is no asset and no result; `EnrichAssumption`: at least one lane, a positive timeout;
`BootAssumption`: the tokens of the environment are a list; `ApiAssumption`: a token that is
issued is none of the environment, and bounds are numbers; `RepositoryAssumption` and the
pipeline's `ScanAssumption`: batches have a largest size and a scan names its own assets by
their places; `SiteAssumption`, the active scan's `ScanAssumption` and `WorldAssumption`:
there is a limit of candidates, a word list is a list, and what a page, a certificate or the
log holds has the shape a parser gives it; `RunsAssumption`: what is submitted passed the
schema of its kind, the advisories are finitely many, on software and of a known severity,
times are numbers, and the groups in which lists are read hold every list). TLC evaluates
every one of them in the run of the module.

In every deployment, overruns and lost answers included: `TypeCorrect`, `ClaimsAreDistinct`
(the attempt number names the claim) and `OutcomesAreSound`. Their invariant is `BaseInv`. 
`OutcomeSound` needs that a worker writes with an attempt the row has reached
(`CopyNotAhead`), as the catch block compares the copy and the property speaks of the row.

In a safe deployment (`SafeDeployment`: `complete` throws only if it was not applied, and
there is one worker or runs keep the lease): `HoldersAreCurrent`, `NoDuplicateRuns`,
`RowsTellLastAttempt`, `SettledJobsStay`, `AttemptsAreBounded` and `LifecycleImplemented`,
the step simulation of `JobLifecycle`.  The core is `SafeInv`: whoever holds a job holds its
latest claim and the row is running (`HolderIsCurrent`), and the lease of a held job has not
run out (`WithinLease`), so nobody can take it.  With it the unguarded writes of `complete`,
`fail` and `retry` are shown to hit only the row they are meant for.  `AttemptsBounded`
needs in addition a budget (`AttemptBudget`) that says how many attempts a queued or
abandoned row can have used.

For the graph: `TypeCorrect`, `CallsDoNotReenter`, `CausesAreJustified` and
`EquationHoldsOffCycles`.  `SearchInv` says that the stack is a path of the graph (`Linked`,
`PathUp`), that each frame has merged the dependencies it is done with (`FramesOK`) and that
each memo entry is justified (`MemoOK`).  The last theorem rests on this: if a frame was
given the own score of a blocked call, that call is above it on the path, so both are on a
cycle; an asset on no cycle has been given the impact of every dependency.

For the repository and the pipeline, with any number of executions, of any scans of any
size: `TypeCorrect`, `NothingDangles`, `UnscoredAreExplained`, `ReturnedAreStored` and
`InventoryImplemented` where the tables that others refer to keep their ids
(`ReferencedKept`: assets and findings), which both adapters do; `IdsAreKept` and
`RepeatsAddNothing` where all four tables do, which holds of `PostgresRepository` and not of
the in-memory one (section 4).  `NoDangling` alone is not inductive: a transaction
writes the ids that an earlier one of the same execution was given, and meanwhile others
have committed.  The invariant `Inv` therefore says what an execution carries at each stage:
the links it resolved were to stored assets and are still there (`LinksSettled`), the ids of
its assets and findings are those the rows are stored under now (`AssetsPlaced`,
`FindingsPlaced`), and its edges and scores are stored once their transaction is over
(`EdgesPlaced`, `ScoresPlaced`).  A commit by anyone keeps this for all the others because
rows are only added and the ids others refer to stay (`Grows`, `ClientKept`).  Two parts
more are about ids: a stored id was made by an execution that is past that transaction
(`IdsMade`), hence a new id is new, hence no two rows have one id (`OneToOne`).  The last is
what makes the refinement work: a fact names an asset by its key, and reads it from a row
that holds an id (`AssetIn`), so an id has to tell its row.  The simulation is by cases: the
connector's answer is `Begin`, a commit, answered or not, is `Add` of the part of that stage
(`CommitFacts`), any throw is `End`, a row that is written and locked is a stutter. 
`RepeatsAddNothing` follows from `Inv`: what a returned scan has stored is every row of the
batches that a second execution of it writes.

For the enrichment: `TypeCorrect`, `PackagesTakenOnce`, `ResultsAreWhole`,
`RejectionsHaveCause` and `EnrichmentEndsInTime`.  `EnrichInv` adds to `EachTakenOnce` that
the requests of a package are the tries of its lane (`Counted`), that a lane ends only at
the end of the list, that a delay is followed by a try that is left (`DelayedHasTry`), and
that the outcome agrees with the lanes (`Told`).  The bound on the time has an invariant of
its own, `PaceInv`: no lane takes the `i`-th package later than `(i - 1) \div Limit`
look-ups of the longest kind after the call, as long as the caller waits, and never later
than `i - Limit` of them (`Paced`).  The first is inductive because, while packages are
left, all lanes hold packages, all different, so by the pigeonhole one of them holds a
package that is `Limit - 1` behind the last (`OneIsBehind`); it was taken a round earlier,
and has been at its lane for one look-up at most (`UsedIs`).  That the delays double is
taken from the number of subsets of a set (`PowerOfTwo`), since the provers know no powers.

For the scan of a site: `TypeCorrect`, `OnlyOwnedAreAsked`, `WordsSurvive` and
`ResultsHangTogether`, whatever the sites, redirects, word lists, logs and limits are and in
whatever order the answers come. `Inv` says that nothing is asked of a host whose owner is
not verified, and no page searched for a host that is not (`Gated`), that what is not asked
has no answer (`NothingAhead`), that the candidates are hosts below the root, each once, all
words of the list before any name of the log (`CandidatesOK`), and that all are resolved
before one is probed and all suspects are probed before the scan returns (`AllAnswered`).
The rest is about the pure functions, for lists of every length: `DistinctFacts` (taking
duplicates out keeps first places, so a cut falls on what came last), `CandidatesMade` and
`LogNames`; `AnalyzedFacts` and `SubdomainFacts` say where the page and the hosts put their
assets, edges and findings, and `PartsHang` that the places stay right when the parts are
joined, though hosts that do not exist lie between.

For the API: `TypeCorrect`, `OneMigratesAtATime`, `SchemaIsThere`, `RevokedTokensStayOut`,
`ClientsAreToldTheTruth` and `OnlyOwnTenantsTokensGo`, for any number of processes,
migrations, tokens, tenants, callers, jobs and attempts, and whatever late runs write.
`ToldTheTruth` needs more than that a poll reads the row: a job may end, be written again
and end otherwise between the poll and now, so an end of a job is never forgotten, and a job
whose row does not say an end it once had was written again (`NoEndUndone`). `ApiInv` adds
to the properties that who applies a migration has skipped none (`NoFileSkipped`), that the
row of a token of the environment always says what the environment says, and that only
tokens whose revocation is not answered have a row (`TokensOK`); and what a request carries
from one statement to the next (`CallOK`): after `RevokeFinds` the row, if there is one when
it is deleted, is of the caller's tenant (`OwnedBy`), because a seed writes what was there
before and a revoked token is never issued again. Steps are shown to disturb no other call
(`Bystander`): they take no process out of service but one that dies, and write no row of a
token that somebody may be revoking, other than to delete it.

For the connectors, scores and views, with any histories of scans of any size, any number of
them under way at once, cut at any transaction, and pages read in any groups and opened in
any history: `ScoresAreExplained`, `ReferencesAreLinked`, `NothingIsHidden`,
`FiguresOfAPageAgree`, `ImpactedAreDependent` and, of the step at which a run ends,
`WhatIsPrintedIsStored`, which are the properties of `scan_runs`.  Their invariant is `RunInv`
(`RunsKeepInvariant`).

* `ScansAreWhole` goes through the connectors one kind at a time: what each finds has the
  shape `ShapeOK`, findings and edges being of its own assets, those of a service alone
  reaching to assets stored before, and no service having a finding.  `RowsOK` is what this
  amounts to in the tables.
* `WrittenOK` says that each row is as the run that wrote it last found it.  So a score that
  is not that of its finding and asset was made of rows that another run has written since,
  and the question is which runs may have.  `DoneOK` answers it: what a run has written is
  there, and was written last by itself or by a run that overlaps it or began later
  (`NotBefore`); `OverlapOK` says that overlapping goes both ways and that of two runs the
  earlier, if it is still under way, overlaps the later.  A run that writes beside others
  keeps `DoneOK` of them for that reason.  With it the run that saw an asset last, unless it
  is under way, was cut or overlaps the one that scored, has scored all findings it saw:
  `StaleScoreExplained`, whose remaining case is a finding it did not see.
* `LinksOK` says of the scan under way what `RefsLinkedOrReported` says of the tables: what
  matches a reference that was reported was first stored by a run beside it or after it.
* `SummaryOK` ties what was returned to the scores there are.
* `PageOK` says that edges read once are still there, so that a dependency a page lists was
  one when its lists were read; the names may have changed, and that is the exception
  `ImpactedByName` makes.

The views rest on lemmas about the search of `propagateRisk`, for any finite graph, cycles
included, any scores and any order.  `SearchOK` is its invariant: the calls under way are
distinct and on a path, what has returned has all its edges merged, and what is known of an
asset is settled by them (`Settles`): it is an own score of something reached, never below
the own scores of the asset and of its dependencies, and off the cycles exactly the greatest
of its own and of their results.  Off the cycles this is what takes an argument: a call that
is blocked is above on the path, so the asset is on a cycle; any other dependency has its
result in the memo.  Each step enters an asset, takes an edge or leaves an asset
(`Advances`), so the search has ended after the number of steps `Views` lets it run
(`SearchEnds`), and `ImpactFacts` is what the pages use (`Rates`).  Below them are the lemmas on
`Reach`: it is the least set that holds the start and is closed under the edges
(`ReachLeast`, `ReachClosed`).  `FiguresAgree` claims the equation of the comment for the
assets off the cycles only, on whatever graph is stored; on a cycle it fails
(`cyclic_equation`).  A service is on none, because no edge leads to one.
`ImpactIsTheWorst` adds what an asset that reaches no cycle is shown with: the worst own
score of all it reaches, whatever the order.

`TypeOK`, `HolderIsCurrent` and `NoReentry` are in no run because they are proved for every
size: they are what the other proofs rest on.

Only model-checked: the liveness properties (`EveryJobSettles`, `Terminates`,
`EveryScanEnds`, `EveryLaneRests`, `EndsUnlessBodyHangs`, `EveryCallEnds`,
`EveryBootServes`), which are out of the prover's reach.

## 6. What is not modelled

`PROJECT.json` lists every component.  Left out:

* Text: regular expressions (scripts, secrets, SaaS names), parsing of JSON, YAML and
  lockfiles, validation schemas, the CVSS arithmetic of `enrich-osv/src/cvss.ts`.  They
  are sequential, refuse before anything is written, and their tests reach them; the
  models start from what was matched or parsed.
* Rendering: components, forms, styles, the markdown of the report, the order of rows.
* OIDC and the composite provider: verification of a signature by a library; what
  follows is the same `Principal`.
* Handlers that only read a list, and the list of tokens: one statement, bound to the
  tenant.
* Tenants in the repository and the queue: every statement and every Map is bound to one.
  They are there where they meet, in `ApiServer`.
* The development mode without a database, but for the in-memory queue and repository
  (`JobQueue`, `KeepsId`): its state dies with its one process.
* `stop()` of the worker: only tests call it.
* A page that is opened before the last run of a history begins (its lists are read while
  runs go on, but none begins any more).
* Skew between the clocks of processes.

## 7. Plan

All modules of section 2 are checked, and every safety invariant and action property of the
passing runs is proved; liveness stays with TLC.  What would add most is the
executions of `ScanPipeline`, statement by statement, in place of the transactions of
`ScanRuns`, pages that are opened before the last run begins, and clocks of their own for the
processes of `ScanWorker`.
