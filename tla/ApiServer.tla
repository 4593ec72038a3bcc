------------------------------ MODULE ApiServer -----------------------------
(***************************************************************************)
(* Requests to the API (server.ts, auth.ts) from its clients (the web      *)
(* application's lib/api.ts and the loop of the GitHub action), on the     *)
(* processes of Boot and the tables of tokens and jobs.                    *)
(*                                                                         *)
(* A request is authenticated in one statement and handled in others, and  *)
(* its process may die in between.  A caller has one call open at a time:  *)
(* a call to manage tokens is one request; a scan is submitted and then    *)
(* polled, each poll a request of its own on whatever process, until the   *)
(* job is settled, a request fails, or the polls are used up.              *)
(*                                                                         *)
(* What the workers do with a job meanwhile is JobLifecycle, which         *)
(* ScanWorker implements where runs keep their lease and acknowledgements  *)
(* are not lost, and beyond it what complete, fail and retry also allow,   *)
(* which look at neither the status nor the holder of the row: a run that  *)
(* outlived its lease, or was not told that its result is stored, writes a *)
(* settled job again.  Handlers that only read a list are left out.        *)
(***************************************************************************)
EXTENDS Boot, FiniteSets

CONSTANTS
  Callers,
  Managers,      \* the callers that manage tokens; the others scan
  Patient,       \* the callers that poll on whatever they are answered (action.yml)
  Fresh,         \* tokens generateRawToken can make
  MaxJobs,       \* bound on jobs
  MaxAttempts,   \* of a worker
  MaxPolls       \* pollMaxAttempts

Roles == {"admin", "analyst", "viewer"}

Tenants == {EnvPrincipal[t].tenant : t \in DOMAIN EnvPrincipal}

Hashes == DOMAIN EnvPrincipal \cup Fresh

ASSUME ApiAssumption ==
  /\ Fresh \cap DOMAIN EnvPrincipal = {}
  /\ Patient \cup Managers \subseteq Callers
  /\ MaxJobs \in Nat /\ MaxAttempts \in Nat /\ MaxPolls \in Nat

VARIABLES
  call,          \* caller -> its open call and the request it is at
  told,          \* caller -> the end of its job its last call was told of
  phase, tries,  \* the jobs, as JobLifecycle has them
  owner,         \* job -> tenant
  ended,         \* job -> the ends its row has said
  rewritten,     \* the jobs written again after an end
  issued         \* token of Fresh -> unmade, made, revoked (its revocation answered)

vars == <<boot, tokens, call, told, phase, tries, owner, ended, rewritten, issued>>

Jobs == 1..MaxJobs

Settled == {"succeeded", "failed"}

Lifecycle == INSTANCE JobLifecycle

jobs == <<phase, tries, owner, ended, rewritten>>

\* pc: no call; a request sent; authenticated; a revocation between its two
\* statements; all written, the answer on its way; between two polls.
NoCall == [pc |-> "none", op |-> "none", token |-> NoProc, arg |-> 0, polls |-> 0,
           at |-> NoProc, tenant |-> "none", role |-> "none"]

Nothing == [what |-> "nothing", job |-> 0]

Open(c) == call[c].pc # "none"

InFlight(c) == call[c].pc \in {"sent", "authenticated", "found", "answering"}

Call == [pc : {"none", "sent", "authenticated", "found", "answering", "ready"},
         op : {"none", "issue", "revoke", "submit", "poll"},
         token : Hashes \cup {NoProc}, arg : Hashes \cup Jobs \cup {0}, polls : 0..MaxPolls,
         at : Procs \cup {NoProc}, tenant : Tenants \cup {"none"}, role : Roles \cup {"none"}]

Outcome == [what : {"nothing"} \cup Settled, job : Hashes \cup Jobs \cup {0}]

TypeOK ==
  /\ BootTypeOK
  /\ call \in [Callers -> Call] /\ told \in [Callers -> Outcome]
  /\ \A t \in DOMAIN tokens : t \in Hashes /\ tokens[t].tenant \in Tenants
  /\ \A c \in Callers : InFlight(c) => call[c].at \in Procs /\ At(call[c].at, "serving")
  /\ phase \in [Jobs -> {"absent", "pending", "succeeded", "failed"}]
  /\ tries \in [Jobs -> Nat]
  /\ owner \in [Jobs -> Tenants \cup {"none"}]
  /\ ended \in [Jobs -> SUBSET Settled] /\ rewritten \subseteq Jobs
  /\ issued \in [Fresh -> {"unmade", "made", "revoked"}]

Init ==
  /\ BootInit
  /\ call = [c \in Callers |-> NoCall]
  /\ told = [c \in Callers |-> Nothing]
  /\ Lifecycle!Init
  /\ owner = [j \in Jobs |-> "none"]
  /\ ended = [j \in Jobs |-> {}] /\ rewritten = {}
  /\ issued = [t \in Fresh |-> "unmade"]

-----------------------------------------------------------------------------
(* A call and its end.                                                     *)

Serving == {p \in Procs : At(p, "serving")}

Sends(c, request) == call' = [call EXCEPT ![c] = request]

\* What ends a call: an answer, or an error of whatever code (toErrorState).
\* Only how a job ended is remembered.
Ends(c, what) ==
  /\ Sends(c, NoCall)
  /\ told' = [told EXCEPT ![c] = IF what \in Settled THEN [what |-> what, job |-> call[c].arg]
                                                     ELSE Nothing]

\* Between two requests a caller has its token and the job it asks for.
Waits(c, job, polls) ==
  Sends(c, [NoCall EXCEPT !.pc = "ready", !.op = "poll", !.token = call[c].token,
                          !.arg = job, !.polls = polls])

\* Mutant of Sleeps: the polls are not counted.
SleepsUncounted(c) ==
  /\ Waits(c, call[c].arg, call[c].polls)
  /\ UNCHANGED told

Sleeps(c) ==
  /\ Waits(c, call[c].arg, call[c].polls + 1)
  /\ UNCHANGED told

\* An answer that is no success: ApiClient throws; the action sees a status
\* that is neither of the two it knows and waits on.
Refused(c) ==
  IF call[c].op = "poll" /\ c \in Patient THEN Sleeps(c) ELSE Ends(c, "error")

\* To any process that serves; the token is one that somebody holds.
Asks(c, op, arg) ==
  /\ told' = [told EXCEPT ![c] = Nothing]
  /\ \E t \in DOMAIN EnvPrincipal \cup {f \in Fresh : issued[f] # "unmade"}, p \in Serving :
       Sends(c, [NoCall EXCEPT !.pc = "sent", !.op = op, !.arg = arg, !.token = t, !.at = p])

\* Fresh bounds how many tokens are issued.
Unmade == Cardinality({t \in Fresh : issued[t] = "unmade"})

BeginTokenCall(c) ==
  /\ ~Open(c)
  /\ c \in Managers
  /\ \/ Unmade > Cardinality({d \in Callers : call[d].op = "issue"}) /\ Asks(c, "issue", 0)
     \/ \E h \in Hashes : Asks(c, "revoke", h)
  /\ UNCHANGED <<boot, tokens, jobs, issued>>

\* Ids are handed out in order; one scan is submitted at a time, for MaxJobs.
NextJob == Cardinality({j \in Jobs : phase[j] # "absent"}) + 1

BeginScan(c) ==
  /\ ~Open(c)
  /\ c \notin Managers
  /\ NextJob \in Jobs
  /\ \A d \in Callers : call[d].op # "submit"
  /\ Asks(c, "submit", 0)
  /\ UNCHANGED <<boot, tokens, jobs, issued>>

Polls(c) ==
  /\ call[c].pc = "ready"
  /\ call[c].polls < MaxPolls
  /\ \E p \in Serving : Sends(c, [call[c] EXCEPT !.pc = "sent", !.at = p])
  /\ UNCHANGED <<boot, tokens, told, jobs, issued>>

\* Nobody listens: fetch rejects, and curl ends the action's script.
PollsInVain(c) ==
  /\ call[c].pc = "ready"
  /\ call[c].polls < MaxPolls
  /\ Serving = {}
  /\ Ends(c, "error")
  /\ UNCHANGED <<boot, tokens, jobs, issued>>

TimesOut(c) ==
  /\ call[c].pc = "ready"
  /\ call[c].polls = MaxPolls
  /\ Ends(c, "error")
  /\ UNCHANGED <<boot, tokens, jobs, issued>>

-----------------------------------------------------------------------------
(* What a process does with a request.                                     *)

\* DbAuthProvider: the row as it is now, and only with a role that is known.
Authenticate(c) ==
  /\ call[c].pc = "sent"
  /\ LET t == call[c].token IN
     IF t \in DOMAIN tokens /\ tokens[t].role \in Roles
     THEN /\ Sends(c, [call[c] EXCEPT !.pc = "authenticated",
                         !.tenant = tokens[t].tenant, !.role = tokens[t].role])
          /\ UNCHANGED told
     ELSE Refused(c)
  /\ UNCHANGED <<boot, tokens, jobs, issued>>

Handles(c, op, pc) == call[c].pc = pc /\ call[c].op = op

requireAdmin(c) == call[c].role = "admin"

requireWrite(c) == call[c].role \in {"admin", "analyst"}

\* The answer is on its way.
Returns(c) == Sends(c, [call[c] EXCEPT !.pc = "answering", !.tenant = "none", !.role = "none"])

Forbidden(c) ==
  /\ call[c].pc = "authenticated"
  /\ \/ call[c].op \in {"issue", "revoke"} /\ ~requireAdmin(c)
     \/ call[c].op = "submit" /\ ~requireWrite(c)
  /\ Ends(c, "error")
  /\ UNCHANGED <<boot, tokens, jobs, issued>>

\* 256 random bits: a token nobody has had before.
Issue(c) ==
  /\ Handles(c, "issue", "authenticated") /\ requireAdmin(c)
  /\ \E t \in Fresh, r \in Roles :
       /\ issued[t] = "unmade"
       /\ issued' = [issued EXCEPT ![t] = "made"]
       /\ upsertToken(t, [tenant |-> call[c].tenant, role |-> r])
  /\ Returns(c)
  /\ UNCHANGED <<boot, told, jobs>>

\* Mutant of RevokeFinds: the tenant of the row is not looked at.
RevokeFindsAny(c) ==
  /\ Handles(c, "revoke", "authenticated") /\ requireAdmin(c)
  /\ IF call[c].arg \in DOMAIN tokens
     THEN Sends(c, [call[c] EXCEPT !.pc = "found"]) /\ UNCHANGED told
     ELSE Ends(c, "error")
  /\ UNCHANGED <<boot, tokens, jobs, issued>>

RevokeFinds(c) ==
  /\ Handles(c, "revoke", "authenticated") /\ requireAdmin(c)
  /\ IF call[c].arg \in DOMAIN tokens /\ tokens[call[c].arg].tenant = call[c].tenant
     THEN Sends(c, [call[c] EXCEPT !.pc = "found"]) /\ UNCHANGED told
     ELSE Ends(c, "error")
  /\ UNCHANGED <<boot, tokens, jobs, issued>>

\* Mutant of RevokeDeletes: the row is deleted only if the token is not in use.
RevokeDeletesIdle(c) ==
  /\ Handles(c, "revoke", "found")
  /\ IF \E d \in Callers : call[d].token = call[c].arg
     THEN UNCHANGED tokens ELSE deleteToken(call[c].arg)
  /\ Returns(c)
  /\ UNCHANGED <<boot, told, jobs, issued>>

RevokeDeletes(c) ==
  /\ Handles(c, "revoke", "found")
  /\ deleteToken(call[c].arg)
  /\ Returns(c)
  /\ UNCHANGED <<boot, told, jobs, issued>>

enqueueScan(c) ==
  /\ Handles(c, "submit", "authenticated") /\ requireWrite(c)
  /\ Lifecycle!Submit(NextJob)
  /\ owner' = [owner EXCEPT ![NextJob] = call[c].tenant]
  /\ Sends(c, [call[c] EXCEPT !.pc = "answering", !.arg = NextJob])
  /\ UNCHANGED <<boot, tokens, told, ended, rewritten, issued>>

\* The answer arrives: a client that submitted goes on to poll its job.
Answers(c) ==
  /\ call[c].pc = "answering"
  /\ IF call[c].op = "submit"
     THEN Waits(c, call[c].arg, 0) /\ UNCHANGED told
     ELSE Ends(c, "done")
  /\ issued' = [t \in Fresh |-> IF call[c].op = "revoke" /\ call[c].arg = t
                                THEN "revoked" ELSE issued[t]]
  /\ UNCHANGED <<boot, tokens, jobs>>

\* Mutant of GetJob: a job that a worker has tried once is taken for done.
GetJobHasty(c) ==
  /\ Handles(c, "poll", "authenticated")
  /\ LET j == call[c].arg IN
     CASE owner[j] # call[c].tenant -> Refused(c)
       [] tries[j] > 0 -> Ends(c, "succeeded")
       [] OTHER -> Sleeps(c)
  /\ UNCHANGED <<boot, tokens, jobs, issued>>

GetJob(c) ==
  /\ Handles(c, "poll", "authenticated")
  /\ LET j == call[c].arg IN
     CASE owner[j] # call[c].tenant -> Refused(c)
       [] owner[j] = call[c].tenant /\ phase[j] \in Settled -> Ends(c, phase[j])
       [] OTHER -> Sleeps(c)
  /\ UNCHANGED <<boot, tokens, jobs, issued>>

CallStep(c) ==
  \/ Polls(c) \/ PollsInVain(c) \/ TimesOut(c)
  \/ Authenticate(c) \/ Forbidden(c) \/ Issue(c) \/ RevokeFinds(c) \/ RevokeDeletes(c)
  \/ enqueueScan(c) \/ Answers(c) \/ GetJob(c)

-----------------------------------------------------------------------------

\* The workers, which run in the processes that serve.
TriesOrSettles(j) ==
  /\ \/ Lifecycle!Try(j) /\ tries[j] < MaxAttempts
     \/ Lifecycle!Succeed(j) \/ Lifecycle!GiveUp(j)
  /\ UNCHANGED rewritten

\* A run whose job has ended otherwise completes it, or fails it if it was the
\* last, or has it tried again if not.
Rewrites(j) ==
  /\ phase[j] \in Settled
  /\ \E end \in {"succeeded", "failed", "pending"} \ {phase[j]} :
       /\ end = "failed" => tries[j] >= MaxAttempts
       /\ end = "pending" => MaxAttempts > 1
       /\ phase' = [phase EXCEPT ![j] = end]
  /\ rewritten' = rewritten \cup {j}
  /\ UNCHANGED tries

Works ==
  /\ Serving # {}
  /\ \E j \in Jobs : TriesOrSettles(j) \/ Rewrites(j)
  /\ ended' = [j \in Jobs |-> ended[j] \cup ({phase'[j]} \cap Settled)]
  /\ UNCHANGED <<boot, tokens, call, told, owner, issued>>

Boots(p) == BootStep(p) /\ UNCHANGED <<call, told, jobs, issued>>

\* The connections to the process break: to a client that is an error.
Dies(p) ==
  /\ Die(p)
  /\ LET cut == {c \in Callers : InFlight(c) /\ call[c].at = p} IN
     /\ call' = [c \in Callers |-> IF c \in cut THEN NoCall ELSE call[c]]
     /\ told' = [c \in Callers |-> IF c \in cut THEN Nothing ELSE told[c]]
  /\ UNCHANGED <<jobs, issued>>

Next ==
  \/ \E p \in Procs : Boots(p) \/ Dies(p)
  \/ \E c \in Callers : BeginTokenCall(c) \/ BeginScan(c) \/ CallStep(c)
  \/ Works

Spec == Init /\ [][Next]_vars

\* A process that is down is started again, and what runs goes on.
FairSpec ==
  /\ Spec
  /\ \A p \in Procs : WF_vars(Boots(p))
  /\ \A c \in Callers : WF_vars(CallStep(c))

-----------------------------------------------------------------------------

\* A token whose revocation was answered has no row, at whatever process and
\* after however many boots: no request is authenticated by it again.
RevokedStaysOut == \A t \in Fresh : issued[t] = "revoked" => t \notin DOMAIN tokens

\* "다른 테넌트의 토큰은 ... 폐기할 수 없다" (server.ts): a row is deleted only
\* by an administrator of the tenant that the row has when it is deleted,
\* although it was read in an earlier statement and seeded in between.
OnlyOwnTenant ==
  [][\A t \in DOMAIN tokens \ DOMAIN tokens' :
       \E c \in Callers : /\ call[c].arg = t /\ call[c].role = "admin"
                          /\ call[c].tenant = tokens[t].tenant]_vars

\* A client that was told how its job ended was told an end that the row of
\* the job had, and the job stays so unless a run wrote it again after it had
\* ended; it is told of a timeout or an error in any state of it.
ToldTheTruth ==
  \A c \in Callers : told[c].what \in Settled =>
    /\ told[c].what \in ended[told[c].job]
    /\ phase[told[c].job] = told[c].what \/ told[c].job \in rewritten

\* No call stays open, whatever process dies while it runs.
EveryCallEnds == \A c \in Callers : Open(c) ~> ~Open(c)
=============================================================================
