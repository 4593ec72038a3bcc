--------------------------- MODULE ApiServerProofs --------------------------
(***************************************************************************)
(* Boots, tokens and calls, for any processes, callers, tokens and         *)
(* migrations: the invariants of ApiServer and what a deletion may touch.  *)
(***************************************************************************)
EXTENDS ApiServer, TLAPS

\* A process that applies migrations is at one the schema has reached.
NoFileSkipped ==
  \A p \in Procs : At(p, "migrating") => proc[p].n <= applied

BootInv == BootTypeOK /\ MigrationsSerial /\ SchemaBeforeUse /\ NoFileSkipped

\* Only tokens whose revocation is not answered have a row, and the row of a
\* token of the environment says what the environment says.
TokensOK ==
  /\ \A t \in DOMAIN tokens : t \in Hashes /\ tokens[t].tenant \in Tenants
  /\ \A t \in DOMAIN tokens \cap DOMAIN EnvPrincipal : tokens[t] = EnvPrincipal[t]
  /\ \A t \in Fresh : issued[t] # "made" => t \notin DOMAIN tokens

\* Whoever deletes the row of t for the tenant will find it that tenant's.
OwnedBy(t, tenant) ==
  /\ t \in DOMAIN EnvPrincipal => EnvPrincipal[t].tenant = tenant
  /\ t \in Fresh => /\ issued[t] # "unmade"
                    /\ t \in DOMAIN tokens => tokens[t].tenant = tenant

\* What a call carries at each point of it.
RequestOK(c) ==
  /\ InFlight(c) => call[c].at \in Procs /\ At(call[c].at, "serving")
  /\ call[c].pc \in {"authenticated", "found"} =>
       call[c].tenant \in Tenants /\ call[c].role \in Roles
  /\ call[c].pc = "found" => call[c].op = "revoke"

RevocationOK(c) ==
  call[c].op = "revoke" =>
    /\ call[c].arg \in Hashes
    /\ call[c].pc = "found" => call[c].role = "admin" /\ OwnedBy(call[c].arg, call[c].tenant)
    /\ call[c].pc = "answering" /\ call[c].arg \in Fresh =>
         issued[call[c].arg] # "unmade" /\ call[c].arg \notin DOMAIN tokens

SubmissionOK(c) ==
  call[c].op = "submit" =>
    /\ call[c].pc \in {"sent", "authenticated", "answering"}
    /\ call[c].pc = "answering" => call[c].arg \in Jobs
    /\ call[c].pc # "answering" => NextJob \in Jobs

PollOK(c) ==
  /\ call[c].pc = "ready" => call[c].op = "poll"
  /\ call[c].op = "poll" => call[c].arg \in Jobs
  /\ call[c].op = "poll" /\ InFlight(c) => call[c].polls < MaxPolls

CallOK(c) == RequestOK(c) /\ RevocationOK(c) /\ SubmissionOK(c) /\ PollOK(c)

ToldOK(c) ==
  told[c].what \in Settled =>
    /\ told[c].job \in Jobs
    /\ told[c].what \in ended[told[c].job]
    /\ phase[told[c].job] = told[c].what \/ told[c].job \in rewritten

OneSubmits == \A c, d \in Callers : call[c].op = "submit" /\ call[d].op = "submit" => c = d

JobsTyped ==
  /\ phase \in [Jobs -> {"absent", "pending", "succeeded", "failed"}]
  /\ tries \in [Jobs -> Nat]
  /\ owner \in [Jobs -> Tenants \cup {"none"}]
  /\ ended \in [Jobs -> SUBSET Settled] /\ rewritten \subseteq Jobs
  /\ \A j \in Jobs : phase[j] \in Settled => phase[j] \in ended[j]

ApiInv ==
  /\ BootInv /\ TokensOK /\ JobsTyped
  /\ issued \in [Fresh -> {"unmade", "made", "revoked"}]
  /\ call \in [Callers -> Call] /\ told \in [Callers -> Outcome]
  /\ \A c \in Callers : CallOK(c) /\ ToldOK(c)
  /\ OneSubmits

\* No end of a job is forgotten, and none is undone but by a run that writes
\* the job again.
NoEndUndone ==
  /\ rewritten \subseteq rewritten'
  /\ \A j \in Jobs : /\ ended[j] \subseteq ended'[j]
                     /\ phase[j] \in Settled => phase'[j] = phase[j] \/ j \in rewritten'

-----------------------------------------------------------------------------
(* Boots.                                                                  *)

LEMMA BootStart == BootInit => BootInv
<1> SUFFICES ASSUME BootInit PROVE BootInv
  OBVIOUS
<1>1. BootTypeOK
  BY BootAssumption DEF BootInit, BootTypeOK, Stages
<1>2. MigrationsSerial /\ SchemaBeforeUse /\ NoFileSkipped
  BY BootAssumption DEF BootInit, MigrationsSerial, SchemaBeforeUse, NoFileSkipped, At
<1> QED BY <1>1, <1>2 DEF BootInv

\* A move changes the place of one process.
LEMMA Moves ==
  ASSUME BootTypeOK, NEW p \in Procs, NEW stage \in Stages, NEW n \in Nat, Move(p, stage, n)
  PROVE  /\ proc' \in [Procs -> [pc : Stages, n : Nat]]
         /\ proc'[p].pc = stage /\ proc'[p].n = n
         /\ \A q \in Procs : q # p => proc'[q] = proc[q]
<1> DEFINE r == [pc |-> stage, n |-> n]
<1>1. r \in [pc : Stages, n : Nat] /\ r.pc = stage /\ r.n = n
  OBVIOUS
<1> HIDE DEF r
<1>2. proc' = [proc EXCEPT ![p] = r]
  BY DEF Move, r
<1> QED BY <1>1, <1>2 DEF BootTypeOK

\* Every step of a boot, and a death, keeps the lock with who applies
\* migrations and the schema complete for who serves.
LEMMA BootStepKeeps ==
  ASSUME BootInv, NEW p \in Procs, BootStep(p) \/ Die(p)
  PROVE  BootInv'
<1> USE DEF BootInv, At
<1>0. /\ \A s \in {"down", "locking", "migrating", "seeding", "serving"} : s \in Stages
      /\ 0 \in Nat /\ proc[p].n \in Nat /\ proc[p].n + 1 \in Nat
  BY DEF Stages, BootTypeOK
<1>1. CASE Start(p)
  <2>1. Move(p, "locking", 0)
    BY <1>1 DEF Start
  <2>2. /\ proc' \in [Procs -> [pc : Stages, n : Nat]] /\ proc'[p].pc = "locking"
        /\ \A q \in Procs : q # p => proc'[q] = proc[q]
    BY <1>0, <2>1, Moves
  <2> QED BY <1>1, <2>2 DEF Start, BootTypeOK, MigrationsSerial, SchemaBeforeUse, NoFileSkipped
<1>2. CASE TakeLock(p)
  <2>1. Move(p, "migrating", 0)
    BY <1>2 DEF TakeLock
  <2>2. /\ proc' \in [Procs -> [pc : Stages, n : Nat]]
        /\ proc'[p].pc = "migrating" /\ proc'[p].n = 0
        /\ \A q \in Procs : q # p => proc'[q] = proc[q]
    BY <1>0, <2>1, Moves
  <2>3. \A q \in Procs : ~At(q, "migrating")
    BY <1>2, BootAssumption DEF TakeLock, MigrationsSerial
  <2> QED BY <1>2, <2>2, <2>3
          DEF TakeLock, BootTypeOK, MigrationsSerial, SchemaBeforeUse, NoFileSkipped
<1>3. CASE ApplyFile(p)
  <2>1. Move(p, "migrating", proc[p].n + 1)
    BY <1>3 DEF ApplyFile
  <2>2. /\ proc' \in [Procs -> [pc : Stages, n : Nat]]
        /\ proc'[p].pc = "migrating" /\ proc'[p].n = proc[p].n + 1
        /\ \A q \in Procs : q # p => proc'[q] = proc[q]
    BY <1>0, <2>1, Moves
  <2>3. /\ applied' \in 0..Files /\ applied <= applied' /\ proc[p].n + 1 <= applied'
        /\ applied = Files => applied' = Files
    BY <1>0, <1>3, BootAssumption DEF ApplyFile, BootTypeOK, NoFileSkipped
  <2>4. BootTypeOK' /\ MigrationsSerial'
    BY <1>3, <2>2, <2>3 DEF ApplyFile, BootTypeOK, MigrationsSerial
  <2>5. SchemaBeforeUse'
    BY <2>2, <2>3 DEF SchemaBeforeUse
  <2>6. NoFileSkipped'
    BY <1>3, <2>2, <2>3 DEF ApplyFile, MigrationsSerial, NoFileSkipped
  <2> QED BY <2>4, <2>5, <2>6
<1>4. CASE Unlock(p)
  <2>1. Move(p, "seeding", 0) /\ lock' = NoProc /\ lock = p
    BY <1>4 DEF Unlock, Free, MigrationsSerial
  <2>2. /\ proc' \in [Procs -> [pc : Stages, n : Nat]] /\ proc'[p].pc = "seeding"
        /\ \A q \in Procs : q # p => proc'[q] = proc[q]
    BY <1>0, <2>1, Moves
  <2>3. applied = Files
    BY <1>4, BootAssumption DEF Unlock, NoFileSkipped, BootTypeOK
  <2> QED BY <1>4, <2>1, <2>2, <2>3, BootAssumption
          DEF Unlock, BootTypeOK, MigrationsSerial, SchemaBeforeUse, NoFileSkipped
<1>5. CASE Seed(p)
  <2>1. Move(p, "seeding", proc[p].n + 1)
    BY <1>5 DEF Seed
  <2>2. /\ proc' \in [Procs -> [pc : Stages, n : Nat]] /\ proc'[p].pc = "seeding"
        /\ \A q \in Procs : q # p => proc'[q] = proc[q]
    BY <1>0, <2>1, Moves
  <2> QED BY <1>5, <2>2 DEF Seed, BootTypeOK, MigrationsSerial, SchemaBeforeUse, NoFileSkipped
<1>6. CASE Listen(p)
  <2>1. Move(p, "serving", 0)
    BY <1>6 DEF Listen
  <2>2. /\ proc' \in [Procs -> [pc : Stages, n : Nat]] /\ proc'[p].pc = "serving"
        /\ \A q \in Procs : q # p => proc'[q] = proc[q]
    BY <1>0, <2>1, Moves
  <2> QED BY <1>6, <2>2 DEF Listen, BootTypeOK, MigrationsSerial, SchemaBeforeUse, NoFileSkipped
<1>7. CASE Die(p)
  <2>1. Move(p, "down", 0) /\ lock' = IF lock = p THEN NoProc ELSE lock
    BY <1>7 DEF Die, Free
  <2>2. /\ proc' \in [Procs -> [pc : Stages, n : Nat]] /\ proc'[p].pc = "down"
        /\ \A q \in Procs : q # p => proc'[q] = proc[q]
    BY <1>0, <2>1, Moves
  <2>3. applied' = applied /\ crashes' \in 0..MaxCrashes
    BY <1>7, BootAssumption DEF Die, BootTypeOK
  <2>4. BootTypeOK' /\ MigrationsSerial'
    BY <2>1, <2>2, <2>3, BootAssumption DEF BootTypeOK, MigrationsSerial
  <2> QED BY <2>2, <2>3, <2>4 DEF SchemaBeforeUse, NoFileSkipped
<1> QED BY <1>1, <1>2, <1>3, <1>4, <1>5, <1>6, <1>7 DEF BootStep

\* A step of a boot takes no process out of service.
LEMMA BootKeepsServing ==
  ASSUME BootInv, NEW p \in Procs, BootStep(p), NEW q \in Procs, At(q, "serving")
  PROVE  At(q, "serving")'
<1>1. p # q
  BY DEF BootStep, Start, TakeLock, ApplyFile, Unlock, Seed, Listen, At
<1>2. \E s, n : Move(p, s, n)
  BY DEF BootStep, Start, TakeLock, ApplyFile, Unlock, Seed, Listen
<1> QED BY <1>1, <1>2 DEF Move, At, BootInv, BootTypeOK

LEMMA BootStutter == BootInv /\ UNCHANGED boot => BootInv'
BY DEF BootInv, boot, BootTypeOK, MigrationsSerial, SchemaBeforeUse, NoFileSkipped, At

-----------------------------------------------------------------------------
(* What a step may change under a call that does not take it.              *)

\* No process leaves service, no token is unmade or made again, no row of a
\* made token is written, and the number of jobs is the same.
Undisturbed(c) ==
  /\ \A p \in Procs : At(p, "serving") => At(p, "serving")'
  /\ \A t \in Fresh : issued[t] # "unmade" =>
       /\ issued'[t] # "unmade"
       /\ t \in DOMAIN tokens' => t \in DOMAIN tokens /\ tokens'[t] = tokens[t]
  /\ call[c].op = "submit" => NextJob' = NextJob

\* A call stays sound while others step.
LEMMA Bystander ==
  ASSUME NEW c \in Callers, CallOK(c), call'[c] = call[c], Undisturbed(c)
  PROVE  CallOK(c)'
<1>1. RequestOK(c)'
  BY DEF CallOK, RequestOK, InFlight, Undisturbed
<1>2. RevocationOK(c)'
  BY DEF CallOK, RevocationOK, OwnedBy, Undisturbed
<1>3. SubmissionOK(c)'
  BY DEF CallOK, SubmissionOK, Undisturbed
<1>4. PollOK(c)'
  BY DEF CallOK, PollOK, InFlight
<1> QED BY <1>1, <1>2, <1>3, <1>4 DEF CallOK

\* A step that writes calls and outcomes only, or takes note of a revocation.
Quiet ==
  /\ UNCHANGED <<boot, tokens, jobs>>
  /\ issued' \in [Fresh -> {"unmade", "made", "revoked"}]
  /\ \A t \in Fresh : /\ issued[t] # "unmade" => issued'[t] # "unmade"
                      /\ issued'[t] # "made" => t \notin DOMAIN tokens

LEMMA QuietDisturbsNobody ==
  ASSUME Quiet, NEW c \in Callers
  PROVE  Undisturbed(c)
<1>1. NextJob' = NextJob
  BY DEF Quiet, jobs, NextJob
<1> QED BY <1>1 DEF Quiet, Undisturbed, boot, At

LEMMA UnchangedIsQuiet ==
  ASSUME ApiInv, UNCHANGED <<boot, tokens, jobs, issued>>
  PROVE  Quiet
BY DEF ApiInv, TokensOK, Quiet

\* The next job has the same number while the same jobs are absent.
LEMMA SameNextJob ==
  ASSUME \A j \in Jobs : phase'[j] = "absent" <=> phase[j] = "absent"
  PROVE  NextJob' = NextJob
<1>1. {j \in Jobs : phase'[j] # "absent"} = {j \in Jobs : phase[j] # "absent"}
  OBVIOUS
<1> QED BY <1>1 DEF NextJob, Jobs

\* A quiet step that writes one call and one outcome.
LEMMA CallOnly ==
  ASSUME ApiInv, Quiet, NEW c \in Callers, NEW r \in Call, Sends(c, r),
         CallOK(c)', told' \in [Callers -> Outcome], ToldOK(c)',
         \A d \in Callers : d # c => told'[d] = told[d],
         r.op = "submit" => \A d \in Callers : d # c => call[d].op # "submit"
  PROVE  ApiInv'
<1>1. /\ call' \in [Callers -> Call] /\ call'[c] = r
      /\ \A d \in Callers : d # c => call'[d] = call[d]
  BY DEF Sends, ApiInv
<1>2. ASSUME NEW d \in Callers PROVE CallOK(d)' /\ ToldOK(d)'
  <2>1. CASE d = c
    BY <2>1
  <2>2. CASE d # c
    <3>1. CallOK(d)'
      BY <1>1, <2>2, QuietDisturbsNobody, Bystander DEF ApiInv
    <3>2. ToldOK(d)'
      BY <2>2 DEF ApiInv, ToldOK, Quiet, jobs
    <3> QED BY <3>1, <3>2
  <2> QED BY <2>1, <2>2
<1>3. BootInv' /\ issued' \in [Fresh -> {"unmade", "made", "revoked"}]
  BY BootStutter DEF ApiInv, Quiet
<1>4. TokensOK' /\ JobsTyped'
  BY DEF ApiInv, TokensOK, JobsTyped, Quiet, jobs
<1>5. OneSubmits'
  BY <1>1 DEF ApiInv, OneSubmits
<1> QED BY <1>1, <1>2, <1>3, <1>4, <1>5 DEF ApiInv

\* A call that ends, told of a job only if the job is so.
LEMMA EndsKeeps ==
  ASSUME ApiInv, Quiet, NEW c \in Callers, NEW what \in {"done", "error", "succeeded", "failed"},
         Ends(c, what),
         what \in Settled => call[c].arg \in Jobs /\ phase[call[c].arg] = what
  PROVE  ApiInv'
<1>1. NoCall \in Call /\ NoCall.op = "none" /\ NoCall.pc = "none"
  BY ApiAssumption DEF NoCall, Call
<1>2. Sends(c, NoCall) /\ call'[c] = NoCall
  BY DEF Ends, Sends, ApiInv
<1>3. CallOK(c)'
  BY <1>1, <1>2 DEF CallOK, RequestOK, RevocationOK, SubmissionOK, PollOK, InFlight
<1> DEFINE o == IF what \in Settled THEN [what |-> what, job |-> call[c].arg] ELSE Nothing
<1>4. /\ o \in Outcome /\ o.what \in {what, "nothing"}
      /\ o.what \in Settled => o.what = what /\ what \in Settled /\ o.job = call[c].arg
  BY DEF Outcome, Settled, Nothing
<1>5. told' = [told EXCEPT ![c] = o]
  BY DEF Ends
<1> HIDE DEF o
<1>6. /\ told' \in [Callers -> Outcome] /\ told'[c] = o
      /\ \A d \in Callers : d # c => told'[d] = told[d]
  BY <1>4, <1>5 DEF ApiInv
<1>7. ToldOK(c)'
  BY <1>4, <1>6 DEF ToldOK, Quiet, jobs, ApiInv, JobsTyped
<1> QED BY <1>1, <1>2, <1>3, <1>6, <1>7, CallOnly

\* A caller that waits with a job that exists.
LEMMA WaitsKeeps ==
  ASSUME ApiInv, Quiet, NEW c \in Callers, NEW job \in Jobs,
         NEW polls \in 0..MaxPolls, Waits(c, job, polls), UNCHANGED told
  PROVE  ApiInv'
<1> DEFINE r == [NoCall EXCEPT !.pc = "ready", !.op = "poll", !.token = call[c].token,
                               !.arg = job, !.polls = polls]
<1>1. call[c].token \in Hashes \cup {NoProc}
  BY DEF ApiInv, Call
<1>2. r \in Call /\ r.op = "poll" /\ r.pc = "ready" /\ r.arg = job
  BY <1>1 DEF NoCall, Call
<1>3. Sends(c, r)
  BY DEF Waits
<1> HIDE DEF r
<1>4. call'[c] = r
  BY <1>3 DEF Sends, ApiInv
<1>5. CallOK(c)'
  BY <1>2, <1>4 DEF CallOK, RequestOK, RevocationOK, SubmissionOK, PollOK, InFlight
<1>6. told' \in [Callers -> Outcome] /\ ToldOK(c)'
  BY DEF ApiInv, ToldOK, Quiet, jobs
<1> QED BY <1>2, <1>3, <1>5, <1>6, CallOnly

\* A request that goes on, as r.
LEMMA RequestKeeps ==
  ASSUME ApiInv, Quiet, NEW c \in Callers, NEW r \in Call, Sends(c, r), UNCHANGED told,
         r.op = call[c].op,
         call'[c] = r => CallOK(c)'
  PROVE  ApiInv'
<1>1. call'[c] = r
  BY DEF Sends, ApiInv
<1>2. told' \in [Callers -> Outcome] /\ ToldOK(c)'
  BY DEF ApiInv, ToldOK, Quiet, jobs
<1>3. r.op = "submit" => \A d \in Callers : d # c => call[d].op # "submit"
  BY DEF ApiInv, OneSubmits
<1> QED BY <1>1, <1>2, <1>3, CallOnly

\* What a caller sends.
Request(op, arg, t, p) ==
  [NoCall EXCEPT !.pc = "sent", !.op = op, !.arg = arg, !.token = t, !.at = p]

\* It is a call.
LEMMA SentIsCall ==
  ASSUME NEW op \in {"issue", "revoke", "submit"}, NEW arg \in Hashes \cup {0},
         NEW t \in Hashes, NEW p \in Procs
  PROVE  LET r == Request(op, arg, t, p)
         IN  r \in Call /\ r.pc = "sent" /\ r.op = op /\ r.arg = arg /\ r.at = p
<1> DEFINE Tokens == Hashes \cup {NoProc}
           Args == Hashes \cup Jobs \cup {0}
           Polled == 0..MaxPolls
           Places == Procs \cup {NoProc}
           Owners == Tenants \cup {"none"}
           Parts == Roles \cup {"none"}
<1>1. /\ t \in Tokens /\ NoProc \in Tokens /\ arg \in Args /\ 0 \in Args /\ 0 \in Polled
      /\ p \in Places /\ NoProc \in Places /\ "none" \in Owners /\ "none" \in Parts
  BY ApiAssumption
<1>2. Call = [pc : {"none", "sent", "authenticated", "found", "answering", "ready"},
              op : {"none", "issue", "revoke", "submit", "poll"},
              token : Tokens, arg : Args, polls : Polled, at : Places, tenant : Owners, role : Parts]
  BY DEF Call
<1> HIDE DEF Tokens, Args, Polled, Places, Owners, Parts
<1>3. Request(op, arg, t, p) \in Call
  BY <1>1, <1>2 DEF NoCall, Request
<1>4. LET r == Request(op, arg, t, p)
      IN  r.pc = "sent" /\ r.op = op /\ r.arg = arg /\ r.at = p
  BY DEF NoCall, Request
<1> QED BY <1>3, <1>4

LEMMA AsksKeeps ==
  ASSUME ApiInv, Quiet, NEW c \in Callers, NEW op \in {"issue", "revoke", "submit"},
         NEW arg \in Hashes \cup {0}, Asks(c, op, arg),
         op = "revoke" => arg \in Hashes,
         op = "submit" => NextJob \in Jobs /\ \A d \in Callers : call[d].op # "submit"
  PROVE  ApiInv'
<1>1. PICK t \in Hashes, p \in Serving : Sends(c, Request(op, arg, t, p))
  BY DEF Asks, Hashes, Request
<1> DEFINE r == Request(op, arg, t, p)
<1>2. r \in Call /\ r.pc = "sent" /\ r.op = op /\ r.arg = arg /\ r.at = p
  <2>1. p \in Procs
    BY DEF Serving
  <2> QED BY <2>1, SentIsCall
<1>3. Sends(c, r)
  BY <1>1
<1> HIDE DEF r
<1>4. call'[c] = r
  BY <1>3 DEF Sends, ApiInv
<1>5. NextJob' = NextJob /\ At(p, "serving")' /\ p \in Procs
  BY DEF Quiet, jobs, NextJob, Serving, boot, At
<1>6. CallOK(c)'
  <2>1. RequestOK(c)' /\ PollOK(c)'
    BY <1>2, <1>4, <1>5 DEF RequestOK, PollOK, InFlight
  <2>2. RevocationOK(c)'
    BY <1>2, <1>4 DEF RevocationOK
  <2>3. SubmissionOK(c)'
    BY <1>2, <1>4, <1>5 DEF SubmissionOK
  <2> QED BY <2>1, <2>2, <2>3 DEF CallOK
<1>7. Nothing \in Outcome /\ Nothing.what = "nothing"
  BY DEF Nothing, Outcome
<1>8. /\ told' \in [Callers -> Outcome] /\ told'[c] = Nothing
      /\ \A d \in Callers : d # c => told'[d] = told[d]
  BY <1>7 DEF Asks, ApiInv
<1>9. ToldOK(c)'
  BY <1>7, <1>8 DEF ToldOK, Settled
<1> QED BY <1>2, <1>3, <1>6, <1>8, <1>9, CallOnly

LEMMA SleepsKeeps ==
  ASSUME ApiInv, Quiet, NEW c \in Callers, call[c].op = "poll", InFlight(c), Sleeps(c)
  PROVE  ApiInv'
<1>1. call[c].arg \in Jobs /\ call[c].polls < MaxPolls
  BY DEF ApiInv, CallOK, PollOK
<1>2. call[c].polls + 1 \in 0..MaxPolls
  BY <1>1, ApiAssumption DEF ApiInv, Call
<1>3. Waits(c, call[c].arg, call[c].polls + 1) /\ UNCHANGED told
  BY DEF Sleeps
<1> QED BY <1>1, <1>2, <1>3, WaitsKeeps

LEMMA RefusedKeeps ==
  ASSUME ApiInv, Quiet, NEW c \in Callers, InFlight(c), Refused(c)
  PROVE  ApiInv'
BY SleepsKeeps, EndsKeeps DEF Refused, Settled

\* The steps of a caller between its requests.
LEMMA CallerKeeps ==
  ASSUME ApiInv, NEW c \in Callers,
         \/ BeginTokenCall(c) \/ BeginScan(c)
         \/ Polls(c) \/ PollsInVain(c) \/ TimesOut(c)
  PROVE  ApiInv'
<1>0. Quiet
  BY UnchangedIsQuiet
     DEF BeginTokenCall, BeginScan, Polls, PollsInVain, TimesOut
<1>1. CASE BeginTokenCall(c)
  <2>1. \/ Asks(c, "issue", 0)
        \/ \E h \in Hashes : Asks(c, "revoke", h)
    BY <1>1 DEF BeginTokenCall
  <2>2. CASE Asks(c, "issue", 0)
    BY <1>0, <2>2, AsksKeeps
  <2>3. ASSUME NEW h \in Hashes, Asks(c, "revoke", h) PROVE ApiInv'
    BY <1>0, <2>3, AsksKeeps
  <2> QED BY <2>1, <2>2, <2>3
<1>2. CASE BeginScan(c)
  BY <1>0, <1>2, AsksKeeps DEF BeginScan
<1>3. CASE Polls(c)
  <2>1. PICK p \in Serving : Sends(c, [call[c] EXCEPT !.pc = "sent", !.at = p])
    BY <1>3 DEF Polls
  <2> DEFINE r == [call[c] EXCEPT !.pc = "sent", !.at = p]
  <2>2. /\ r \in Call /\ r.op = "poll" /\ r.pc = "sent" /\ r.at = p
        /\ r.arg \in Jobs /\ r.polls < MaxPolls
    BY <1>3 DEF Polls, ApiInv, CallOK, PollOK, Call, Serving
  <2>3. Sends(c, r) /\ call[c].op = "poll"
    BY <1>3, <2>1 DEF Polls, ApiInv, CallOK, PollOK
  <2> HIDE DEF r
  <2>4. p \in Procs /\ At(p, "serving")'
    BY <1>0 DEF Quiet, boot, Serving, At
  <2>5. call'[c] = r => CallOK(c)'
    BY <2>2, <2>4 DEF CallOK, RequestOK, RevocationOK, SubmissionOK, PollOK, InFlight
  <2> QED BY <1>0, <1>3, <2>2, <2>3, <2>5, RequestKeeps DEF Polls
<1>4. CASE PollsInVain(c) \/ TimesOut(c)
  BY <1>0, <1>4, EndsKeeps DEF Settled, PollsInVain, TimesOut
<1> QED BY <1>1, <1>2, <1>3, <1>4

-----------------------------------------------------------------------------
(* The steps of a process with a request.                                  *)

\* A step with one request that writes tokens or jobs too, but disturbs no
\* other call and no job that is settled.
LEMMA HandlerKeeps ==
  ASSUME ApiInv, NEW c \in Callers, NEW r \in Call, Sends(c, r), UNCHANGED told,
         r.op = call[c].op, CallOK(c)',
         BootInv', TokensOK', JobsTyped', issued' \in [Fresh -> {"unmade", "made", "revoked"}],
         \A d \in Callers : d # c => Undisturbed(d),
         NoEndUndone
  PROVE  ApiInv'
<1>1. /\ call' \in [Callers -> Call] /\ call'[c] = r
      /\ \A d \in Callers : d # c => call'[d] = call[d]
  BY DEF Sends, ApiInv
<1>2. ASSUME NEW d \in Callers PROVE CallOK(d)'
  <2>1. CASE d = c
    BY <2>1
  <2>2. CASE d # c
    BY <1>1, <2>2, Bystander DEF ApiInv
  <2> QED BY <2>1, <2>2
<1>3. \A d \in Callers : ToldOK(d)'
  BY DEF ApiInv, ToldOK, NoEndUndone
<1>4. OneSubmits' /\ told' \in [Callers -> Outcome]
  BY <1>1 DEF ApiInv, OneSubmits
<1> QED BY <1>1, <1>2, <1>3, <1>4 DEF ApiInv

LEMMA AuthenticateKeeps ==
  ASSUME ApiInv, NEW c \in Callers, Authenticate(c)
  PROVE  ApiInv'
<1>1. Quiet /\ InFlight(c)
  BY UnchangedIsQuiet DEF Authenticate, InFlight
<1>2. CASE Refused(c)
  BY <1>1, <1>2, RefusedKeeps
<1>3. CASE ~Refused(c)
  <2> DEFINE tenant == tokens[call[c].token].tenant
             role == tokens[call[c].token].role
             r == [call[c] EXCEPT !.pc = "authenticated", !.tenant = tenant, !.role = role]
  <2>1. Sends(c, r) /\ UNCHANGED told /\ call[c].token \in DOMAIN tokens /\ role \in Roles
    BY <1>3 DEF Authenticate
  <2>2. tenant \in Tenants /\ call[c] \in Call
    BY <2>1 DEF ApiInv, TokensOK
  <2> HIDE DEF tenant, role
  <2>3. /\ r \in Call /\ r.pc = "authenticated" /\ r.at = call[c].at /\ r.op = call[c].op
        /\ r.arg = call[c].arg /\ r.polls = call[c].polls
        /\ r.tenant \in Tenants /\ r.role \in Roles
    BY <2>1, <2>2 DEF Call
  <2> HIDE DEF r
  <2>4. CallOK(c) /\ call[c].pc = "sent"
    BY DEF ApiInv, Authenticate
  <2>5. ASSUME call'[c] = r PROVE CallOK(c)'
    <3>1. RequestOK(c)'
      BY <1>1, <2>3, <2>4, <2>5 DEF CallOK, RequestOK, InFlight, Quiet, boot, At
    <3>2. RevocationOK(c)'
      BY <2>3, <2>4, <2>5 DEF CallOK, RevocationOK
    <3>3. SubmissionOK(c)' /\ PollOK(c)'
      BY <1>1, <2>3, <2>4, <2>5
         DEF CallOK, SubmissionOK, PollOK, InFlight, Quiet, jobs, NextJob
    <3> QED BY <3>1, <3>2, <3>3 DEF CallOK
  <2> QED BY <1>1, <2>1, <2>3, <2>5, RequestKeeps
<1> QED BY <1>2, <1>3

LEMMA RevokeFindsKeeps ==
  ASSUME ApiInv, NEW c \in Callers, RevokeFinds(c)
  PROVE  ApiInv'
<1>1. Quiet
  BY UnchangedIsQuiet DEF RevokeFinds
<1>2. CASE Ends(c, "error")
  BY <1>1, <1>2, EndsKeeps DEF Settled
<1>3. CASE ~Ends(c, "error")
  <2> DEFINE r == [call[c] EXCEPT !.pc = "found"]
             t == call[c].arg
  <2>1. /\ Sends(c, r) /\ UNCHANGED told /\ call[c].op = "revoke" /\ call[c].role = "admin"
        /\ call[c].pc = "authenticated" /\ t \in DOMAIN tokens /\ tokens[t].tenant = call[c].tenant
    BY <1>3 DEF RevokeFinds, Handles, requireAdmin
  <2>2. /\ r \in Call /\ r.pc = "found" /\ r.at = call[c].at /\ r.op = "revoke"
        /\ r.arg = t /\ r.role = "admin" /\ r.tenant = call[c].tenant
    BY <2>1 DEF ApiInv, Call
  <2> HIDE DEF r
  <2>3. CallOK(c) /\ t \in Hashes
    BY <2>1 DEF ApiInv, CallOK, RevocationOK
  <2>4. /\ t \in DOMAIN EnvPrincipal => EnvPrincipal[t].tenant = r.tenant
        /\ t \in Fresh => issued'[t] # "unmade" /\ tokens'[t].tenant = r.tenant
    BY <1>1, <2>1, <2>2 DEF ApiInv, TokensOK, Quiet
  <2>5. ASSUME call'[c] = r PROVE CallOK(c)'
    <3>1. RequestOK(c)'
      BY <1>1, <2>1, <2>2, <2>3, <2>5 DEF CallOK, RequestOK, InFlight, Quiet, boot, At
    <3>2. RevocationOK(c)'
      BY <2>2, <2>3, <2>4, <2>5 DEF RevocationOK, OwnedBy
    <3>3. SubmissionOK(c)' /\ PollOK(c)'
      BY <2>2, <2>5 DEF SubmissionOK, PollOK
    <3> QED BY <3>1, <3>2, <3>3 DEF CallOK
  <2> QED BY <1>1, <2>1, <2>2, <2>5, RequestKeeps
<1> QED BY <1>2, <1>3

LEMMA GetJobKeeps ==
  ASSUME ApiInv, NEW c \in Callers, GetJob(c)
  PROVE  ApiInv'
<1>1. Quiet /\ InFlight(c) /\ call[c].op = "poll" /\ call[c].arg \in Jobs
  BY UnchangedIsQuiet DEF GetJob, Handles, InFlight, ApiInv, CallOK, PollOK
<1>2. \/ Refused(c)
      \/ phase[call[c].arg] \in Settled /\ Ends(c, phase[call[c].arg])
      \/ Sleeps(c)
  BY DEF GetJob
<1> QED BY <1>1, <1>2, RefusedKeeps, EndsKeeps, SleepsKeeps DEF Settled

\* The answer is on its way: where what was asked for is done, the call is sound.
LEMMA ReturnsSound ==
  ASSUME ApiInv, NEW c \in Callers, InFlight(c), Returns(c), UNCHANGED boot,
         call[c].op \in {"issue", "revoke"},
         call[c].op = "revoke" /\ call[c].arg \in Fresh =>
           issued'[call[c].arg] # "unmade" /\ call[c].arg \notin DOMAIN tokens'
  PROVE  \E r \in Call : Sends(c, r) /\ r.op = call[c].op /\ CallOK(c)'
<1> DEFINE r == [call[c] EXCEPT !.pc = "answering", !.tenant = "none", !.role = "none"]
<1>1. call[c] \in Call /\ CallOK(c)
  BY DEF ApiInv
<1>2. /\ r \in Call /\ r.pc = "answering" /\ r.op = call[c].op /\ r.arg = call[c].arg
      /\ r.at = call[c].at
  BY <1>1 DEF Call
<1>3. Sends(c, r)
  BY DEF Returns
<1> HIDE DEF r
<1>4. call'[c] = r
  BY <1>3 DEF Sends, ApiInv
<1>5. RequestOK(c)'
  BY <1>1, <1>2, <1>4 DEF CallOK, RequestOK, InFlight, boot, At
<1>6. RevocationOK(c)'
  BY <1>1, <1>2, <1>4 DEF CallOK, RevocationOK
<1>7. SubmissionOK(c)' /\ PollOK(c)'
  BY <1>2, <1>4 DEF SubmissionOK, PollOK
<1> QED BY <1>2, <1>3, <1>5, <1>6, <1>7 DEF CallOK

\* A row for a token that nobody had disturbs no call.
LEMMA IssueKeeps ==
  ASSUME ApiInv, NEW c \in Callers, Issue(c)
  PROVE  ApiInv'
<1>1. PICK t \in Fresh, r \in Roles :
        /\ issued[t] = "unmade" /\ issued' = [issued EXCEPT ![t] = "made"]
        /\ upsertToken(t, [tenant |-> call[c].tenant, role |-> r])
  BY DEF Issue
<1>2. /\ Returns(c) /\ UNCHANGED <<boot, told, jobs>> /\ call[c].op = "issue"
      /\ call[c].pc = "authenticated" /\ InFlight(c)
  BY DEF Issue, Handles, InFlight
<1>3. /\ issued' \in [Fresh -> {"unmade", "made", "revoked"}] /\ issued'[t] = "made"
      /\ \A u \in Fresh : u # t => issued'[u] = issued[u]
  BY <1>1 DEF ApiInv
<1>4. /\ DOMAIN tokens' = DOMAIN tokens \cup {t} /\ tokens'[t].tenant = call[c].tenant
      /\ \A u \in DOMAIN tokens : u # t => tokens'[u] = tokens[u]
  BY <1>1 DEF upsertToken
<1>5. PICK q \in Call : Sends(c, q) /\ q.op = call[c].op /\ CallOK(c)'
  BY <1>2, ReturnsSound
<1>6. BootInv' /\ JobsTyped'
  BY <1>2, BootStutter DEF ApiInv, JobsTyped, jobs
<1>7. TokensOK'
  <2>1. call[c].tenant \in Tenants /\ t \in Hashes /\ t \notin DOMAIN EnvPrincipal
    BY <1>2, ApiAssumption DEF ApiInv, CallOK, RequestOK, Hashes
  <2>2. \A u \in DOMAIN tokens' : u \in Hashes /\ tokens'[u].tenant \in Tenants
    BY <1>4, <2>1 DEF ApiInv, TokensOK
  <2>3. \A u \in DOMAIN tokens' \cap DOMAIN EnvPrincipal : tokens'[u] = EnvPrincipal[u]
    BY <1>4, <2>1 DEF ApiInv, TokensOK
  <2>4. \A u \in Fresh : issued'[u] # "made" => u \notin DOMAIN tokens'
    BY <1>3, <1>4 DEF ApiInv, TokensOK
  <2> QED BY <2>2, <2>3, <2>4 DEF TokensOK
<1>8. ASSUME NEW d \in Callers PROVE Undisturbed(d)
  <2>1. NextJob' = NextJob
    BY <1>2, SameNextJob DEF jobs
  <2>2. \A u \in Fresh : issued[u] # "unmade" =>
          /\ issued'[u] # "unmade"
          /\ u \in DOMAIN tokens' => u \in DOMAIN tokens /\ tokens'[u] = tokens[u]
    BY <1>1, <1>3, <1>4
  <2> QED BY <1>2, <2>1, <2>2 DEF Undisturbed, boot, At
<1>9. NoEndUndone
  BY <1>2 DEF jobs, NoEndUndone
<1> QED BY <1>2, <1>3, <1>5, <1>6, <1>7, <1>8, <1>9, HandlerKeeps

LEMMA RevokeDeletesKeeps ==
  ASSUME ApiInv, NEW c \in Callers, RevokeDeletes(c)
  PROVE  ApiInv'
<1>1. /\ Returns(c) /\ UNCHANGED <<boot, told, jobs, issued>> /\ call[c].op = "revoke"
      /\ call[c].pc = "found" /\ InFlight(c)
  BY DEF RevokeDeletes, Handles, InFlight
<1>2. /\ DOMAIN tokens' = DOMAIN tokens \ {call[c].arg}
      /\ \A u \in DOMAIN tokens' : tokens'[u] = tokens[u]
  BY DEF RevokeDeletes, deleteToken
<1>3. OwnedBy(call[c].arg, call[c].tenant)
  BY <1>1 DEF ApiInv, CallOK, RevocationOK
<1>4. PICK q \in Call : Sends(c, q) /\ q.op = call[c].op /\ CallOK(c)'
  BY <1>1, <1>2, <1>3, ReturnsSound DEF OwnedBy
<1>5. BootInv' /\ JobsTyped' /\ issued' \in [Fresh -> {"unmade", "made", "revoked"}]
  BY <1>1, BootStutter DEF ApiInv, JobsTyped, jobs
<1>6. TokensOK'
  BY <1>1, <1>2 DEF ApiInv, TokensOK
<1>7. ASSUME NEW d \in Callers PROVE Undisturbed(d)
  <2>1. NextJob' = NextJob
    BY <1>1, SameNextJob DEF jobs
  <2> QED BY <1>1, <1>2, <2>1 DEF Undisturbed, boot, At
<1>8. NoEndUndone
  BY <1>1 DEF jobs, NoEndUndone
<1> QED BY <1>1, <1>4, <1>5, <1>6, <1>7, <1>8, HandlerKeeps

\* One submission at a time: the job that is created was the next one.
LEMMA EnqueueKeeps ==
  ASSUME ApiInv, NEW c \in Callers, enqueueScan(c)
  PROVE  ApiInv'
<1> DEFINE r == [call[c] EXCEPT !.pc = "answering", !.arg = NextJob]
<1>1. /\ UNCHANGED <<boot, tokens, told, issued>> /\ call[c].op = "submit"
      /\ call[c].pc = "authenticated" /\ InFlight(c) /\ Sends(c, r)
  BY DEF enqueueScan, Handles, InFlight
<1>2. CallOK(c) /\ call[c] \in Call /\ NextJob \in Jobs /\ call[c].tenant \in Tenants
  BY <1>1 DEF ApiInv, CallOK, SubmissionOK, RequestOK
<1>3. /\ r \in Call /\ r.pc = "answering" /\ r.op = "submit" /\ r.arg = NextJob
      /\ r.at = call[c].at
  BY <1>1, <1>2 DEF Call
<1> HIDE DEF r
<1>4. call'[c] = r
  BY <1>1 DEF Sends, ApiInv
<1>5. CallOK(c)'
  <2>1. RequestOK(c)'
    BY <1>1, <1>2, <1>3, <1>4 DEF CallOK, RequestOK, InFlight, boot, At
  <2>2. SubmissionOK(c)'
    BY <1>2, <1>3, <1>4 DEF SubmissionOK, Jobs
  <2>3. RevocationOK(c)' /\ PollOK(c)'
    BY <1>3, <1>4 DEF RevocationOK, PollOK
  <2> QED BY <2>1, <2>2, <2>3 DEF CallOK
<1>6. Lifecycle!Submit(NextJob) /\ owner' = [owner EXCEPT ![NextJob] = call[c].tenant]
  BY DEF enqueueScan
<1>7. JobsTyped' /\ NoEndUndone
  <2>1. UNCHANGED <<tries, ended, rewritten>>
    BY <1>6 DEF enqueueScan, Lifecycle!Submit
  <2>2. /\ phase' = [phase EXCEPT ![NextJob] = "pending"] /\ phase[NextJob] = "absent"
        /\ NextJob \in Jobs
    BY <1>2, <1>6 DEF Lifecycle!Submit
  <2> QED BY <1>2, <1>6, <2>1, <2>2 DEF ApiInv, JobsTyped, NoEndUndone, Settled
<1>8. BootInv' /\ TokensOK' /\ issued' \in [Fresh -> {"unmade", "made", "revoked"}]
  BY <1>1, BootStutter DEF ApiInv, TokensOK
<1>9. \A d \in Callers : d # c => Undisturbed(d)
  BY <1>1 DEF ApiInv, OneSubmits, Undisturbed, boot, At
<1> QED BY <1>1, <1>3, <1>5, <1>7, <1>8, <1>9, HandlerKeeps

\* A revocation is answered when its row is gone.
LEMMA AnswersKeeps ==
  ASSUME ApiInv, NEW c \in Callers, Answers(c)
  PROVE  ApiInv'
<1>1. CallOK(c) /\ TokensOK /\ call[c].pc = "answering"
  BY DEF ApiInv, Answers
<1>2. Quiet
  <2>1. issued' \in [Fresh -> {"unmade", "made", "revoked"}]
    BY DEF Answers, ApiInv
  <2>2. ASSUME NEW t \in Fresh
        PROVE  /\ issued[t] # "unmade" => issued'[t] # "unmade"
               /\ issued'[t] # "made" => t \notin DOMAIN tokens
    BY <1>1 DEF Answers, CallOK, RevocationOK, TokensOK
  <2> QED BY <2>1, <2>2 DEF Quiet, Answers, jobs
<1>3. CASE call[c].op = "submit"
  <2>1. Waits(c, call[c].arg, 0) /\ UNCHANGED told
    BY <1>3 DEF Answers
  <2>2. call[c].arg \in Jobs /\ 0 \in 0..MaxPolls
    BY <1>1, <1>3, ApiAssumption DEF CallOK, SubmissionOK
  <2> QED BY <1>2, <2>1, <2>2, WaitsKeeps
<1>4. CASE call[c].op # "submit"
  BY <1>2, <1>4, EndsKeeps DEF Answers, Settled
<1> QED BY <1>3, <1>4

-----------------------------------------------------------------------------
(* The steps of no caller.                                                 *)

\* A step that writes no call and no outcome.
LEMMA AroundCalls ==
  ASSUME ApiInv, UNCHANGED <<call, told>>,
         BootInv', TokensOK', JobsTyped', issued' \in [Fresh -> {"unmade", "made", "revoked"}],
         \A c \in Callers : Undisturbed(c),
         NoEndUndone
  PROVE  ApiInv'
<1>1. \A c \in Callers : CallOK(c)'
  BY Bystander DEF ApiInv
<1>2. \A c \in Callers : ToldOK(c)'
  BY DEF ApiInv, ToldOK, NoEndUndone
<1> QED BY <1>1, <1>2 DEF ApiInv, OneSubmits

LEMMA WorksKeeps == ASSUME ApiInv, Works PROVE ApiInv'
<1>1. PICK j \in Jobs : TriesOrSettles(j) \/ Rewrites(j)
  BY DEF Works
<1> DEFINE All == {"absent", "pending", "succeeded", "failed"}
           Noted == [i \in Jobs |-> ended[i] \cup ({phase'[i]} \cap Settled)]
<1>0. UNCHANGED owner /\ ended' = Noted
  BY DEF Works
<1>2. /\ JobsTyped' /\ NoEndUndone
      /\ \A i \in Jobs : phase'[i] = "absent" <=> phase[i] = "absent"
  <2>1. /\ phase' \in [Jobs -> All] /\ tries' \in [Jobs -> Nat]
        /\ rewritten \subseteq rewritten' /\ rewritten' \subseteq Jobs
        /\ \A i \in Jobs : /\ phase'[i] = "absent" <=> phase[i] = "absent"
                           /\ phase[i] \in Settled => phase'[i] = phase[i] \/ i \in rewritten'
    <3>1. CASE Lifecycle!Try(j) /\ UNCHANGED rewritten
      BY <3>1 DEF ApiInv, JobsTyped, Lifecycle!Try
    <3>2. CASE Lifecycle!Succeed(j) /\ UNCHANGED rewritten
      BY <3>2 DEF ApiInv, JobsTyped, Lifecycle!Succeed, Settled
    <3>3. CASE Lifecycle!GiveUp(j) /\ UNCHANGED rewritten
      BY <3>3 DEF ApiInv, JobsTyped, Lifecycle!GiveUp, Settled
    <3>4. CASE Rewrites(j)
      <4>1. PICK end \in {"succeeded", "failed", "pending"} : phase' = [phase EXCEPT ![j] = end]
        BY <3>4 DEF Rewrites
      <4> QED BY <3>4, <4>1 DEF Rewrites, ApiInv, JobsTyped, Settled
    <3> QED BY <1>1, <3>1, <3>2, <3>3, <3>4 DEF TriesOrSettles
  <2>2. \A i \in Jobs : ended'[i] = ended[i] \cup ({phase'[i]} \cap Settled)
    BY <1>0
  <2>3. ended' \in [Jobs -> SUBSET Settled]
    BY <1>0 DEF ApiInv, JobsTyped
  <2>4. JobsTyped'
    BY <1>0, <2>1, <2>2, <2>3 DEF ApiInv, JobsTyped
  <2> QED BY <2>1, <2>2, <2>4 DEF NoEndUndone
<1>3. UNCHANGED <<boot, tokens, call, told, issued>>
  BY DEF Works
<1>4. BootInv' /\ TokensOK' /\ issued' \in [Fresh -> {"unmade", "made", "revoked"}]
  BY <1>3, BootStutter DEF ApiInv, TokensOK
<1>5. NextJob' = NextJob
  BY <1>2, SameNextJob
<1>6. \A c \in Callers : Undisturbed(c)
  BY <1>3, <1>5 DEF Undisturbed, boot, At
<1> QED BY <1>2, <1>3, <1>4, <1>6, AroundCalls

\* Seeding writes rows of the environment only, and always the same.
LEMMA BootSeeds ==
  ASSUME BootInv, NEW p \in Procs, BootStep(p)
  PROVE  \/ UNCHANGED tokens
         \/ \E t \in DOMAIN EnvPrincipal : upsertToken(t, EnvPrincipal[t])
<1>1. CASE Seed(p)
  <2>1. proc[p].n \in Nat
    BY DEF BootInv, BootTypeOK
  <2>2. proc[p].n + 1 \in 1..Len(EnvTokens)
    BY <1>1, <2>1, BootAssumption DEF Seed
  <2>3. EnvTokens[proc[p].n + 1] \in DOMAIN EnvPrincipal
    BY <2>2, BootAssumption
  <2> QED BY <1>1, <2>3 DEF Seed
<1>2. CASE ~Seed(p)
  BY <1>2 DEF BootStep, Start, TakeLock, ApplyFile, Unlock, Listen
<1> QED BY <1>1, <1>2

LEMMA BootsKeeps == ASSUME ApiInv, NEW p \in Procs, Boots(p) PROVE ApiInv'
<1>1. BootStep(p) /\ UNCHANGED <<call, told, jobs, issued>> /\ BootInv
  BY DEF Boots, ApiInv
<1>2. BootInv'
  BY <1>1, BootStepKeeps
<1> DEFINE Seeded ==
      \A t \in DOMAIN tokens' :
        /\ t \in DOMAIN tokens \/ t \in DOMAIN EnvPrincipal
        /\ tokens'[t] = IF t \in DOMAIN EnvPrincipal THEN EnvPrincipal[t] ELSE tokens[t]
<1>3. Seeded
  <2>1. CASE UNCHANGED tokens
    BY <2>1 DEF ApiInv, TokensOK
  <2>2. ASSUME NEW t \in DOMAIN EnvPrincipal, upsertToken(t, EnvPrincipal[t])
        PROVE  Seeded
    <3>1. /\ DOMAIN tokens' = DOMAIN tokens \cup {t} /\ tokens'[t] = EnvPrincipal[t]
          /\ \A u \in DOMAIN tokens : u # t => tokens'[u] = tokens[u]
      BY <2>2 DEF upsertToken
    <3> QED BY <3>1 DEF ApiInv, TokensOK
  <2> QED BY <1>1, <2>1, <2>2, BootSeeds
<1>4. TokensOK'
  BY <1>1, <1>3, ApiAssumption DEF ApiInv, TokensOK, Hashes, Tenants
<1>5. JobsTyped' /\ issued' \in [Fresh -> {"unmade", "made", "revoked"}]
  BY <1>1 DEF ApiInv, JobsTyped, jobs
<1>6. ASSUME NEW c \in Callers PROVE Undisturbed(c)
  <2>1. NextJob' = NextJob
    BY <1>1, SameNextJob DEF jobs
  <2>2. \A q \in Procs : At(q, "serving") => At(q, "serving")'
    BY <1>1, BootKeepsServing
  <2> QED BY <1>1, <1>3, <2>1, <2>2, ApiAssumption DEF Undisturbed
<1>7. NoEndUndone
  BY <1>1 DEF jobs, NoEndUndone
<1> QED BY <1>1, <1>2, <1>4, <1>5, <1>6, <1>7, AroundCalls

\* A death cuts the requests of its process, and no others.
LEMMA DiesKeeps == ASSUME ApiInv, NEW p \in Procs, Dies(p) PROVE ApiInv'
<1> DEFINE Cut(c) == InFlight(c) /\ call[c].at = p
<1>1. /\ Die(p) /\ UNCHANGED <<tokens, jobs, issued>>
      /\ call' = [c \in Callers |-> IF Cut(c) THEN NoCall ELSE call[c]]
      /\ told' = [c \in Callers |-> IF Cut(c) THEN Nothing ELSE told[c]]
  BY DEF Dies, Die
<1>2. NoCall \in Call /\ NoCall.op = "none" /\ NoCall.pc = "none"
  BY ApiAssumption DEF NoCall, Call
<1>3. Nothing \in Outcome /\ Nothing.what \notin Settled
  BY DEF Outcome, Nothing, Settled
<1>4. call' \in [Callers -> Call] /\ told' \in [Callers -> Outcome]
  BY <1>1, <1>2, <1>3 DEF ApiInv
<1>5. BootInv' /\ TokensOK' /\ JobsTyped' /\ issued' \in [Fresh -> {"unmade", "made", "revoked"}]
  BY <1>1, BootStepKeeps DEF ApiInv, TokensOK, JobsTyped, jobs
<1>6. \A q \in Procs : q # p => proc'[q] = proc[q]
  BY <1>1 DEF Die, Move, ApiInv, BootInv, BootTypeOK
<1>7. NextJob' = NextJob
  BY <1>1, SameNextJob DEF jobs
<1>8. ASSUME NEW c \in Callers PROVE CallOK(c)' /\ ToldOK(c)'
  <2>1. CASE Cut(c)
    BY <1>1, <1>2, <1>3, <2>1
       DEF CallOK, RequestOK, RevocationOK, SubmissionOK, PollOK, InFlight, ToldOK
  <2>2. CASE ~Cut(c)
    <3>1. call'[c] = call[c] /\ told'[c] = told[c] /\ CallOK(c) /\ ToldOK(c)
      BY <1>1, <2>2 DEF ApiInv
    <3>2. RequestOK(c)'
      BY <1>6, <2>2, <3>1 DEF CallOK, RequestOK, InFlight, At
    <3>3. RevocationOK(c)' /\ ToldOK(c)'
      BY <1>1, <3>1 DEF CallOK, RevocationOK, OwnedBy, ToldOK, jobs
    <3>4. SubmissionOK(c)' /\ PollOK(c)'
      BY <1>7, <3>1 DEF CallOK, SubmissionOK, PollOK, InFlight
    <3> QED BY <3>2, <3>3, <3>4 DEF CallOK
  <2> QED BY <2>1, <2>2
<1>9. OneSubmits'
  BY <1>1, <1>2 DEF ApiInv, OneSubmits
<1> QED BY <1>4, <1>5, <1>8, <1>9 DEF ApiInv

-----------------------------------------------------------------------------
(* The invariant, and what follows from it.                                *)

LEMMA ApiStart == Init => ApiInv
<1> SUFFICES ASSUME Init PROVE ApiInv
  OBVIOUS
<1>1. BootInv
  BY BootStart DEF Init
<1>2. NoCall \in Call /\ NoCall.op = "none" /\ NoCall.pc = "none"
  BY ApiAssumption DEF NoCall, Call
<1>3. Nothing \in Outcome /\ Nothing.what = "nothing"
  BY DEF Nothing, Outcome
<1>4. TokensOK
  BY DEF Init, BootInit, TokensOK
<1>5. JobsTyped /\ issued \in [Fresh -> {"unmade", "made", "revoked"}]
  BY DEF Init, Lifecycle!Init, JobsTyped, Settled
<1>6. call \in [Callers -> Call] /\ told \in [Callers -> Outcome]
  BY <1>2, <1>3 DEF Init
<1>7. \A c \in Callers : call[c] = NoCall /\ told[c] = Nothing
  BY DEF Init
<1>8. \A c \in Callers : CallOK(c) /\ ToldOK(c)
  BY <1>2, <1>3, <1>7
     DEF CallOK, RequestOK, RevocationOK, SubmissionOK, PollOK, InFlight, ToldOK, Settled
<1>9. OneSubmits
  BY <1>2, <1>7 DEF OneSubmits
<1> QED BY <1>1, <1>4, <1>5, <1>6, <1>8, <1>9 DEF ApiInv

LEMMA ForbiddenKeeps ==
  ASSUME ApiInv, NEW c \in Callers, Forbidden(c)
  PROVE  ApiInv'
BY UnchangedIsQuiet, EndsKeeps DEF Forbidden, Settled

LEMMA ApiStep == ApiInv /\ [Next]_vars => ApiInv'
<1> SUFFICES ASSUME ApiInv, [Next]_vars PROVE ApiInv'
  OBVIOUS
<1>1. ASSUME NEW p \in Procs, Boots(p) \/ Dies(p) PROVE ApiInv'
  BY <1>1, BootsKeeps, DiesKeeps
<1>2. ASSUME NEW c \in Callers, BeginTokenCall(c) \/ BeginScan(c) \/ CallStep(c) PROVE ApiInv'
  BY <1>2, CallerKeeps, AuthenticateKeeps, ForbiddenKeeps, IssueKeeps, RevokeFindsKeeps,
     RevokeDeletesKeeps, EnqueueKeeps, AnswersKeeps, GetJobKeeps
     DEF CallStep
<1>3. CASE Works
  BY <1>3, WorksKeeps
<1>4. CASE UNCHANGED vars
  <2>1. UNCHANGED <<boot, tokens, call, told, jobs, issued>>
    BY <1>4 DEF vars, jobs
  <2>2. BootInv' /\ TokensOK' /\ JobsTyped' /\ issued' \in [Fresh -> {"unmade", "made", "revoked"}]
    BY <2>1, BootStutter DEF ApiInv, TokensOK, JobsTyped, jobs
  <2>3. \A c \in Callers : Undisturbed(c)
    BY <2>1, UnchangedIsQuiet, QuietDisturbsNobody
  <2>4. NoEndUndone
    BY <2>1 DEF jobs, NoEndUndone
  <2> QED BY <2>1, <2>2, <2>3, <2>4, AroundCalls
<1> QED BY <1>1, <1>2, <1>3, <1>4 DEF Next

\* The invariant holds in every state, for any processes, callers and tokens.
THEOREM Invariance == Spec => []ApiInv
BY ApiStart, ApiStep, PTL DEF Spec

\* The state keeps its types.
THEOREM TypeCorrect == Spec => []TypeOK
<1>1. ApiInv => TypeOK
  BY DEF ApiInv, TypeOK, BootInv, TokensOK, JobsTyped, CallOK, RequestOK
<1> QED BY <1>1, Invariance, PTL

\* However many processes boot and die, no two apply migrations at a time, and
\* the lock is never left behind.
THEOREM OneMigratesAtATime == Spec => []MigrationsSerial
<1>1. ApiInv => MigrationsSerial
  BY DEF ApiInv, BootInv
<1> QED BY <1>1, Invariance, PTL

\* Whoever died while applying them, nobody uses a table before every
\* migration is applied.
THEOREM SchemaIsThere == Spec => []SchemaBeforeUse
<1>1. ApiInv => SchemaBeforeUse
  BY DEF ApiInv, BootInv
<1> QED BY <1>1, Invariance, PTL

\* An issued token whose revocation was answered never has a row again,
\* whatever requests overlap and whatever boots seed.
THEOREM RevokedTokensStayOut == Spec => []RevokedStaysOut
<1>1. ApiInv => RevokedStaysOut
  BY DEF ApiInv, TokensOK, RevokedStaysOut
<1> QED BY <1>1, Invariance, PTL

\* What a client was told of a job is an end that its row had, whatever runs
\* wrote it again; and where none did, it is how the job is now.
THEOREM ClientsAreToldTheTruth == Spec => []ToldTheTruth
<1>1. ApiInv => ToldTheTruth
  BY DEF ApiInv, ToldOK, ToldTheTruth
<1> QED BY <1>1, Invariance, PTL

\* A row is deleted only by an administrator of the tenant it has then, although
\* two statements and any number of seeds lie between the check and the delete.
THEOREM OnlyOwnTenantsTokensGo == Spec => OnlyOwnTenant
<1> DEFINE Fit == \A t \in DOMAIN tokens \ DOMAIN tokens' :
                    \E c \in Callers : /\ call[c].arg = t /\ call[c].role = "admin"
                                       /\ call[c].tenant = tokens[t].tenant
<1>1. ASSUME ApiInv, [Next]_vars PROVE Fit
  <2>1. ASSUME NEW c \in Callers, RevokeDeletes(c) PROVE Fit
    <3>1. DOMAIN tokens' = DOMAIN tokens \ {call[c].arg}
      BY <2>1 DEF RevokeDeletes, deleteToken
    <3>2. /\ call[c].role = "admin" /\ call[c].arg \in Hashes
          /\ OwnedBy(call[c].arg, call[c].tenant)
      BY <1>1, <2>1 DEF RevokeDeletes, Handles, ApiInv, CallOK, RevocationOK
    <3>3. call[c].arg \in DOMAIN tokens => tokens[call[c].arg].tenant = call[c].tenant
      BY <1>1, <3>2 DEF OwnedBy, Hashes, ApiInv, TokensOK
    <3> QED BY <3>1, <3>2, <3>3
  <2>2. CASE ~\E c \in Callers : RevokeDeletes(c)
    <3>1. DOMAIN tokens \subseteq DOMAIN tokens'
      <4>1. ASSUME NEW c \in Callers, Issue(c) PROVE DOMAIN tokens \subseteq DOMAIN tokens'
        BY <4>1 DEF Issue, upsertToken
      <4>2. ASSUME NEW p \in Procs, Boots(p) PROVE DOMAIN tokens \subseteq DOMAIN tokens'
        BY <1>1, <4>2, BootSeeds DEF Boots, ApiInv, upsertToken
      <4>3. ASSUME NEW p \in Procs, Dies(p) PROVE UNCHANGED tokens
        BY <4>3 DEF Dies, Die
      <4>4. ASSUME NEW c \in Callers, CallStep(c), ~Issue(c) PROVE UNCHANGED tokens
        BY <2>2, <4>4 DEF CallStep, Polls, PollsInVain, TimesOut, Authenticate, Forbidden,
           RevokeFinds, enqueueScan, Answers, GetJob
      <4>5. ASSUME NEW c \in Callers, BeginTokenCall(c) \/ BeginScan(c) PROVE UNCHANGED tokens
        BY <4>5 DEF BeginTokenCall, BeginScan
      <4>6. CASE Works \/ UNCHANGED vars
        BY <4>6 DEF Works, vars
      <4> QED BY <1>1, <4>1, <4>2, <4>3, <4>4, <4>5, <4>6 DEF Next
    <3> QED BY <3>1
  <2> QED BY <2>1, <2>2
<1>2. ApiInv /\ [Next]_vars => [Fit]_vars
  BY <1>1
<1> QED BY <1>2, Invariance, PTL DEF Spec, OnlyOwnTenant
=============================================================================
