----------------------------- MODULE ActiveScan -----------------------------
(***************************************************************************)
(* scanUrl and activeScanUrl of connector-web, await by await: the TXT     *)
(* records of the host asked for, the page (which a redirect may take from *)
(* another host), its certificate, and then, only for a verified owner,    *)
(* the search of that page for secrets, the log of certificates, all       *)
(* candidates at once, and one after another the hosts that may be taken   *)
(* over.  What others answer is arbitrary, and no answer is owed; a call   *)
(* ends otherwise only by its own timer.  A redirect of the probe of a     *)
(* host that may be taken over is left out: it changes the body answered.  *)
(***************************************************************************)
EXTENDS SiteAnalysis

CONSTANTS
  Inputs,          \* what a user may ask for: a scheme or none, host, path
  Pages,           \* what a web server may answer
  Certs,           \* what a TLS peer may show
  Payloads,        \* what the log of certificates may answer
  Wordlist,        \* COMMON_SUBDOMAINS
  MaxCandidates    \* DEFAULT_MAX_CANDIDATES

ASSUME ScanAssumption == MaxCandidates \in Nat \ {0} /\ Wordlist \in Seq(Labels)

\* Hosts are hosts, what a page or the log lists are lists.
ASSUME WorldAssumption ==
  /\ \A i \in Inputs : i.host \in Host
  /\ \A p \in Pages : p.tags \in Seq(Tag) /\ p.secrets \in Seq(Secret)
  /\ \A c \in Certs : c.authorized \in BOOLEAN /\ c.weak \in BOOLEAN
  /\ \A p \in Payloads : p \in Seq([host : Host, plain : BOOLEAN])

VARIABLES
  pc,              \* the await the scan is at
  active,          \* activeScanUrl, or scanUrl
  target,          \* the normalised URL
  owned,           \* the hosts whose TXT records hold the tenant's token
  verified,        \* what verifyOwnership answered
  probe,           \* SiteProbe
  searched,        \* the hosts whose page was searched for secrets
  candidates,      \* hosts to resolve
  resolved,        \* their places -> resolution, as far as answered
  bodies           \* the answers of takeoverProbe, in order

vars == <<pc, active, target, owned, verified, probe, searched, candidates, resolved, bodies>>

TlsInfo == [known : BOOLEAN, expired : BOOLEAN, authorized : BOOLEAN, weak : BOOLEAN]

NoTls == [known |-> FALSE, expired |-> FALSE, authorized |-> FALSE, weak |-> FALSE]

NoPage == [finalUrl |-> [https |-> FALSE, host |-> [domain |-> "", labels |-> <<>>], path |-> FALSE],
           headers |-> {}, tags |-> <<>>, secrets |-> <<>>]

NoProbe == [page |-> NoPage, tls |-> NoTls]

Ended == pc \in {"returned", "thrown"}

TypeOK ==
  /\ pc \in {"ownership", "fetch", "body", "tls", "log", "resolve", "takeover",
             "returned", "thrown"}
  /\ active \in BOOLEAN /\ verified \in BOOLEAN
  /\ target \in {normalizeUrl(i) : i \in Inputs}
  /\ owned \subseteq {i.host : i \in Inputs}
  /\ probe \in [page : Pages \cup {NoPage}, tls : TlsInfo]
  /\ searched \subseteq {p.finalUrl.host : p \in Pages \cup {NoPage}}
  /\ Len(candidates) <= MaxCandidates
  /\ DOMAIN resolved \subseteq 1..Len(candidates)
  /\ \A i \in DOMAIN resolved : resolved[i] \in Resolution
  /\ bodies \in Seq({"marker", "other", "null"})

Init ==
  /\ active \in BOOLEAN
  /\ target \in {normalizeUrl(i) : i \in Inputs}
  /\ owned \in SUBSET {i.host : i \in Inputs}
  /\ pc = IF active THEN "ownership" ELSE "fetch"
  /\ verified = FALSE
  /\ probe = NoProbe
  /\ searched = {}
  /\ candidates = <<>>
  /\ resolved = <<>>
  /\ bodies = <<>>

-----------------------------------------------------------------------------

Goto(step) == pc' = step

Kept == UNCHANGED <<active, target, owned>>

\* A lookup that fails is an owner that is not verified.
OwnershipAnswered ==
  /\ pc = "ownership"
  /\ verified' \in {FALSE, target.host \in owned}
  /\ Goto("fetch")
  /\ Kept /\ UNCHANGED <<probe, searched, candidates, resolved, bodies>>

\* The headers are there, and the timer is cleared.
HeadersArrive ==
  /\ pc = "fetch"
  /\ \E p \in Pages : probe' = [page |-> p, tls |-> NoTls]
  /\ Goto("body")
  /\ Kept /\ UNCHANGED <<verified, searched, candidates, resolved, bodies>>

Throw ==
  /\ Goto("thrown")
  /\ Kept /\ UNCHANGED <<verified, probe, searched, candidates, resolved, bodies>>

\* The timer, or a refused connection.
FetchAborts == pc = "fetch" /\ Throw

\* Mutant of AfterProbe: every active scan goes on.
AfterProbeUnverified == IF active THEN "log" ELSE "returned"

AfterProbe == IF active /\ verified THEN "log" ELSE "returned"

\* After the page: the gate of the active part, and behind it the search of
\* the page that came, from whatever host.
ProbeDone ==
  /\ Goto(AfterProbe)
  /\ searched' = IF AfterProbe = "log" THEN {probe.page.finalUrl.host} ELSE {}

\* Only a page that came over https is asked for its certificate.
BodyArrives ==
  /\ pc = "body"
  /\ IF probe.page.finalUrl.https THEN Goto("tls") /\ UNCHANGED searched ELSE ProbeDone
  /\ Kept /\ UNCHANGED <<verified, probe, candidates, resolved, bodies>>

BodyBreaks == pc = "body" /\ Throw

ProbeEnds(tls) ==
  /\ pc = "tls"
  /\ probe' = [probe EXCEPT !.tls = tls]
  /\ ProbeDone
  /\ Kept /\ UNCHANGED <<verified, candidates, resolved, bodies>>

\* toTlsInfo: a certificate without an end is no information; one whose end
\* cannot be read counts as ending today.
HandshakeAnswers ==
  \E cert \in Certs :
    ProbeEnds(IF cert.validTo = "missing" THEN NoTls
              ELSE [known |-> TRUE, expired |-> cert.validTo = "past",
                    authorized |-> cert.authorized, weak |-> cert.weak])

\* Mutant of HandshakeTimesOut: destroying the socket resolves nothing.
HandshakeUnheard == FALSE

\* An error of the socket, or its timer.
HandshakeTimesOut == ProbeEnds(NoTls)

LogEnds(names) ==
  /\ pc = "log"
  /\ candidates' = candidatesOf(Wordlist, target.host, names, MaxCandidates)
  /\ Goto(IF candidates' = <<>> THEN "returned" ELSE "resolve")
  /\ Kept /\ UNCHANGED <<verified, probe, searched, resolved, bodies>>

LogAnswers == \E p \in Payloads : LogEnds(parseCrtShNames(p, target.host))

LogTimesOut == LogEnds(<<>>)

\* One of the look-ups that run at once is answered; defaultResolveHost takes
\* every failure for an absent record.
HostResolved(i) ==
  /\ pc = "resolve"
  /\ i \in (1..Len(candidates)) \ DOMAIN resolved
  /\ \E r \in Resolution :
       LET all == [j \in DOMAIN resolved \cup {i} |-> IF j = i THEN r ELSE resolved[j]]
       IN  /\ resolved' = all
           /\ Goto(IF DOMAIN all # 1..Len(candidates) THEN "resolve"
                   ELSE IF Suspects(all) = <<>> THEN "returned" ELSE "takeover")
  /\ Kept /\ UNCHANGED <<verified, probe, searched, candidates, bodies>>

TakeoverProbed(body) ==
  /\ pc = "takeover"
  /\ bodies' = Append(bodies, body)
  /\ Goto(IF Len(bodies') = Len(Suspects(resolved)) THEN "returned" ELSE "takeover")
  /\ Kept /\ UNCHANGED <<verified, probe, searched, candidates, resolved>>

TakeoverAnswers == \E body \in {"marker", "other"} : TakeoverProbed(body)

TakeoverTimesOut == TakeoverProbed("null")

\* The calls with a timer of their own, and the resolver, which has one.
TimesOut ==
  \/ OwnershipAnswered
  \/ FetchAborts
  \/ HandshakeTimesOut
  \/ LogTimesOut
  \/ \E i \in 1..MaxCandidates : HostResolved(i)
  \/ TakeoverTimesOut

Answers ==
  \/ HeadersArrive
  \/ BodyArrives \/ BodyBreaks
  \/ HandshakeAnswers
  \/ LogAnswers
  \/ TakeoverAnswers

Next == TimesOut \/ Answers

Spec == Init /\ [][Next]_vars

FairSpec == Spec /\ WF_vars(TimesOut)

-----------------------------------------------------------------------------

Passive ==
  analyzeSite([url |-> target, finalUrl |-> probe.page.finalUrl, headers |-> probe.page.headers,
               tags |-> probe.page.tags, tls |-> probe.tls])

\* What a scan that returned gives its caller.
Result ==
  IF ~(active /\ verified) THEN Passive
  ELSE LET subs == subdomainScan(Len(Passive.assets), candidates, resolved, bodies)
       IN  [assets |-> Passive.assets \o subs.assets,
            edges |-> Passive.edges \o subs.edges,
            findings |-> Passive.findings \o buildSecretFindings(probe.page.secrets)
                         \o subs.findings]

Places(s) == 1..Len(s)

\* The active part, the search of the page as well as the look-ups, is only
\* for a scan whose host has the token in its TXT records, and the resolver and
\* the takeover probe are first sent to hosts below that host, wherever the
\* page was redirected to (ownership.ts).
OnlyOwnedHostsAsked ==
  searched # {} \/ candidates # <<>> =>
    /\ active /\ target.host \in owned
    /\ \A i \in Places(candidates) : Below(candidates[i], target.host)

\* "소유가 검증된 도메인에만 서브도메인 열거·시크릿 스캔을 허용한다"
\* (ownership.ts:39): the page that is searched for secrets comes from a domain
\* with at least one verified host.  It is not so after a redirect.
SecretsOnlyOfOwned == \A h \in searched : \E o \in owned : h.domain = o.domain

\* A cut never costs a word of the list: names of the log are asked for only
\* when all words are, no host twice (subdomains.ts:208).
WordlistSurvives ==
  LET words == {[target.host EXCEPT !.labels = Append(@, Wordlist[i])] : i \in Places(Wordlist)}
      asked == {candidates[i] : i \in Places(candidates)}
  IN  candidates # <<>> =>
        /\ asked \subseteq words \/ words \subseteq asked
        /\ \A i, j \in Places(candidates) : candidates[i] = candidates[j] => i = j

\* What is stored of a result hangs together: no two assets have one natural
\* key, every one but the root hangs on the root, and a takeover is reported on
\* the asset of the very host it is about, called certain only on the word of
\* that host and rated below HIGH only if it has addresses: the hosts that do
\* not exist in between shift nothing.
ResultHangsTogether ==
  pc = "returned" =>
    LET result == Result
        asked == Suspects(resolved)
        about(f) == {n \in Places(asked) : f.about = {candidates[asked[n]]}}
    IN  /\ \A i, j \in Places(result.assets) : result.assets[i] = result.assets[j] => i = j
        /\ \A n \in 2..Len(result.assets) :
             \E e \in Places(result.edges) : result.edges[e].from = 1 /\ result.edges[e].to = n
        /\ \A i \in Places(result.findings) : LET f == result.findings[i] IN
             f.rule = "SUBDOMAIN-TAKEOVER" =>
               /\ {result.assets[f.on]} = {SubKey(h) : h \in f.about}
               /\ \E n \in about(f) :
                    /\ f.severity = "CRITICAL" <=> bodies[n] = "marker"
                    /\ f.severity = "MEDIUM" => resolved[asked[n]].addresses

\* A scan ends though nobody ever answers, unless a page that has begun never
\* comes to its end: that is the only wait the code sets no timer on
\* (probe.ts:82); the limit fetch itself has on a silent body is left out.
EndsUnlessBodyHangs == <>Ended \/ <>[](pc = "body")
=============================================================================
