---------------------------- MODULE SiteAnalysis ----------------------------
(***************************************************************************)
(* What connector-web makes of one page and of the hosts below it: the     *)
(* pure functions of index.ts, fingerprint.ts, secrets.ts, finding.ts and  *)
(* subdomains.ts.  Text is abstracted to what they tell apart: a URL is a  *)
(* scheme, a host and whether it has a path; a host is a domain and labels *)
(* below it; a script tag has the library its URL names, if any; a secret  *)
(* is a pattern, its first four characters and the rest.                   *)
(*                                                                         *)
(* Assets are kept as the sequence of natural keys the connector returns,  *)
(* edges and findings by places in it, the form ScanPipeline takes.        *)
(***************************************************************************)
EXTENDS Selections

CONSTANTS
  Domains,       \* registered names
  Labels,        \* labels of hosts below them
  Libs,          \* purls fingerprintScript can make
  NoLib          \* a URL that names no library and version

ASSUME SiteAssumption == NoLib \notin Libs

Host == [domain : Domains, labels : Seq(Labels)]

Url == [https : BOOLEAN, host : Host, path : BOOLEAN]

Below(h, r) ==
  /\ h.domain = r.domain
  /\ Len(h.labels) > Len(r.labels)
  /\ SubSeq(h.labels, 1, Len(r.labels)) = r.labels

\* Without a scheme, https is put before.
normalizeUrl(input) ==
  [https |-> input.scheme # "http", host |-> input.host, path |-> input.path]

\* The items that did not come before, as the Sets of the code keep them.
Distinct(s) == ItemsAt(s, {i \in 1..Len(s) : \A j \in 1..(i - 1) : s[j] # s[i]})

WebKey(url) == [type |-> "web_asset", url |-> url]
LibKey(lib) == [type |-> "software_component", purl |-> lib]

\* The natural key of a finding within its asset is rule and about.
makeFinding(on, rule, about, severity) ==
  [on |-> on, rule |-> rule, about |-> about, severity |-> severity]

OnRoot(rule, severity) == makeFinding(1, rule, {}, severity)

When(condition, finding) == IF condition THEN <<finding>> ELSE <<>>

-----------------------------------------------------------------------------
(* The page.                                                               *)

Tag == [src : {"inline", "other", "relative", "absolute"}, host : Host,
        lib : Libs \cup {NoLib}, integrity : BOOLEAN]

\* A tag that is "inline" has no URL, one that is "other" no http URL.
parseScripts(tags, page) ==
  LET external == ItemsAt(tags,
                    {i \in 1..Len(tags) : tags[i].src \in {"relative", "absolute"}})
      host(t) == IF t.src = "relative" THEN page ELSE t.host
  IN  [i \in 1..Len(external) |->
         [src |-> [host |-> host(external[i]), lib |-> external[i].lib],
          integrity |-> external[i].integrity,
          isThirdParty |-> host(external[i]) # page]]

exposedLibs(scripts) ==
  LET known == ItemsAt(scripts, {i \in 1..Len(scripts) : scripts[i].src.lib # NoLib})
  IN  Distinct([i \in 1..Len(known) |-> known[i].src.lib])

evaluateTls(probe) ==
  IF ~probe.finalUrl.https THEN <<OnRoot("TLS-MISSING", "HIGH")>>
  ELSE IF ~probe.tls.known THEN <<>>
  ELSE When(probe.tls.expired, OnRoot("TLS-EXPIRED", "HIGH"))
       \o When(~probe.tls.authorized, OnRoot("TLS-UNTRUSTED", "HIGH"))
       \o When(probe.tls.weak, OnRoot("TLS-WEAK-PROTOCOL", "MEDIUM"))

HEADER_RULES ==
  <<[header |-> "HSTS", severity |-> "MEDIUM"], [header |-> "CSP", severity |-> "MEDIUM"],
    [header |-> "XFO", severity |-> "LOW"], [header |-> "XCTO", severity |-> "LOW"]>>

evaluateHeaders(headers) ==
  LET missing == ItemsAt(HEADER_RULES, {i \in 1..Len(HEADER_RULES) :
                                          HEADER_RULES[i].header \notin headers})
  IN  [i \in 1..Len(missing) |->
         makeFinding(1, "HEADER-MISSING", {missing[i].header}, missing[i].severity)]

evaluateSri(scripts) ==
  LET bare == ItemsAt(scripts, {i \in 1..Len(scripts) :
                                  scripts[i].isThirdParty /\ ~scripts[i].integrity})
  IN  [i \in 1..Len(bare) |-> makeFinding(1, "SRI-MISSING", {bare[i].src}, "MEDIUM")]

\* The root is keyed by the URL of the request, named after the final host.
analyzeSite(probe) ==
  LET scripts == parseScripts(probe.tags, probe.finalUrl.host)
      libs == exposedLibs(scripts)
  IN  [assets |-> <<WebKey(probe.url)>> \o [i \in 1..Len(libs) |-> LibKey(libs[i])],
       edges |-> [i \in 1..Len(libs) |-> [from |-> 1, to |-> i + 1, type |-> "depends_on"]],
       findings |-> evaluateTls(probe) \o evaluateHeaders(probe.headers)
                    \o evaluateSri(scripts)]

SecretSeverity ==
  [aws |-> "CRITICAL", gcp |-> "HIGH", github |-> "CRITICAL", slack |-> "HIGH",
   stripe |-> "CRITICAL", key |-> "CRITICAL"]

Secret == [pattern : DOMAIN SecretSeverity, head : STRING, rest : Nat]

\* Only the pattern and the first four characters are kept of a secret.
scanSecrets(secrets) ==
  Distinct([i \in 1..Len(secrets) |-> [pattern |-> secrets[i].pattern, head |-> secrets[i].head]])

buildSecretFindings(secrets) ==
  LET matches == scanSecrets(secrets)
  IN  [i \in 1..Len(matches) |->
         makeFinding(1, "SECRET-EXPOSED", {matches[i]}, SecretSeverity[matches[i].pattern])]

-----------------------------------------------------------------------------
(* The hosts below.                                                        *)

\* Entries of a certificate log: a wildcard is dropped before the name is
\* compared, so "*.root" is the root; plain is FALSE for an entry that is
\* no string, or holds a space or another "*".
parseCrtShNames(payload, root) ==
  LET named == ItemsAt(payload, {i \in 1..Len(payload) : LET n == payload[i] IN
                                   n.plain /\ n.host # root /\ Below(n.host, root)})
  IN  Distinct([i \in 1..Len(named) |-> named[i].host])

\* Mutant of candidatesOf: the names of the log come first.
candidatesOfLogFirst(wordlist, root, ctNames, max) ==
  LET words == [i \in 1..Len(wordlist) |-> [root EXCEPT !.labels = Append(@, wordlist[i])]]
      all == Distinct(ctNames \o words)
  IN  SubSeq(all, 1, IF Len(all) < max THEN Len(all) ELSE max)

\* The word list and then the log, cut at the limit.
candidatesOf(wordlist, root, ctNames, max) ==
  LET words == [i \in 1..Len(wordlist) |-> [root EXCEPT !.labels = Append(@, wordlist[i])]]
      all == Distinct(words \o ctNames)
  IN  SubSeq(all, 1, IF Len(all) < max THEN Len(all) ELSE max)

\* What the resolver says of a host: what its CNAME points to, whether it has
\* addresses.  A host with neither does not exist.
Resolution == [cname : {"none", "service", "elsewhere"}, addresses : BOOLEAN]

Exists(r) == r.cname # "none" \/ r.addresses

\* "service" is a SaaS whose unclaimed names can be taken over.
AtRisk(r) == r.cname = "service"

\* Mutant of takeoverSeverity: dangling and confirmed are taken for the same.
takeoverSeverityDangling(r, body) == IF r.addresses THEN "MEDIUM" ELSE "CRITICAL"

\* classifyTakeover, raised by confirmTakeover when the body holds the mark
\* of an unclaimed resource.
takeoverSeverity(r, body) ==
  IF body = "marker" THEN "CRITICAL" ELSE IF r.addresses THEN "MEDIUM" ELSE "HIGH"

\* The places of the hosts that exist, and of those that are asked for a body.
Existing(resolved) == InOrder({i \in DOMAIN resolved : Exists(resolved[i])})

Suspects(resolved) ==
  InOrder({i \in DOMAIN resolved : Exists(resolved[i]) /\ AtRisk(resolved[i])})

\* makeWebAsset
SubKey(host) == WebKey([https |-> TRUE, host |-> host, path |-> FALSE])

\* The part enumerateSubdomains adds to a scan that has n assets already.
subdomainScan(n, hosts, resolved, bodies) ==
  LET subs == Existing(resolved)
      place(h) == n + CHOOSE i \in 1..Len(subs) : subs[i] = h
      asked == Suspects(resolved)
  IN  [assets |-> [i \in 1..Len(subs) |-> SubKey(hosts[subs[i]])],
       edges |-> [i \in 1..Len(subs) |-> [from |-> 1, to |-> n + i, type |-> "contains"]],
       findings |-> [i \in 1..Len(asked) |->
                       makeFinding(place(asked[i]), "SUBDOMAIN-TAKEOVER", {hosts[asked[i]]},
                                   takeoverSeverity(resolved[asked[i]], bodies[i]))]]
=============================================================================
