------------------------------ MODULE ScanRuns ------------------------------
(***************************************************************************)
(* Scans of all five kinds on the tables of a tenant, by the workers of    *)
(* the API (runScanJob) and the command line, which run at the same time;  *)
(* and a page of the web application, which asks for its lists one by one  *)
(* while scans write.  Each upsert is one transaction; a run may be cut    *)
(* before any of them, and what it writes later is made of the rows its    *)
(* earlier upserts returned, whatever others have written since.  How two  *)
(* transactions exclude each other is the subject of ScanPipeline, which   *)
(* also shows that rows may be named by natural key.                       *)
(***************************************************************************)
EXTENDS Views

CONSTANTS
  Histories,     \* what users submit, in order
  Advisories,    \* what OSV answers: [on, id, severity, from], from some time
  Times,         \* times of day, in half-days
  Orders,        \* the orders rows may be listed in
  ReadGroups,    \* sets of Reads: requests answered together
  Opened,        \* bound on the histories a page is opened in
  MaxParallel,   \* bound on the runs under way at once
  MaxCuts        \* bound on the runs that are cut

Kinds == {"npm", "iac", "vendor", "service", "web"}

\* The lists a page asks for, and those computeImpact reads for it.
Lists == {"assets", "edges", "findings", "scores"}
Reads == {"page", "impact"} \X Lists

\* What a run is given passed the schema of its kind.
IsRun(r) ==
  /\ r.kind \in Kinds /\ r.how \in {"job", "cli"}
  /\ CASE r.kind = "npm" -> IsPackage(r.pkg)
       [] r.kind = "iac" -> IsPlan(r.plan)
       [] r.kind = "vendor" -> IsInventory(r.inventory)
       [] r.kind = "service" -> IsManifest(r.manifest)
       [] r.kind = "web" -> IsSite(r.site)

\* The command line takes its tenant from the environment for web and
\* service scans only; any other run of it has a tenant of its own.
ASSUME RunsAssumption ==
  /\ \A g \in ReadGroups : g \subseteq Reads
  /\ \A h \in Histories :
       /\ h \in Seq(ToSet(h))
       /\ \A i \in 1..Len(h) :
            /\ IsRun(h[i])
            /\ h[i].how = "cli" /\ h[i].kind \notin {"web", "service"} => Len(h) = 1
  /\ IsFiniteSet(Advisories)
  /\ \A a \in Advisories : TypeOf(a.on) = "software_component" /\ a.severity \in Severities
  /\ Times \subseteq Nat /\ Times # {}
  /\ \A o \in Orders : o.assets \in Seq(ToSet(o.assets)) /\ o.edges \in Seq(ToSet(o.edges))

VARIABLES
  assets,        \* key -> name, criticality, since (first run), seen (last run)
  edges,
  findings,      \* <<key, source>> -> severity, seen
  scores,        \* <<key, source>> -> score
  scorer,        \* the run that wrote each score
  clock,
  left,          \* the runs still to come
  runs,          \* those that began: input, stage, scan, summary, with
  page,          \* the lists read so far
  impact         \* what computeImpact answered the page, as a list of at most one

tables == <<assets, edges, findings, scores, scorer>>
vars == <<tables, clock, left, runs, page, impact>>

NoSummary == [topScore |-> NoScore, unresolved |-> {}, printed |-> {}, report |-> {}]

\* A run is at the transaction it does next, or it returned, or was cut.
Live(i) == runs[i].stage \in {"asset", "edge", "finding", "score"}
Returned(i) == runs[i].stage = "returned"
UnderWay == {i \in 1..Len(runs) : Live(i)}
Cuts == {i \in 1..Len(runs) : runs[i].stage = "cut"}

Init ==
  /\ assets = <<>> /\ edges = {} /\ findings = <<>> /\ scores = <<>> /\ scorer = <<>>
  /\ clock \in Times
  /\ left \in Histories
  /\ runs = <<>>
  /\ page = <<>> /\ impact = <<>>

-----------------------------------------------------------------------------
(* A run.                                                                  *)

\* What the connector of a run finds; a service manifest is linked to the
\* assets listed at this point.
Found(r) ==
  CASE r.kind = "npm" -> {buildScan(r.pkg)}
    [] r.kind = "iac" -> {toScan(r.plan)}
    [] r.kind = "vendor" -> {scanVendors(r.inventory, clock)}
    [] r.kind = "service" -> {buildTopology(r.manifest, assets, f) : f \in Indexes(assets)}
    [] r.kind = "web" -> {r.site}

Unresolved(s) == IF "unresolved" \in DOMAIN s THEN s.unresolved ELSE {}

\* with is the set of the runs it overlaps.
Begin ==
  /\ left # <<>> /\ Cardinality(UnderWay) < MaxParallel
  /\ \E s \in Found(Head(left)) :
       runs' = Append([i \in 1..Len(runs) |->
                         IF Live(i) THEN [runs[i] EXCEPT !.with = @ \cup {Len(runs) + 1}] ELSE runs[i]],
                      [input |-> Head(left), stage |-> "asset",
                       scan |-> [assets |-> s.assets, edges |-> s.edges, findings |-> s.findings,
                                 unresolved |-> Unresolved(s)],
                       summary |-> NoSummary, with |-> UnderWay])
  /\ left' = Tail(left)
  /\ UNCHANGED <<tables, clock, page, impact>>

Goto(i, stage) == runs' = [runs EXCEPT ![i].stage = stage]

Returns(i, summary) == runs' = [runs EXCEPT ![i].stage = "returned", ![i].summary = summary]

\* Rows written into a table: over those of the same keys, beside the others.
Over(rows, table) ==
  [k \in DOMAIN rows \cup DOMAIN table |-> IF k \in DOMAIN rows THEN rows[k] ELSE table[k]]

\* The row of a key the batch upserts: its last.
LastOf(batch, key) == batch[Max({i \in 1..Len(batch) : batch[i].key = key})]

KeysOf(batch) == {batch[i].key : i \in 1..Len(batch)}
PlacesOf(batch) == {<<batch[i].on, batch[i].source>> : i \in 1..Len(batch)}

\* firstSeen stays that of the first insert.
PersistAssets(i) ==
  /\ runs[i].stage = "asset"
  /\ LET batch == runs[i].scan.assets
     IN  assets' = Over([k \in KeysOf(batch) |->
                           [name |-> LastOf(batch, k).name, criticality |-> LastOf(batch, k).criticality,
                            since |-> IF k \in DOMAIN assets THEN assets[k].since ELSE i, seen |-> i]],
                        assets)
  /\ Goto(i, IF runs[i].input.kind = "vendor" THEN "finding" ELSE "edge")
  /\ UNCHANGED <<edges, findings, scores, scorer, clock, left, page, impact>>

\* With its edges a service scan is over; printPersistedImpact then reads the
\* lists as computeImpact does.
PersistRelationships(i) ==
  /\ runs[i].stage = "edge"
  /\ edges' = edges \cup runs[i].scan.edges
  /\ IF runs[i].input.kind = "service"
     THEN Returns(i, [NoSummary EXCEPT !.unresolved = runs[i].scan.unresolved])
     ELSE Goto(i, "finding")
  /\ UNCHANGED <<assets, findings, scores, scorer, clock, left, page, impact>>

\* The vulnerabilities of the packages of the scan, asked for only by npm and
\* web scans.
Enriched(r) ==
  IF r.input.kind \notin {"npm", "web"} THEN <<>>
  ELSE SetToSeq({Finding(a.on, <<a.id>>, a.severity) :
                   a \in {x \in Advisories : x.from <= clock /\ x.on \in KeysOf(r.scan.assets)}})

SeverityIn(batch, f) ==
  batch[Max({i \in 1..Len(batch) : <<batch[i].on, batch[i].source>> = f})].severity

PersistFindings(i) ==
  /\ runs[i].stage = "finding"
  /\ LET batch == runs[i].scan.findings \o Enriched(runs[i])
     IN  /\ findings' = Over([f \in PlacesOf(batch) |-> [severity |-> SeverityIn(batch, f), seen |-> i]],
                             findings)
         /\ runs' = [runs EXCEPT ![i].stage = "score", ![i].scan.findings = batch]
  /\ UNCHANGED <<assets, edges, scores, scorer, clock, left, page, impact>>

\* Mutants of Scored: a finding that has a score is passed over; only what
\* the connector itself found is scored.
ScoredOnce(s) ==
  [f \in PlacesOf(s.findings) \ DOMAIN scores |->
     scoreFinding(SeverityIn(s.findings, f), LastOf(s.assets, f[1]).criticality)]

ScoredConnectorOnly(s) ==
  [f \in PlacesOf(s.findings) \ {<<a.on, <<a.id>>>> : a \in Advisories} |->
     scoreFinding(SeverityIn(s.findings, f), LastOf(s.assets, f[1]).criticality)]

\* Scores of the findings of a run, by the rows its own upserts returned.
Scored(s) ==
  [f \in PlacesOf(s.findings) |->
     scoreFinding(SeverityIn(s.findings, f), LastOf(s.assets, f[1]).criticality)]

\* What the command line prints of its own lists, impact only where there are
\* edges.
Printed(r, now, order) ==
  LET own == [k \in KeysOf(r.scan.assets) |-> LastOf(r.scan.assets, k)]
  IN  IF r.input.how = "job" THEN NoSummary
      ELSE [NoSummary EXCEPT
              !.report = printReport(own, now, now),
              !.printed = IF r.scan.edges = {} THEN {}
                          ELSE printImpact(own, r.scan.edges, now, now, order)]

\* Mutant of PersistScores: the command line prints its scores and keeps none.
PersistScoresOfJobs(i) ==
  /\ runs[i].stage = "score"
  /\ LET now == Scored(runs[i].scan)
         kept == IF runs[i].input.how = "job" THEN now ELSE <<>>
     IN  /\ scores' = Over(kept, scores)
         /\ scorer' = Over([f \in DOMAIN kept |-> i], scorer)
         /\ \E o \in Orders :
              Returns(i, [Printed(runs[i], now, o) EXCEPT !.topScore = MaxOf({now[f] : f \in DOMAIN now})])
  /\ UNCHANGED <<assets, edges, findings, clock, left, page, impact>>

\* scoreAndPersist, or finishRun, and the run is over.
PersistScores(i) ==
  /\ runs[i].stage = "score"
  /\ LET now == Scored(runs[i].scan)
     IN  /\ scores' = Over(now, scores)
         /\ scorer' = Over([f \in DOMAIN now |-> i], scorer)
         /\ \E o \in Orders :
              Returns(i, [Printed(runs[i], now, o) EXCEPT !.topScore = MaxOf({now[f] : f \in DOMAIN now})])
  /\ UNCHANGED <<assets, edges, findings, clock, left, page, impact>>

\* An upsert or the enrichment throws, or the process ends.
Cut(i) ==
  /\ Live(i) /\ Cardinality(Cuts) < MaxCuts
  /\ Goto(i, "cut")
  /\ UNCHANGED <<tables, clock, left, page, impact>>

\* Time, between runs and during them.
Passes ==
  /\ clock' \in {t \in Times : t > clock}
  /\ UNCHANGED <<tables, left, runs, page, impact>>

ListNow(list) ==
  CASE list = "assets" -> assets
    [] list = "edges" -> edges
    [] list = "findings" -> findings
    [] list = "scores" -> scores

List(of, list) == page[<<of, list>>]

\* Answers to a page asked for while the last runs go on, or after them.
ReadLists ==
  /\ left = <<>> /\ runs # <<>> /\ [i \in 1..Len(runs) |-> runs[i].input] \in Opened
  /\ \E g \in ReadGroups :
       /\ g \cap DOMAIN page = {}
       /\ page' = Over([r \in g |-> ListNow(r[2])], page)
  /\ UNCHANGED <<tables, clock, left, runs, impact>>

AnswerImpact ==
  /\ impact = <<>> /\ {"impact"} \X Lists \subseteq DOMAIN page
  /\ \E o \in Orders :
       impact' = <<computeImpact(List("impact", "assets"), List("impact", "findings"),
                                 List("impact", "scores"), List("impact", "edges"), o)>>
  /\ UNCHANGED <<tables, clock, left, runs, page>>

RunStep(i) == PersistAssets(i) \/ PersistRelationships(i) \/ PersistFindings(i) \/ PersistScores(i)

Next == Begin \/ (\E i \in 1..Len(runs) : RunStep(i) \/ Cut(i)) \/ Passes \/ ReadLists \/ AnswerImpact

Spec == Init /\ [][Next]_vars

-----------------------------------------------------------------------------

\* A score that is not the one of its finding and asset as they are now has
\* one of three reasons: the run that wrote the finding or the asset last is
\* under way or was cut; or it overlapped the run that wrote the score, which
\* scored the rows its own upserts had returned (scans.ts scoreAndPersist); or
\* the run that saw the asset last did not see the finding.
StaleScoreExplained ==
  \A f \in DOMAIN scores :
    LET rated == assets[f[1]].seen IN
    \/ scores[f] = scoreFinding(findings[f].severity, assets[f[1]].criticality)
    \/ \E i \in {findings[f].seen, rated} :
         Live(i) \/ i \in Cuts \/ i \in runs[scorer[f]].with
    \/ f \notin PlacesOf(runs[rated].scan.findings)

Matches(key, x) ==
  \/ key = <<x.ref.to>> \o x.ref.ref
  \/ /\ x.ref.to = "software_component" /\ Len(x.ref.ref) = 1
     /\ TypeOf(key) = x.ref.to /\ assets[key].name = x.ref.ref[1]

\* From when a service scan is over, each reference of its manifest either has
\* its edge or was reported, and whatever matches one that was reported was
\* first stored by a run that overlapped it or began later (connector-service:
\* "매칭되는 기존 자산을 찾지 못한 참조").
RefsLinkedOrReported ==
  \A i \in 1..Len(runs) : Returned(i) /\ runs[i].input.kind = "service" =>
    LET manifest == runs[i].input.manifest IN
    \A n \in 1..Len(manifest) : \A r \in RefsOf(manifest[n]) :
      LET x == [from |-> Service(manifest[n].key), ref |-> r]
          matching == {k \in DOMAIN assets : Matches(k, x)}
      IN  IF x \in runs[i].summary.unresolved
          THEN \A k \in matching : assets[k].since > i \/ assets[k].since \in runs[i].with
          ELSE \E k \in matching : Edge(x.from, k, r.type) \in edges

\* What the command line printed when it ended is what the store says then: a
\* finding has the score of the report, and no impact was printed above that of
\* the whole graph, cycles or not, in whatever order its rows are listed.
PrintedIsStored ==
  [][\A i \in 1..Len(runs) : Live(i) /\ Returned(i)' =>
       LET summary == runs'[i].summary IN
       /\ \A row \in summary.report :
            LET f == <<row.asset, row.finding>> IN f \in DOMAIN scores' /\ scores'[f] = row.score
       /\ \A o \in Orders :
            LET stored == computeImpact(assets, findings, scores', edges, o)
            IN  \A row \in summary.printed : row.impactScore <= stored[row.key].impactScore]_vars

-----------------------------------------------------------------------------
(* A page, once all its lists are there.                                   *)

Whole == DOMAIN page = Reads /\ impact # <<>>

PageImpact == impact[1]

PageAssets == buildAssetDetails(List("page", "assets"), List("page", "findings"), PageImpact)

PageFindings == buildFindingDetails(List("page", "findings"), List("page", "assets"),
                                    List("page", "scores"), PageImpact)

PageRows == buildImpactDetails(PageImpact, List("page", "assets"), List("page", "edges"),
                               List("page", "findings"))

PageServices == buildServiceViews(List("page", "assets"), List("page", "edges"), PageImpact)

\* Nothing was written between the reads, nor a run under way.
Settled == Whole /\ UnderWay = {} /\ \A r \in Reads : page[r] = ListNow(r[2])

\* "No findings on this asset" (assets-table.tsx) is shown beside findings only
\* on a page that was read while a run wrote, or when a run that was cut left
\* them without a score.
HiddenOnlyIfTorn ==
  Settled =>
    \A k \in DOMAIN PageAssets :
      PageAssets[k].interpretation = "no_findings" =>
        \A f \in PageAssets[k].findings : findings[f].seen \in Cuts

\* The figures of the pages agree with each other on any graph: the top impact
\* of the dashboard is the top score there is, and no less than what the last
\* run reported as its own unless others ran beside it; off the cycles,
\* impact(x) = max(own(x), max impact(y)) over the dependencies listed beside
\* it, though these may lie on cycles; and so a service, on which nothing
\* depends, has the worst impact of its dependencies (services.ts).
FiguresAgree ==
  Settled =>
    /\ LET top == summarize(List("page", "assets"), List("page", "findings"), PageImpact).topImpact
           last == runs[Len(runs)]
       IN  /\ top = MaxOf({scores[f] : f \in DOMAIN scores})
           /\ Returned(Len(runs)) /\ last.with = {} => top >= last.summary.topScore
    /\ \A k \in DOMAIN PageRows : ~OnCycle(k, edges) =>
         PageRows[k].impactScore =
           MaxOf({PageRows[k].ownScore} \cup {d.impactScore : d \in PageRows[k].dependencies})
    /\ \A k \in DOMAIN PageServices :
         PageServices[k].impactScore = MaxOf({d.impactScore : d \in PageServices[k].dependencies})

\* An asset listed as impacted under a finding depends, by the edges there are
\* now, on the asset of the finding or on another of the same name, however
\* the reads of the page fell between the writes.
ImpactedByName ==
  Whole =>
    \A f \in DOMAIN PageFindings : \A k \in PageFindings[f].impacted :
      \E x \in Reach({k}, edges) \ {k} :
        x = f[1] \/ NameIn(List("impact", "assets"), x) = PageFindings[f].assetName
=============================================================================
