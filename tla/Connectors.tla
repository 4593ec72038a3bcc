----------------------------- MODULE Connectors -----------------------------
(***************************************************************************)
(* What the connectors for npm packages, Terraform plans, vendors and      *)
(* services make of their input, and the score of a finding.  Parsed JSON  *)
(* and YAML are records and sequences; a version range is the sequence of  *)
(* the versions it names; a date is a number of days and a time of day a   *)
(* number of half-days.                                                    *)
(*                                                                         *)
(* An asset is its natural key with its name and criticality; edges and    *)
(* findings name assets by key.  That ids and keys correspond one to one   *)
(* in the store is what ScanPipeline's ImplementsInventory says.           *)
(***************************************************************************)
EXTENDS Integers, SequencesExt, Selections

NoVersion == "none"
NoDate == -1
Unset == "unset"       \* an optional field that is absent

Asset(key, name, criticality) == [key |-> key, name |-> name, criticality |-> criticality]

Package(name, version) == <<"software_component", name, version>>
Resource(id) == <<"cloud_resource", id>>
Vendor(domain) == <<"vendor", domain>>
Service(key) == <<"service", key>>
TypeOf(key) == key[1]

Edge(from, to, type) == [from |-> from, to |-> to, type |-> type]
Finding(on, source, severity) == [on |-> on, source |-> source, severity |-> severity]

Default(value, otherwise) == IF value = Unset THEN otherwise ELSE value

When(condition, finding) == IF condition THEN <<finding>> ELSE <<>>

-----------------------------------------------------------------------------
(* Scoring: the weights are tenths, and Math.round adds a half.            *)

Severities == {"INFO", "LOW", "MEDIUM", "HIGH", "CRITICAL"}
Criticalities == {"LOW", "MEDIUM", "HIGH", "CRITICAL"}

SEVERITY_SCORE == [INFO |-> 10, LOW |-> 30, MEDIUM |-> 50, HIGH |-> 75, CRITICAL |-> 95]
CRITICALITY_SCORE == [LOW |-> 25, MEDIUM |-> 50, HIGH |-> 75, CRITICAL |-> 100]

scoreFinding(severity, criticality) ==
  LET total == (7 * SEVERITY_SCORE[severity] + 3 * CRITICALITY_SCORE[criticality] + 5) \div 10
  IN  IF total > 100 THEN 100 ELSE total

-----------------------------------------------------------------------------
(* npm.  A lockfile entry has a path of package names and a version, or    *)
(* NoVersion; a pnpm version may carry the peers it was resolved with.     *)

IsPackage(pkg) ==
  /\ {pkg.name, pkg.version} \subseteq STRING
  /\ {pkg.dependencies, pkg.devDependencies, pkg.optionalDependencies}
       \subseteq Seq([name : STRING, range : Seq(STRING)])

cleanVersion(range) == IF range = <<>> THEN NoVersion ELSE range[1]

\* A Map filled in order: the last entry of a name stays.
MapOf(entries) ==
  [n \in {entries[i].name : i \in 1..Len(entries)} |->
     entries[CHOOSE i \in 1..Len(entries) :
               entries[i].name = n /\ \A j \in (i + 1)..Len(entries) : entries[j].name # n].version]

\* Only what is installed at the top is what the project itself imports.
parseNpmLock(lock) ==
  LET direct == SelectSeq(lock.packages, LAMBDA e : Len(e.path) = 1 /\ e.version # NoVersion)
  IN  MapOf([i \in 1..Len(direct) |-> [name |-> direct[i].path[1], version |-> direct[i].version]])

stripPeerSuffix(version) == version[1]

parsePnpmLock(lock) ==
  LET all == lock.dependencies \o lock.devDependencies \o lock.optionalDependencies
  IN  MapOf([i \in 1..Len(all) |-> [name |-> all[i].name,
                                    version |-> stripPeerSuffix(all[i].version)]])

\* The lockfiles beside package.json, or the one sent with it.
resolveInstalledVersions(lockfiles) ==
  LET npm == SelectSeq(lockfiles, LAMBDA l : l.type = "npm")
      pnpm == SelectSeq(lockfiles, LAMBDA l : l.type = "pnpm")
  IN  IF npm # <<>> THEN parseNpmLock(npm[1])
      ELSE IF pnpm # <<>> THEN parsePnpmLock(pnpm[1])
      ELSE MapOf(<<>>)

buildScan(pkg) ==
  LET deps == pkg.dependencies \o pkg.devDependencies \o pkg.optionalDependencies
      installed == resolveInstalledVersions(pkg.lockfiles)
      version(d) == IF d.name \in DOMAIN installed THEN installed[d.name] ELSE cleanVersion(d.range)
      kept == ItemsAt(deps, {i \in 1..Len(deps) : version(deps[i]) # NoVersion})
      root == Package(Default(pkg.name, "application"), Default(pkg.version, "0.0.0"))
      key(i) == Package(kept[i].name, version(kept[i]))
  IN  [assets |-> <<Asset(root, root[2], "HIGH")>>
                  \o [i \in 1..Len(kept) |-> Asset(key(i), kept[i].name, "MEDIUM")],
       edges |-> {Edge(root, key(i), "depends_on") : i \in 1..Len(kept)},
       findings |-> <<>>]

-----------------------------------------------------------------------------
(* Terraform plans: the root module and its descendants, each before its   *)
(* children, as the plan lists them; a module is the list of its resources.*)

IsPlan(plan) ==
  /\ plan.stackName \in STRING
  /\ plan.modules \in Seq(Seq([address : STRING, type : STRING, acl : STRING,
                               ingress : Seq(SUBSET STRING), public : BOOLEAN,
                               unencrypted : BOOLEAN]))

collectResources(modules) == FlattenSeq(modules)

evaluateIac(r) ==
  LET on == Resource(r.address)
  IN  When(r.type = "aws_s3_bucket" /\ r.acl \in {"public-read", "public-read-write"},
           Finding(on, <<"IAC-S3-PUBLIC-ACL">>, "HIGH"))
      \o When(r.type = "aws_security_group" /\ "0.0.0.0/0" \in UNION {r.ingress[i] : i \in 1..Len(r.ingress)},
              Finding(on, <<"IAC-SG-OPEN-INGRESS">>, "HIGH"))
      \o When(r.public, Finding(on, <<"IAC-PUBLIC-ACCESS">>, "HIGH"))
      \o When(r.unencrypted, Finding(on, <<"IAC-NO-ENCRYPTION">>, "MEDIUM"))

StackId(name) == "stack:" \o name

toScan(plan) ==
  LET resources == collectResources(plan.modules)
      name == Default(plan.stackName, "terraform-stack")
      stack == Resource(StackId(name))
  IN  [assets |-> <<Asset(stack, name, "HIGH")>>
                  \o [i \in 1..Len(resources) |->
                        Asset(Resource(resources[i].address), resources[i].address, "MEDIUM")],
       edges |-> {Edge(stack, Resource(resources[i].address), "contains") : i \in 1..Len(resources)},
       findings |-> FlattenSeq([i \in 1..Len(resources) |-> evaluateIac(resources[i])])]

-----------------------------------------------------------------------------
(* Vendors.                                                                *)

IsInventory(entries) ==
  entries \in Seq([name : STRING, domain : STRING, criticality : Criticalities \cup {Unset},
                   certifications : Seq([type : STRING, expiresAt : Int]),
                   requiredCertifications : Seq(STRING)])

\* Whole days, rounded down, from a time in half-days to the start of a day.
daysBetween(time, day) == (2 * day - time) \div 2

EXPIRING_SOON_DAYS == 30

evaluateCertification(on, cert, time) ==
  LET days == daysBetween(time, cert.expiresAt)
  IN  IF cert.expiresAt = NoDate THEN <<>>
      ELSE IF days < 0 THEN <<Finding(on, <<"VND-CERT-EXPIRED", cert.type>>, "HIGH")>>
      ELSE When(days <= EXPIRING_SOON_DAYS,
                Finding(on, <<"VND-CERT-EXPIRING", cert.type>>, "MEDIUM"))

evaluateVendor(entry, time) ==
  LET on == Vendor(entry.domain)
      certs == entry.certifications
      present == {certs[i].type : i \in 1..Len(certs)}
      required == entry.requiredCertifications
      missing == ItemsAt(required, {i \in 1..Len(required) : required[i] \notin present})
  IN  FlattenSeq([i \in 1..Len(certs) |-> evaluateCertification(on, certs[i], time)])
      \o [i \in 1..Len(missing) |-> Finding(on, <<"VND-CERT-MISSING", missing[i]>>, "HIGH")]

scanVendors(entries, time) ==
  [assets |-> [i \in 1..Len(entries) |->
                 Asset(Vendor(entries[i].domain), entries[i].name,
                       Default(entries[i].criticality, "MEDIUM"))],
   edges |-> {},
   findings |-> FlattenSeq([i \in 1..Len(entries) |-> evaluateVendor(entries[i], time)])]

-----------------------------------------------------------------------------
(* Services, linked to assets found before.  A reference is the rest of a  *)
(* key, or for software also the one-element sequence of a name.           *)

IsManifest(entries) ==
  entries \in Seq([name : STRING, key : STRING, criticality : Criticalities \cup {Unset},
                   dependsOn : Seq(Seq(STRING)), hostedOn : Seq(Seq(STRING)),
                   providedBy : Seq(Seq(STRING))])

OfType(type, known) == {k \in DOMAIN known : TypeOf(k) = type}

Names(known) == {known[k].name : k \in OfType("software_component", known)}

\* Of several packages of one name the index keeps the last in the order of
\* the list, which is that of random ids: any.
Indexes(known) ==
  {f \in [Names(known) -> OfType("software_component", known)] :
     \A n \in Names(known) : known[f[n]].name = n}

\* Mutant of Target: software is found by purl only.
TargetByPurl(type, ref, known, byName) ==
  {k \in DOMAIN known : k = <<type>> \o ref}

\* What a reference leads to: one key, or none.
Target(type, ref, known, byName) ==
  LET key == <<type>> \o ref
  IN  IF key \in DOMAIN known THEN {key}
      ELSE IF type = "software_component" /\ Len(ref) = 1 /\ ref[1] \in DOMAIN byName
      THEN {byName[ref[1]]}
      ELSE {}

RefsOf(entry) ==
  {[to |-> "software_component", type |-> "depends_on", ref |-> r] : r \in ToSet(entry.dependsOn)}
  \cup {[to |-> "cloud_resource", type |-> "hosted_on", ref |-> r] : r \in ToSet(entry.hostedOn)}
  \cup {[to |-> "vendor", type |-> "provided_by", ref |-> r] : r \in ToSet(entry.providedBy)}

buildTopology(entries, known, byName) ==
  LET refs == UNION {{[from |-> Service(entries[i].key), ref |-> r] : r \in RefsOf(entries[i])} :
                       i \in 1..Len(entries)}
      target(x) == Target(x.ref.to, x.ref.ref, known, byName)
  IN  [assets |-> [i \in 1..Len(entries) |->
                     Asset(Service(entries[i].key), entries[i].name,
                           Default(entries[i].criticality, "HIGH"))],
       edges |-> UNION {{Edge(x.from, k, x.ref.type) : k \in target(x)} : x \in refs},
       findings |-> <<>>,
       unresolved |-> {x \in refs : target(x) = {}}]

-----------------------------------------------------------------------------
(* A site, of which only the result is told here: SiteAnalysis and         *)
(* ActiveScan say how it comes about.                                      *)

\* Libraries, named as in their keys, and hosts hang on the site itself.
IsSite(site) ==
  LET keys == {site.assets[i].key : i \in 1..Len(site.assets)}
  IN  /\ site.assets \in Seq([key : Seq(STRING), name : STRING, criticality : Criticalities])
      /\ \A k \in keys : TypeOf(k) \in {"web_asset", "software_component"}
      /\ \A i \in 1..Len(site.assets) :
           TypeOf(site.assets[i].key) = "software_component" => site.assets[i].name = site.assets[i].key[2]
      /\ site.edges \subseteq [from : {site.assets[1].key}, to : keys, type : STRING]
      /\ IsFiniteSet(site.edges)
      /\ site.findings \in Seq([on : keys, source : Seq(STRING), severity : Severities])
=============================================================================
