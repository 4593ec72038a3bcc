----------------------------- MODULE MCScanRuns -----------------------------
(***************************************************************************)
(* What users submit, small but of every kind and with the collisions that *)
(* matter: one package in two versions, a package that is an application   *)
(* of its own, two plans with one resource address, a vendor entered again.*)
(***************************************************************************)
EXTENDS ScanRuns

Dep(name, range) == [name |-> name, range |-> range]

\* lodash is locked at the top and nested, needed twice, and beside it are a
\* package without any version and one that only the range names.
Shop ==
  [kind |-> "npm", how |-> "job",
   pkg |-> [name |-> "shop", version |-> "1.0.0",
            dependencies |-> <<Dep("lodash", <<"4.17.20">>), Dep("local", <<>>)>>,
            devDependencies |-> <<Dep("lodash", <<"4.17.20">>), Dep("vitest", <<"2.0.0", "3.0.0">>)>>,
            optionalDependencies |-> <<>>,
            lockfiles |-> <<[type |-> "npm",
                             packages |-> <<[path |-> <<>>, version |-> "1.0.0"],
                                            [path |-> <<"lodash">>, version |-> "4.17.21"],
                                            [path |-> <<"local">>, version |-> NoVersion],
                                            [path |-> <<"vitest", "lodash">>, version |-> "3.10.1"]>>]>>]]

\* An application without a name, by pnpm; both lockfiles may be there for
\* the command line.
Unnamed(how, more) ==
  [kind |-> "npm", how |-> how,
   pkg |-> [name |-> Unset, version |-> Unset,
            dependencies |-> <<Dep("lodash", <<"4.17.21">>)>>,
            devDependencies |-> <<>>, optionalDependencies |-> <<Dep("vitest", <<>>)>>,
            lockfiles |-> more \o
              <<[type |-> "pnpm",
                 dependencies |-> <<[name |-> "lodash", version |-> <<"4.17.20">>]>>,
                 devDependencies |-> <<>>,
                 optionalDependencies |-> <<[name |-> "vitest", version |-> <<"2.0.0", "jsdom">>]>>]>>]]

\* The package itself, as the application that is scanned.
Lodash ==
  [kind |-> "npm", how |-> "job",
   pkg |-> [name |-> "lodash", version |-> "4.17.21", dependencies |-> <<>>,
            devDependencies |-> <<>>, optionalDependencies |-> <<>>, lockfiles |-> <<>>]]

\* Two packages that depend on each other, one of them on a third.
Mutual(name, needs) ==
  [kind |-> "npm", how |-> "job",
   pkg |-> [name |-> name, version |-> "1.0.0", dependencies |-> needs,
            devDependencies |-> <<>>, optionalDependencies |-> <<>>, lockfiles |-> <<>>]]
Ping == Mutual("ping", <<Dep("pong", <<"1.0.0">>), Dep("lodash", <<"4.17.20">>)>>)
Pong == Mutual("pong", <<Dep("ping", <<"1.0.0">>)>>)
Back == [Mutual("lodash", <<Dep("ping", <<"1.0.0">>)>>) EXCEPT !.pkg.version = "4.17.20"]

Advice ==
  {[on |-> Package("lodash", "4.17.20"), id |-> "GHSA-1", severity |-> "CRITICAL", from |-> 0],
   [on |-> Package("lodash", "4.17.21"), id |-> "GHSA-2", severity |-> "MEDIUM", from |-> 0],
   [on |-> Package("vitest", "2.0.0"), id |-> "GHSA-3", severity |-> "HIGH", from |-> 1]}

Bucket(acl) == [address |-> "logs", type |-> "aws_s3_bucket", acl |-> acl, ingress |-> <<>>,
                public |-> FALSE, unencrypted |-> FALSE]

Plan(name, acl) ==
  [kind |-> "iac", how |-> "job",
   plan |-> [stackName |-> name,
             modules |-> <<<<Bucket(acl)>>,
                           <<[address |-> "m.db", type |-> "aws_db_instance", acl |-> Unset,
                              ingress |-> <<>>, public |-> TRUE, unencrypted |-> TRUE],
                             [address |-> "m.sg", type |-> "aws_security_group", acl |-> Unset,
                              ingress |-> <<{"10.0.0.0/8"}, {"0.0.0.0/0"}>>,
                              public |-> FALSE, unencrypted |-> FALSE]>>>>]]

Vendors(how, criticality, expires) ==
  [kind |-> "vendor", how |-> how,
   inventory |-> <<[name |-> "Acme", domain |-> "acme.com", criticality |-> criticality,
                    certifications |-> <<[type |-> "SOC2", expiresAt |-> expires],
                                         [type |-> "PCI", expiresAt |-> NoDate]>>,
                    requiredCertifications |-> <<"SOC2", "ISO">>]>>]

Linked(how, needs) ==
  [kind |-> "service", how |-> how,
   manifest |-> <<[name |-> "Checkout", key |-> "checkout", criticality |-> Unset,
                   dependsOn |-> needs, hostedOn |-> <<<<"logs">>>>,
                   providedBy |-> <<<<"acme.com">>, <<"gone.com">>>>]>>]
Services(how) == Linked(how, <<<<"lodash">>, <<"shop", "1.0.0">>>>)

Site(how) ==
  LET root == <<"web_asset", "https://shop.example">>
      lib == Package("lodash", "4.17.20")
  IN  [kind |-> "web", how |-> how,
       site |-> [assets |-> <<Asset(root, "shop.example", "HIGH"), Asset(lib, "lodash", "MEDIUM")>>,
                 edges |-> {Edge(root, lib, "depends_on")},
                 findings |-> <<Finding(root, <<"WEB-HEADER-CSP">>, "MEDIUM")>>]]

\* Any two of these runs, and some of three.
Jobs ==
  {Shop, Lodash, Unnamed("job", <<>>), Plan(Unset, "public-read"), Plan(Unset, "private"),
   Vendors("job", Unset, 20), Vendors("job", "CRITICAL", 400), Services("job"), Site("cli")}

\* The histories a page is opened in: a package that is an application too,
\* packages that depend on each other, a vendor that is rated anew, a service
\* on what was found before.
Shown ==
  {<<Shop, Lodash>>, <<Ping, Pong>>, <<Ping, Back>>,
   <<Vendors("job", Unset, 20), Vendors("job", "CRITICAL", 400)>>,
   <<Plan(Unset, "public-read"), Services("job")>>}

Submitted ==
  Shown \cup {<<x, y>> : x, y \in Jobs}
  \cup {<<Shop, Lodash, Services("job")>>, <<Ping, Pong, Linked("job", <<<<"pong">>>>)>>,
        <<Vendors("job", Unset, 20), Services("job"), Site("job")>>,
        <<Plan(Unset, "public-read"), Plan("second", "private"), Services("cli")>>,
        <<Ping, Back, Site("cli")>>,
        <<Unnamed("cli", Shop.pkg.lockfiles)>>, <<Vendors("cli", "LOW", 20)>>,
        <<[Plan("first", "private") EXCEPT !.how = "cli"]>>}

\* As the store lists rows, and with some of them the other way round.
Ordered ==
  LET p(n) == Package(n, "1.0.0")
      order(roots, ends) == [assets |-> roots, edges |-> ends]
  IN  {order(<<>>, <<>>), order(<<p("pong"), p("ping")>>, <<>>),
       order(<<p("ping")>>, <<p("pong"), Package("lodash", "4.17.20")>>)}

Groups == {{<<"page", "assets">>, <<"page", "edges">>}, {<<"page", "findings">>, <<"page", "scores">>},
           {<<"impact", "assets">>, <<"impact", "edges">>},
           {<<"impact", "findings">>, <<"impact", "scores">>}}
=============================================================================
