----------------------------- MODULE Inventory ------------------------------
(***************************************************************************)
(* What a tenant's inventory is to someone who reads it: a set of facts in *)
(* natural keys, which only grows.  A scan adds its assets, then its edges *)
(* with the links to assets known before, its findings and their scores,   *)
(* each part at once; it may end after any of them.  There are no ids to   *)
(* confuse, and adding a fact twice is adding it once.                     *)
(***************************************************************************)
EXTENDS Naturals, Sequences

CONSTANTS AssetKeys, Sources, Clients, Scans

VARIABLES facts, stage, scan

vars == <<facts, stage, scan>>

Init ==
  /\ facts = {}
  /\ stage = [c \in Clients |-> "scan"]
  /\ scan = [c \in Clients |->
               [assets |-> <<>>, edges |-> <<>>, links |-> <<>>, findings |-> <<>>]]

After == [asset |-> "edge", edge |-> "finding", finding |-> "score", score |-> "returned"]

\* The facts a scan adds at a stage, and those it adds if it knew the assets.
Part(s, st) ==
  CASE st = "asset" -> {<<"asset", s.assets[i]>> : i \in 1..Len(s.assets)}
    [] st = "edge" -> {<<"edge", s.assets[s.edges[i].from], s.assets[s.edges[i].to]>> :
                         i \in 1..Len(s.edges)}
    [] OTHER -> {<<st, s.assets[s.findings[i].on], s.findings[i].source>> :
                   i \in 1..Len(s.findings)}

Links(s, st) ==
  IF st # "edge" THEN {}
  ELSE {<<"edge", s.assets[l.from], l.key>> :
          l \in {s.links[i] : i \in {n \in 1..Len(s.links) : <<"asset", s.links[n].key>> \in facts}}}

Begin(c) ==
  /\ stage[c] = "scan"
  /\ \E s \in Scans : scan' = [scan EXCEPT ![c] = s]
  /\ stage' = [stage EXCEPT ![c] = "asset"]
  /\ UNCHANGED facts

Adds(c) ==
  \E known \in SUBSET Links(scan[c], stage[c]) :
    facts' = facts \cup Part(scan[c], stage[c]) \cup known

Add(c) ==
  /\ stage[c] \in DOMAIN After
  /\ Adds(c)
  /\ stage' = [stage EXCEPT ![c] = After[stage[c]]]
  /\ UNCHANGED scan

End(c) ==
  /\ stage[c] \notin {"returned", "thrown"}
  /\ UNCHANGED facts \/ (stage[c] \in DOMAIN After /\ Adds(c))
  /\ stage' = [stage EXCEPT ![c] = "thrown"]
  /\ UNCHANGED scan

Next == \E c \in Clients : Begin(c) \/ Add(c) \/ End(c)

Spec == Init /\ [][Next]_vars
=============================================================================
