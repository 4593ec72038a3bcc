------------------------------- MODULE Views --------------------------------
(***************************************************************************)
(* What is computed from the four lists of a tenant: the impact the API    *)
(* answers, the rows the web application derives from lists it asked for   *)
(* separately, and the report of the command line.  Lists are functions by *)
(* natural key and a set of edges; orders, labels and layout are left out. *)
(*                                                                         *)
(* Lists are in the order of ids, which are random: the order given to a   *)
(* search says which asset, and which edge by its end, is met first.       *)
(***************************************************************************)
EXTENDS Connectors

NoScore == -1

MaxOf(S) == Max(S \cup {0})

\* An asset that is not in the list is shown by its id.
NameIn(assets, key) == IF key \in DOMAIN assets THEN assets[key].name ELSE ToString(key)

\* Scores and findings are functions by <<asset, source>>.
ownScore(findings, scores, key) ==
  MaxOf({scores[f] : f \in {x \in DOMAIN findings \cap DOMAIN scores : x[1] = key}})

\* What is reached from some keys: no path needs more steps than there are
\* edges.
Reach(keys, edges) ==
  LET step[n \in Nat] ==
        IF n = 0 THEN keys
        ELSE LET before == step[n - 1]
             IN  before \cup {e.to : e \in {x \in edges : x.from \in before}}
  IN  step[Cardinality(edges)]

OnCycle(key, edges) == \E e \in edges : e.from = key /\ key \in Reach({e.to}, edges)

-----------------------------------------------------------------------------
(* propagateRisk, as a search that is run: RiskGraph has it call by call.  *)
(* stack holds the calls of compute under way, memo the results there are, *)
(* done the edges that are merged.  A cause is a set of at most one key.   *)

\* Which of some keys comes first; among those the order does not name, any.
First(S, order) ==
  LET named == {i \in 1..Len(order) : order[i] \in S}
  IN  IF named = {} THEN CHOOSE x \in S : TRUE ELSE order[Min(named)]

OwnCause(own, key) == IF own[key] > 0 THEN {key} ELSE {}

Enter(s, own, key) ==
  [s EXCEPT !.stack = Append(@, [id |-> key, best |-> own[key], cause |-> OwnCause(own, key)])]

\* Mutant of Merge: the dependency met last counts, not the worst.
MergeLast(frame, to, impact, cause) ==
  [frame EXCEPT !.best = impact, !.cause = IF cause = {} THEN {to} ELSE cause]

Merge(frame, to, impact, cause) ==
  IF impact > frame.best
  THEN [frame EXCEPT !.best = impact, !.cause = IF cause = {} THEN {to} ELSE cause]
  ELSE frame

\* The dependency e of the last call is answered: by the memo, or because it
\* is under way itself.
Take(s, e, impact, cause) ==
  [s EXCEPT !.stack[Len(s.stack)] = Merge(@, e.to, impact, cause), !.done = @ \cup {e}]

\* The last call returns.
Return(s, own) ==
  LET top == s.stack[Len(s.stack)]
      result == [impact |-> top.best, cause |-> top.cause, inherited |-> top.best > own[top.id]]
  IN  [s EXCEPT !.stack = SubSeq(@, 1, Len(s.stack) - 1),
                !.memo = [k \in DOMAIN s.memo \cup {top.id} |->
                            IF k = top.id THEN result ELSE s.memo[k]]]

\* Edges from assets that are not listed are dropped.
SearchStep(keys, edges, own, order, s) ==
  IF s.stack = <<>>
  THEN IF keys \subseteq DOMAIN s.memo THEN s
       ELSE Enter(s, own, First(keys \ DOMAIN s.memo, order.assets))
  ELSE LET id == s.stack[Len(s.stack)].id
           next == {e \in edges \ s.done : e.from = id /\ id \in keys}
           to == First({e.to : e \in next}, order.edges)
           e == CHOOSE x \in next : x.to = to
       IN  IF next = {} THEN Return(s, own)
           ELSE IF to \in DOMAIN s.memo
           THEN Take(s, e, s.memo[to].impact, s.memo[to].cause)
           ELSE IF \E i \in 1..Len(s.stack) : s.stack[i].id = to
           THEN Take(s, e, own[to], OwnCause(own, to))
           ELSE Enter(s, own, to)

Search(keys, edges, own, order) ==
  LET after[n \in Nat] ==
        IF n = 0 THEN [stack |-> <<>>, done |-> {}, memo |-> <<>>]
        ELSE SearchStep(keys, edges, own, order, after[n - 1])
  IN  after

\* Every asset is entered once and left once, and every edge taken once.
propagateRisk(keys, edges, own, order) ==
  Search(keys, edges, own, order)[2 * Cardinality(keys) + 3 * Cardinality(edges)].memo

computeImpact(assets, findings, scores, edges, order) ==
  LET own == [k \in DOMAIN assets \cup {e.to : e \in edges} |-> ownScore(findings, scores, k)]
      risks == propagateRisk(DOMAIN assets, edges, own, order)
  IN  [key \in DOMAIN assets |->
         [asset |-> assets[key].name, ownScore |-> own[key], impactScore |-> risks[key].impact,
          inherited |-> risks[key].inherited,
          rootCause |-> {NameIn(assets, k) : k \in risks[key].cause}]]

-----------------------------------------------------------------------------
(* The pages.                                                              *)

impactScoreOf(impact, key) == IF key \in DOMAIN impact THEN impact[key].impactScore ELSE 0

summarize(assets, findings, impact) ==
  [assetCount |-> Cardinality(DOMAIN assets), findingCount |-> Cardinality(DOMAIN findings),
   topImpact |-> MaxOf({impact[k].impactScore : k \in DOMAIN impact}),
   inheritedCount |-> Cardinality({k \in DOMAIN impact : impact[k].inherited})]

\* Mutant of impactedBy: whoever inherited, from whatever.
impactedByAny(impact, name) ==
  {k \in DOMAIN impact : impact[k].inherited /\ impact[k].asset # name}

\* The rows that inherit from an asset of this name: rows carry the root
\* cause by name only.
impactedBy(impact, name) ==
  {k \in DOMAIN impact : /\ impact[k].inherited /\ name \in impact[k].rootCause
                         /\ impact[k].asset # name}

buildFindingDetails(findings, assets, scores, impact) ==
  [f \in DOMAIN findings |->
     LET name == NameIn(assets, f[1])
     IN  [severity |-> findings[f].severity, assetName |-> name,
          score |-> IF f \in DOMAIN scores THEN scores[f] ELSE NoScore,
          impacted |-> impactedBy(impact, name)]]

riskInterpretation(row) ==
  IF row.impactScore = 0 THEN "no_findings"
  ELSE IF row.inherited /\ row.ownScore = 0 THEN "inherited_only"
  ELSE IF row.inherited THEN "own_and_inherited"
  ELSE "own_only"

buildAssetDetails(assets, findings, impact) ==
  [key \in DOMAIN assets |->
     LET row == IF key \in DOMAIN impact THEN impact[key]
                ELSE [ownScore |-> 0, impactScore |-> 0, inherited |-> FALSE, rootCause |-> {}]
     IN  [findings |-> {f \in DOMAIN findings : f[1] = key},
          impactScore |-> row.impactScore, interpretation |-> riskInterpretation(row)]]

\* The type of the root cause is that of some asset of its name.
buildImpactDetails(impact, assets, edges, findings) ==
  [key \in DOMAIN impact |->
     [ownScore |-> impact[key].ownScore, impactScore |-> impact[key].impactScore,
      rootCauseTypes |-> {TypeOf(k) : k \in {x \in DOMAIN impact \cap DOMAIN assets :
                                              impact[x].asset \in impact[key].rootCause}},
      dependencies |-> {[to |-> e.to, type |-> e.type, impactScore |-> impactScoreOf(impact, e.to)] :
                          e \in {x \in edges : x.from = key}},
      directFindings |-> {f \in DOMAIN findings : f[1] = key}]]

buildServiceViews(assets, edges, impact) ==
  [key \in {k \in DOMAIN assets : TypeOf(k) = "service"} |->
     [impactScore |-> impactScoreOf(impact, key),
      dependencies |-> {[to |-> e.to, type |-> e.type, impactScore |-> impactScoreOf(impact, e.to)] :
                          e \in {x \in edges : x.from = key}}]]

-----------------------------------------------------------------------------
(* The command line: the findings it scored, and who inherits.             *)

printReport(assets, findings, scores) ==
  {[asset |-> f[1], finding |-> f[2], score |-> scores[f]] :
     f \in {x \in DOMAIN findings \cap DOMAIN scores : x[1] \in DOMAIN assets}}

printImpact(assets, edges, findings, scores, order) ==
  LET impact == computeImpact(assets, findings, scores, edges, order)
  IN  {[key |-> k, impactScore |-> impact[k].impactScore] :
         k \in {x \in DOMAIN impact : impact[x].inherited}}
=============================================================================
