----------------------------- MODULE RiskGraph ------------------------------
(***************************************************************************)
(* propagateRisk of packages/graph: the depth-first search that turns the  *)
(* risk of each asset into the impact on the assets that depend on it,     *)
(* memoised, and cut where it meets an asset it is still computing.        *)
(*                                                                         *)
(* The call stack of compute is explicit.  The order in which the assets   *)
(* and the edges of an asset are taken is that of two lists the store      *)
(* returns; here it is any order.  The store is read list by list, so an   *)
(* edge may lead to an asset that is not in the list of assets.            *)
(***************************************************************************)
EXTENDS Naturals, Sequences

CONSTANTS
  Ids,         \* asset ids that occur in assets and edges
  MaxScore,    \* own scores are 0..MaxScore (0-100 in the code)
  None         \* null, as a root cause or for a memo without entry

Scores == 0..MaxScore
ImpactResult == [impact : Scores, cause : Ids \cup {None}, inherited : BOOLEAN]

ASSUME GraphAssumption ==
  /\ None \notin Ids /\ None \notin ImpactResult
  /\ MaxScore \in Nat

VARIABLES
  assets,      \* the listed assets
  deps,        \* id -> ids it depends on
  own,         \* id -> own score
  stack,       \* the calls of compute in progress, innermost last
  memo         \* id -> computed result, or None

input == <<assets, deps, own>>
vars == <<input, stack, memo>>

Frame == [id : Ids, left : SUBSET Ids, best : Scores, cause : Ids \cup {None}]

TypeOK ==
  /\ assets \in SUBSET Ids
  /\ deps \in [Ids -> SUBSET Ids]
  /\ own \in [Ids -> Scores]
  /\ stack \in Seq(Frame)
  /\ \A i \in 1..Len(stack) : stack[i].left \subseteq deps[stack[i].id]
  /\ memo \in [Ids -> ImpactResult \cup {None}]

\* Edges from an asset that is not listed are dropped.
Init ==
  /\ assets \in SUBSET Ids
  /\ deps \in [Ids -> SUBSET Ids]
  /\ \A id \in Ids \ assets : deps[id] = {}
  /\ own \in [Ids -> Scores]
  /\ stack = <<>>
  /\ memo = [id \in Ids |-> None]

-----------------------------------------------------------------------------

OwnCause(id) == IF own[id] > 0 THEN id ELSE None

Enter(id) ==
  stack' = Append(stack, [id |-> id, left |-> deps[id],
                          best |-> own[id], cause |-> OwnCause(id)])

\* Mutants of Merge: the dependency itself taken for the cause; its own
\* score taken for its impact.
MergeNearCause(f, to, impact, cause) ==
  IF impact > f.best
  THEN [f EXCEPT !.left = @ \ {to}, !.best = impact, !.cause = to]
  ELSE [f EXCEPT !.left = @ \ {to}]

MergeOwnScore(f, to, impact, cause) ==
  IF own[to] > f.best
  THEN [f EXCEPT !.left = @ \ {to}, !.best = own[to], !.cause = to]
  ELSE [f EXCEPT !.left = @ \ {to}]

\* What the loop over the dependencies makes of the result for one of them.
Merge(f, to, impact, cause) ==
  IF impact > f.best
  THEN [f EXCEPT !.left = @ \ {to}, !.best = impact,
                 !.cause = IF cause = None THEN to ELSE cause]
  ELSE [f EXCEPT !.left = @ \ {to}]

Top == stack[Len(stack)]

Visiting(id) == \E i \in 1..Len(stack) : stack[i].id = id

\* compute is called for the next listed asset.
Root(a) ==
  /\ stack = <<>>
  /\ memo[a] = None
  /\ Enter(a)
  /\ UNCHANGED <<input, memo>>

Continue(frame) == stack' = [stack EXCEPT ![Len(stack)] = frame]

\* compute(to) finds the result in the memo.
Cached(to) ==
  /\ memo[to] # None
  /\ Continue(Merge(Top, to, memo[to].impact, memo[to].cause))
  /\ UNCHANGED <<input, memo>>

\* Mutant of Blocked: compute(to) waits for the result of the call in progress.
BlockedWaits(to) ==
  /\ memo[to] # None
  /\ Visiting(to)
  /\ Continue(Merge(Top, to, memo[to].impact, memo[to].cause))
  /\ UNCHANGED <<input, memo>>

\* compute(to) meets a call in progress and answers with the own score.
Blocked(to) ==
  /\ memo[to] = None
  /\ Visiting(to)
  /\ Continue(Merge(Top, to, own[to], OwnCause(to)))
  /\ UNCHANGED <<input, memo>>

Call(to) ==
  /\ memo[to] = None
  /\ ~Visiting(to)
  /\ Enter(to)
  /\ UNCHANGED <<input, memo>>

\* The frames below the top, the caller given the result of the top.
Popped ==
  [i \in 1..(Len(stack) - 1) |->
     IF i = Len(stack) - 1 THEN Merge(stack[i], Top.id, Top.best, Top.cause)
                           ELSE stack[i]]

Remember(id) ==
  memo' = [memo EXCEPT ![id] = [impact |-> Top.best, cause |-> Top.cause,
                                inherited |-> Top.best > own[id]]]

Return ==
  /\ stack # <<>>
  /\ Top.left = {}
  /\ Remember(Top.id)
  /\ stack' = Popped
  /\ UNCHANGED input

Visit ==
  /\ stack # <<>>
  /\ \E to \in Top.left : Cached(to) \/ Blocked(to) \/ Call(to)

Next == (\E a \in assets : Root(a)) \/ Visit \/ Return

Spec == Init /\ [][Next]_vars

\* The search runs in one synchronous call.
FairSpec == Spec /\ WF_vars(Next)

Done == stack = <<>> /\ \A a \in assets : memo[a] # None

-----------------------------------------------------------------------------

\* y is x or something x depends on, directly or not: it is in every set
\* that holds x and, with an asset, what the asset depends on.
Reaches(x, y) ==
  \A S \in SUBSET Ids :
    x \in S /\ (\A z \in S : deps[z] \subseteq S) => y \in S

OnCycle(x) == \E y \in deps[x] : Reaches(y, x)

\* An impact comes from somewhere: it is the own score of the root cause
\* reported with it, which is the asset itself or something it depends on;
\* there is no root cause exactly when there is no impact.
CauseJustified ==
  \A id \in Ids : memo[id] # None =>
    /\ memo[id].impact >= own[id]
    /\ memo[id].inherited = (memo[id].impact > own[id])
    /\ IF memo[id].impact = 0 THEN memo[id].cause = None
       ELSE /\ memo[id].cause \in Ids
            /\ own[memo[id].cause] = memo[id].impact
            /\ Reaches(id, memo[id].cause)

\* impact(x) = max(own(x), max over the dependencies y of impact(y)).
EquationAt(x) ==
  /\ memo[x].impact >= own[x]
  /\ \A y \in deps[x] : memo[y] # None /\ memo[x].impact >= memo[y].impact
  /\ memo[x].impact = own[x] \/ \E y \in deps[x] : memo[x].impact = memo[y].impact

\* An asset on no cycle has the impact the equation of the comment gives it,
\* as soon as it has one, cycles elsewhere or not.
EquationOffCycles ==
  \A x \in Ids : memo[x] # None /\ ~OnCycle(x) => EquationAt(x)

\* No asset is computed by two calls at once, so the recursion is bounded by
\* the number of assets.
NoReentry ==
  /\ \A i, j \in 1..Len(stack) : stack[i].id = stack[j].id => i = j
  /\ \A i \in 1..Len(stack) : memo[stack[i].id] = None

\* A cycle does not keep the search from ending.
Terminates == <>Done

\* The comment of propagateRisk, for every asset.
ImpactEquation == Done => \A x \in assets : EquationAt(x)
=============================================================================
