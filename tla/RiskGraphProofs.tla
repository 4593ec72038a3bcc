-------------------------- MODULE RiskGraphProofs ---------------------------
(***************************************************************************)
(* Theorems about propagateRisk, for any set of assets, any edges between  *)
(* them and any scores.                                                    *)
(***************************************************************************)
EXTENDS RiskGraph, SequenceTheorems, TLAPS

-----------------------------------------------------------------------------
(* Reachability.                                                           *)

\* Every asset reaches itself, what it depends on, and what these reach.
LEMMA ReachesSelf == ASSUME NEW x \in Ids PROVE Reaches(x, x)
BY DEF Reaches

LEMMA ReachesDep ==
  ASSUME NEW x \in Ids, NEW y \in Ids, NEW z \in deps[y], Reaches(x, y)
  PROVE  Reaches(x, z)
BY DEF Reaches

LEMMA DepReaches ==
  ASSUME NEW x \in Ids, NEW y \in deps[x], NEW z \in Ids, Reaches(y, z)
  PROVE  Reaches(x, z)
BY DEF Reaches

-----------------------------------------------------------------------------
(* The call stack.                                                         *)

\* A call adds one frame at the end.
LEMMA PushEffect ==
  ASSUME TypeOK, NEW f \in Frame, stack' = Append(stack, f)
  PROVE  /\ stack' \in Seq(Frame) /\ Len(stack') = Len(stack) + 1
         /\ Len(stack) \in Nat
         /\ \A i \in 1..Len(stack) : stack'[i] = stack[i]
         /\ stack'[Len(stack) + 1] = f
BY DEF TypeOK

\* The innermost call goes on with its loop.
LEMMA ContinueEffect ==
  ASSUME TypeOK, stack # <<>>, NEW f \in Frame, Continue(f)
  PROVE  /\ stack' \in Seq(Frame) /\ Len(stack') = Len(stack)
         /\ Len(stack) \in Nat \ {0}
         /\ \A i \in 1..Len(stack) : i # Len(stack) => stack'[i] = stack[i]
         /\ stack'[Len(stack)] = f
<1>1. Len(stack) \in Nat \ {0} /\ Len(stack) \in 1..Len(stack) /\ stack \in Seq(Frame)
  BY EmptySeq DEF TypeOK
<1> QED BY <1>1, ExceptSeq DEF Continue

\* A function on 1..n is a sequence of that length.
LEMMA SeqOfFunction ==
  ASSUME NEW n \in Nat, NEW S, NEW f \in [1..n -> S]
  PROVE  f \in Seq(S) /\ Len(f) = n
OBVIOUS

\* The innermost call returns, and its caller has merged the result.
LEMMA PopEffect ==
  ASSUME TypeOK, stack # <<>>, stack' = Popped,
         \A i \in 1..Len(stack) :
           i = Len(stack) - 1 => Merge(stack[i], Top.id, Top.best, Top.cause) \in Frame
  PROVE  /\ stack' \in Seq(Frame) /\ Len(stack') = Len(stack) - 1
         /\ Len(stack) \in Nat \ {0}
         /\ \A i \in 1..(Len(stack) - 1) :
              stack'[i] = IF i = Len(stack) - 1
                          THEN Merge(stack[i], Top.id, Top.best, Top.cause)
                          ELSE stack[i]
<1>0. Len(stack) \in Nat \ {0}
  <2>1. stack \in Seq(Frame)
    BY DEF TypeOK
  <2> QED BY <2>1, EmptySeq
<1>1. PICK n \in Nat : n = Len(stack) - 1 /\ Len(stack) = n + 1
  <2>1. Len(stack) - 1 \in Nat /\ Len(stack) = (Len(stack) - 1) + 1
    BY <1>0
  <2> QED BY <2>1
<1>2. \A i \in 1..n : i \in 1..Len(stack) /\ stack[i] \in Frame
  BY <1>1 DEF TypeOK
<1> DEFINE e(i) == IF i = n THEN Merge(stack[i], Top.id, Top.best, Top.cause) ELSE stack[i]
<1>3. \A i \in 1..n : e(i) \in Frame
  BY <1>1, <1>2
<1>4. stack' = [i \in 1..n |-> e(i)]
  BY <1>1 DEF Popped
<1>5. stack' \in [1..n -> Frame] /\ \A i \in 1..n : stack'[i] = e(i)
  BY <1>3, <1>4
<1>6. stack' \in Seq(Frame) /\ Len(stack') = n
  BY <1>5, SeqOfFunction
<1> QED BY <1>1, <1>5, <1>6

\* What the loop of a call makes of one result: the dependency is done, the
\* best score is the larger one, and the cause is the one of the best score.
LEMMA MergeEffect ==
  ASSUME NEW f \in Frame, NEW to \in Ids, NEW impact \in Scores, NEW cause \in Ids \cup {None},
         NEW m, m = Merge(f, to, impact, cause)
  PROVE  /\ m \in Frame /\ m.id = f.id /\ m.left = f.left \ {to}
         /\ m.best >= f.best /\ m.best >= impact
         /\ \/ m.best = f.best /\ m.cause = f.cause
            \/ /\ m.best = impact /\ impact > f.best
               /\ m.cause = IF cause = None THEN to ELSE cause
<1> DEFINE k == IF cause = None THEN to ELSE cause
           g == [f EXCEPT !.left = f.left \ {to}]
           h == [f EXCEPT !.left = f.left \ {to}, !.best = impact, !.cause = k]
<1>1. k \in Ids \cup {None} /\ f.left \ {to} \in SUBSET Ids /\ f.best \in Nat /\ impact \in Nat
  BY GraphAssumption DEF Frame, Scores
<1>2. /\ g \in Frame /\ g.id = f.id /\ g.left = f.left \ {to}
      /\ g.best = f.best /\ g.cause = f.cause
  BY <1>1 DEF Frame
<1>3. /\ h \in Frame /\ h.id = f.id /\ h.left = f.left \ {to}
      /\ h.best = impact /\ h.cause = k
  <2> HIDE DEF k
  <2> QED BY <1>1 DEF Frame
<1>4. m = IF impact > f.best THEN h ELSE g
  BY DEF Merge
<1> HIDE DEF g, h
<1> QED BY <1>1, <1>2, <1>3, <1>4

-----------------------------------------------------------------------------
(* Scores and their causes.                                                *)

\* A score of id with its cause is accounted for.
Justified(id, score, cause) ==
  /\ score >= own[id]
  /\ IF score = 0 THEN cause = None
     ELSE cause \in Ids /\ own[cause] = score /\ Reaches(id, cause)

\* A call starts from its own score, and a blocked call answers with it.
LEMMA OwnJustified ==
  ASSUME TypeOK, NEW id \in Ids
  PROVE  Justified(id, own[id], OwnCause(id)) /\ OwnCause(id) \in Ids \cup {None}
         /\ own[id] \in Scores
BY ReachesSelf, GraphAssumption DEF TypeOK, Justified, OwnCause, Scores

\* A merged score is accounted for when what is merged was.
LEMMA MergeJustified ==
  ASSUME TypeOK, NEW f \in Frame, NEW to \in deps[f.id],
         NEW impact \in Scores, NEW cause \in Ids \cup {None},
         Justified(f.id, f.best, f.cause), Justified(to, impact, cause),
         NEW m, m = Merge(f, to, impact, cause)
  PROVE  Justified(m.id, m.best, m.cause)
<1>1. f.id \in Ids /\ to \in Ids /\ f.best \in Nat /\ impact \in Nat /\ own[f.id] \in Nat
  BY GraphAssumption DEF TypeOK, Frame, Scores
<1>2. /\ m.id = f.id /\ m.best >= f.best
      /\ \/ m.best = f.best /\ m.cause = f.cause
         \/ m.best = impact /\ impact > f.best
            /\ m.cause = IF cause = None THEN to ELSE cause
  BY <1>1, MergeEffect
<1>3. CASE m.best = f.best /\ m.cause = f.cause
  BY <1>2, <1>3
<1>4. CASE m.best = impact /\ impact > f.best /\ m.cause = IF cause = None THEN to ELSE cause
  <2>1. impact # 0 /\ cause \in Ids /\ own[cause] = impact /\ Reaches(to, cause)
    BY <1>1, <1>4 DEF Justified
  <2>2. m.cause = cause
    BY <1>4, <2>1, GraphAssumption
  <2>3. Reaches(f.id, cause)
    BY <1>1, <2>1, DepReaches
  <2>4. f.best >= own[f.id]
    BY DEF Justified
  <2> QED BY <1>1, <1>2, <1>4, <2>1, <2>2, <2>3, <2>4 DEF Justified
<1> QED BY <1>2, <1>3, <1>4

-----------------------------------------------------------------------------
(* The inductive invariant.                                                *)

\* An off-cycle call has, of the dependencies it is done with, the largest
\* impact in the memo m, and no more than that.
Covered(f, m) ==
  /\ \A y \in deps[f.id] \ f.left : m[y] # None /\ f.best >= m[y].impact
  /\ \/ f.best = own[f.id]
     \/ \E y \in deps[f.id] \ f.left : m[y] # None /\ f.best = m[y].impact

FrameOK(f) ==
  Justified(f.id, f.best, f.cause) /\ (~OnCycle(f.id) => Covered(f, memo))

MemoOK(id) ==
  memo[id] # None =>
    /\ Justified(id, memo[id].impact, memo[id].cause)
    /\ memo[id].inherited = (memo[id].impact > own[id])
    /\ ~OnCycle(id) => EquationAt(id)

\* A caller waits for the call above it, which it depends on.
Linked == \A i \in 1..Len(stack) :
            i + 1 \in 1..Len(stack) => stack[i + 1].id \in stack[i].left

\* Every call in progress reaches the calls above it.
PathUp == \A i, k \in 1..Len(stack) : \A x, y \in Ids :
            i <= k /\ x = stack[i].id /\ y = stack[k].id => Reaches(x, y)

FramesOK == \A i \in 1..Len(stack) : \A f \in Frame : f = stack[i] => FrameOK(f)

SearchInv ==
  /\ TypeOK /\ NoReentry /\ Linked /\ PathUp
  /\ FramesOK
  /\ \A id \in Ids : MemoOK(id)

LEMMA SearchInit == Init => SearchInv
<1> SUFFICES ASSUME Init PROVE SearchInv
  OBVIOUS
<1>1. stack \in Seq(Frame) /\ 1..Len(stack) = {}
  BY EmptySeq DEF Init
<1>2. TypeOK
  BY <1>1, GraphAssumption DEF Init, TypeOK
<1>3. \A id \in Ids : memo[id] = None
  BY DEF Init
<1> QED BY <1>1, <1>2, <1>3 DEF SearchInv, NoReentry, Linked, PathUp, FramesOK, MemoOK

\* What is reached depends on the edges only.
LEMMA InputKept ==
  ASSUME UNCHANGED input
  PROVE  /\ \A x, y \in Ids : Reaches(x, y)' <=> Reaches(x, y)
         /\ \A x \in Ids : OnCycle(x)' <=> OnCycle(x)
         /\ \A x \in Ids : \A score \in Scores : \A cause \in Ids \cup {None} :
              Justified(x, score, cause)' <=> Justified(x, score, cause)
         /\ assets' = assets /\ deps' = deps /\ own' = own
<1>1. assets' = assets /\ deps' = deps /\ own' = own
  BY DEF input
<1>2. \A x, y \in Ids : Reaches(x, y)' <=> Reaches(x, y)
  BY <1>1 DEF Reaches
<1>3. \A x \in Ids : OnCycle(x)' <=> OnCycle(x)
  BY <1>1 DEF OnCycle, Reaches
<1>4. \A x \in Ids : \A score \in Scores : \A cause \in Ids \cup {None} :
        Justified(x, score, cause)' <=> Justified(x, score, cause)
  BY <1>1, <1>2 DEF Justified
<1> QED BY <1>1, <1>2, <1>3, <1>4

\* A frame that is kept stays as it should be, when no result is forgotten.
LEMMA FrameKept ==
  ASSUME TypeOK, UNCHANGED input, NEW f \in Frame, FrameOK(f),
         \A y \in Ids : memo[y] # None => memo'[y] = memo[y]
  PROVE  FrameOK(f)'
<1>1. f.id \in Ids /\ f.best \in Scores /\ f.cause \in Ids \cup {None}
  BY DEF Frame
<1>2. Justified(f.id, f.best, f.cause)'
  BY <1>1, InputKept DEF FrameOK
<1>3. deps[f.id] \subseteq Ids
  BY <1>1 DEF TypeOK
<1>4. Covered(f, memo) => Covered(f, memo)'
  BY <1>3, InputKept DEF Covered
<1> QED BY <1>1, <1>2, <1>4, InputKept DEF FrameOK

\* So does a result that is kept.
LEMMA MemoKept ==
  ASSUME TypeOK, UNCHANGED input, NEW id \in Ids, MemoOK(id), memo'[id] = memo[id],
         \A y \in Ids : memo[y] # None => memo'[y] = memo[y]
  PROVE  MemoOK(id)'
<1> SUFFICES ASSUME memo[id] # None PROVE MemoOK(id)'
  BY DEF MemoOK
<1>1. memo[id].impact \in Scores /\ memo[id].cause \in Ids \cup {None}
  BY DEF TypeOK, ImpactResult
<1>2. /\ Justified(id, memo[id].impact, memo[id].cause)
      /\ memo[id].inherited = (memo[id].impact > own[id])
      /\ ~OnCycle(id) => EquationAt(id)
  BY DEF MemoOK
<1>3. Justified(id, memo[id].impact, memo[id].cause)'
  BY <1>2, InputKept DEF Justified, Reaches
<1>4. deps[id] \subseteq Ids
  BY DEF TypeOK
<1>5. EquationAt(id) => EquationAt(id)'
  BY <1>4, InputKept DEF EquationAt
<1> QED BY <1>2, <1>3, <1>5, InputKept DEF MemoOK

LEMMA SearchParts ==
  ASSUME SearchInv
  PROVE  /\ TypeOK /\ NoReentry /\ Linked /\ PathUp /\ FramesOK
         /\ stack \in Seq(Frame) /\ Len(stack) \in Nat
         /\ \A i \in 1..Len(stack) : stack[i] \in Frame /\ stack[i].id \in Ids
         /\ \A id \in Ids : MemoOK(id)
<1>1. TypeOK /\ stack \in Seq(Frame)
  BY DEF SearchInv, TypeOK
<1>2. Len(stack) \in Nat /\ \A i \in 1..Len(stack) : stack[i] \in Frame
  BY <1>1, LenProperties, ElementOfSeq
<1>3. \A f \in Frame : f.id \in Ids
  BY DEF Frame
<1> QED BY <1>1, <1>2, <1>3 DEF SearchInv

\* A call of compute for an asset without result and not in progress.
LEMMA EnterKeeps ==
  ASSUME SearchInv, NEW id \in Ids, Enter(id), UNCHANGED <<input, memo>>,
         memo[id] = None, ~Visiting(id),
         stack # <<>> => id \in Top.left
  PROVE  SearchInv'
<1> DEFINE f == [id |-> id, left |-> deps[id], best |-> own[id], cause |-> OwnCause(id)]
           n == Len(stack)
<1>0. /\ TypeOK /\ NoReentry /\ Linked /\ PathUp /\ FramesOK /\ n \in Nat
      /\ \A i \in 1..n : stack[i] \in Frame /\ stack[i].id \in Ids
      /\ \A x \in Ids : MemoOK(x)
      /\ assets' = assets /\ deps' = deps /\ own' = own /\ memo' = memo
      /\ UNCHANGED input
  BY SearchParts, InputKept
<1>1. f \in Frame /\ f.id = id /\ f.left = deps[id] /\ f.best = own[id] /\ f.cause = OwnCause(id)
  BY <1>0, OwnJustified DEF TypeOK, Frame
<1>2. stack' = Append(stack, f)
  BY DEF Enter
<1> HIDE DEF f, n
<1>3. /\ stack' \in Seq(Frame) /\ Len(stack') = n + 1
      /\ \A i \in 1..n : stack'[i] = stack[i]
      /\ stack'[n + 1] = f
  BY <1>0, <1>1, <1>2, PushEffect DEF n
<1>4. \A i \in 1..(n + 1) : i \in 1..n \/ i = n + 1
  BY <1>0
<1>5. n # 0 => n \in 1..n /\ id \in stack[n].left
  <2>1. n # 0 => stack # <<>>
    BY <1>0 DEF n
  <2> QED BY <1>0, <2>1 DEF Top, n
<1>6. \A i \in 1..n : stack[i].id # id
  BY DEF Visiting, n
<1>7. TypeOK'
  <2>1. \A i \in 1..(n + 1) : stack'[i].left \subseteq deps[stack'[i].id]
    BY <1>0, <1>1, <1>3, <1>4 DEF TypeOK, n
  <2> QED BY <1>0, <1>3, <2>1 DEF TypeOK
<1>8. NoReentry'
  <2>1. \A i \in 1..(n + 1) : memo'[stack'[i].id] = None
    BY <1>0, <1>1, <1>3, <1>4 DEF NoReentry, n
  <2>2. ASSUME NEW i \in 1..(n + 1), NEW k \in 1..(n + 1), stack'[i].id = stack'[k].id
        PROVE  i = k
    <3>1. CASE i \in 1..n /\ k \in 1..n
      BY <1>0, <1>3, <2>2, <3>1 DEF NoReentry, n
    <3>2. CASE i = n + 1 /\ k \in 1..n
      BY <1>1, <1>3, <1>6, <2>2, <3>2
    <3>3. CASE k = n + 1 /\ i \in 1..n
      BY <1>1, <1>3, <1>6, <2>2, <3>3
    <3> QED BY <1>4, <3>1, <3>2, <3>3
  <2> QED BY <1>3, <2>1, <2>2 DEF NoReentry
<1>9. Linked'
  <2> SUFFICES ASSUME NEW i \in 1..(n + 1), i + 1 \in 1..(n + 1)
               PROVE  stack'[i + 1].id \in stack'[i].left
    BY <1>3 DEF Linked
  <2>1. i \in 1..n
    BY <1>0
  <2>2. CASE i = n
    BY <1>0, <1>1, <1>3, <1>5, <2>1, <2>2
  <2>3. CASE i # n
    BY <1>0, <1>3, <2>1, <2>3 DEF Linked, n
  <2> QED BY <2>2, <2>3
<1>10. PathUp'
  <2> SUFFICES ASSUME NEW i \in 1..(n + 1), NEW k \in 1..(n + 1), i <= k,
                      NEW x \in Ids, NEW y \in Ids, x = stack'[i].id, y = stack'[k].id
               PROVE  Reaches(x, y)
    BY <1>0, <1>3, InputKept DEF PathUp
  <2>1. CASE k \in 1..n
    <3>1. i \in 1..n
      BY <1>0, <2>1
    <3> QED BY <1>0, <1>3, <2>1, <3>1 DEF PathUp, n
  <2>2. CASE k = n + 1 /\ i = n + 1
    BY <1>1, <1>3, <2>2, ReachesSelf
  <2>3. CASE k = n + 1 /\ i \in 1..n
    <3>1. i <= n /\ n \in 1..n /\ stack[n].id \in Ids /\ id \in deps[stack[n].id]
      BY <1>0, <1>5, <2>3 DEF TypeOK, n
    <3>2. x = stack[i].id /\ y = id
      BY <1>1, <1>3, <2>3
    <3>3. Reaches(x, stack[n].id)
      BY <1>0, <2>3, <3>1, <3>2 DEF PathUp, n
    <3> QED BY <3>1, <3>2, <3>3, ReachesDep
  <2> QED BY <1>4, <2>1, <2>2, <2>3
<1>11. FramesOK'
  <2> SUFFICES ASSUME NEW i \in 1..(n + 1), NEW g \in Frame, g = stack'[i]
               PROVE  FrameOK(g)'
    BY <1>3 DEF FramesOK
  <2>1. FrameOK(g)
    <3>1. CASE i \in 1..n
      BY <1>0, <1>3, <3>1 DEF FramesOK, n
    <3>2. CASE i = n + 1
      <4>1. g = f
        BY <1>3, <3>2
      <4> QED BY <1>0, <1>1, <4>1, OwnJustified DEF FrameOK, Covered
    <3> QED BY <1>4, <3>1, <3>2
  <2> QED BY <1>0, <2>1, FrameKept
<1>12. \A x \in Ids : MemoOK(x)'
  BY <1>0, MemoKept
<1> QED BY <1>7, <1>8, <1>9, <1>10, <1>11, <1>12 DEF SearchInv

\* A merge of what the memo says of a dependency keeps a call covered.
LEMMA MergeCovered ==
  ASSUME TypeOK, NEW m \in [Ids -> ImpactResult \cup {None}],
         NEW f \in Frame, NEW to \in f.left, f.left \subseteq deps[f.id],
         NEW impact \in Scores, NEW cause \in Ids \cup {None},
         m[to] # None, m[to].impact = impact, Covered(f, m),
         NEW g, g = Merge(f, to, impact, cause)
  PROVE  Covered(g, m)
<1>1. f.id \in Ids /\ f.left \in SUBSET Ids /\ to \in Ids /\ to \in deps[f.id]
      /\ f.best \in Nat /\ impact \in Nat
  BY GraphAssumption DEF Frame, Scores
<1>2. /\ g \in Frame /\ g.id = f.id /\ g.left = f.left \ {to} /\ g.best >= f.best /\ g.best >= impact
      /\ g.best = f.best \/ g.best = impact
  BY <1>1, MergeEffect
<1>3. deps[f.id] \ g.left = (deps[f.id] \ f.left) \cup {to}
  BY <1>1, <1>2
<1>4. g.best \in Nat /\ deps[f.id] \subseteq Ids
  BY <1>1, <1>2, GraphAssumption DEF Frame, Scores, TypeOK
<1>5. \A y \in Ids : m[y] # None => m[y].impact \in Nat
  BY GraphAssumption DEF ImpactResult, Scores
<1>6. \A y \in deps[f.id] \ g.left : m[y] # None /\ g.best >= m[y].impact
  <2> SUFFICES ASSUME NEW y \in Ids, y \in deps[f.id] \ f.left \/ y = to
               PROVE  m[y] # None /\ g.best >= m[y].impact
    BY <1>3, <1>4
  <2>1. CASE y = to
    BY <1>2, <2>1
  <2>2. CASE y \in deps[f.id] \ f.left
    <3>1. m[y] # None /\ f.best >= m[y].impact
      BY <2>2 DEF Covered
    <3>2. m[y].impact \in Nat
      BY <1>5, <3>1
    <3> QED BY <1>1, <1>2, <1>4, <3>1, <3>2
  <2> QED BY <2>1, <2>2
<1>7. \/ g.best = own[f.id]
      \/ \E y \in deps[f.id] \ g.left : m[y] # None /\ g.best = m[y].impact
  BY <1>2, <1>3 DEF Covered
<1> QED BY <1>2, <1>6, <1>7 DEF Covered

\* The innermost call has had an answer for one of its dependencies: the memo's,
\* or, on a cycle, a blocked one.
LEMMA ContinueKeeps ==
  ASSUME SearchInv, stack # <<>>, NEW to \in Top.left,
         NEW impact \in Scores, NEW cause \in Ids \cup {None},
         Continue(Merge(Top, to, impact, cause)), UNCHANGED <<input, memo>>,
         Justified(to, impact, cause),
         ~OnCycle(Top.id) => memo[to] # None /\ memo[to].impact = impact
  PROVE  SearchInv'
<1> DEFINE n == Len(stack)
           f == Top
           m == Merge(f, to, impact, cause)
<1>0. /\ TypeOK /\ NoReentry /\ Linked /\ PathUp /\ FramesOK /\ n \in Nat
      /\ \A i \in 1..n : stack[i] \in Frame /\ stack[i].id \in Ids
      /\ \A x \in Ids : MemoOK(x)
      /\ assets' = assets /\ deps' = deps /\ own' = own /\ memo' = memo
      /\ UNCHANGED input
  BY SearchParts, InputKept
<1>1. n \in 1..n /\ f = stack[n] /\ f \in Frame
  BY <1>0, EmptySeq DEF TypeOK, Top
<1>2. FrameOK(f) /\ f.left \subseteq deps[f.id] /\ to \in Ids /\ f.id \in Ids
  BY <1>0, <1>1 DEF FramesOK, TypeOK, Frame
<1>3. m \in Frame /\ m.id = f.id /\ m.left = f.left \ {to}
  BY <1>1, <1>2, MergeEffect
<1>4. FrameOK(m)
  <2>1. Justified(m.id, m.best, m.cause)
    BY <1>0, <1>1, <1>2, MergeJustified DEF FrameOK
  <2>2. ~OnCycle(m.id) => Covered(m, memo)
    <3>1. memo \in [Ids -> ImpactResult \cup {None}]
      BY <1>0 DEF TypeOK
    <3>2. m.id = Top.id
      BY <1>3
    <3> QED BY <1>0, <1>1, <1>2, <3>1, <3>2, MergeCovered DEF FrameOK
  <2> QED BY <2>1, <2>2 DEF FrameOK
<1>5. Continue(m)
  OBVIOUS
<1>6. /\ stack' \in Seq(Frame) /\ Len(stack') = n /\ stack'[n] = m
      /\ \A i \in 1..n : i # n => stack'[i] = stack[i]
  BY <1>0, <1>3, <1>5, ContinueEffect
<1> HIDE DEF m, n, f
<1>7. \A i \in 1..n : /\ stack'[i].id = stack[i].id
                      /\ stack'[i].left \subseteq stack[i].left
                      /\ i # n => stack'[i].left = stack[i].left
  BY <1>1, <1>3, <1>6
<1>8. TypeOK'
  BY <1>0, <1>6, <1>7 DEF TypeOK, n
<1>9. NoReentry'
  BY <1>0, <1>6, <1>7 DEF NoReentry, n
<1>10. Linked'
  <2> SUFFICES ASSUME NEW i \in 1..n, i + 1 \in 1..n
               PROVE  stack'[i + 1].id \in stack'[i].left
    BY <1>6 DEF Linked
  <2>1. i # n
    BY <1>0
  <2> QED BY <1>0, <1>7, <2>1 DEF Linked, n
<1>11. PathUp'
  BY <1>0, <1>6, <1>7, InputKept DEF PathUp, n
<1>12. FramesOK'
  <2> SUFFICES ASSUME NEW i \in 1..n, NEW g \in Frame, g = stack'[i]
               PROVE  FrameOK(g)'
    BY <1>6 DEF FramesOK
  <2>1. FrameOK(g)
    BY <1>0, <1>4, <1>6 DEF FramesOK, n
  <2> QED BY <1>0, <2>1, FrameKept
<1>13. \A x \in Ids : MemoOK(x)'
  BY <1>0, MemoKept
<1> QED BY <1>8, <1>9, <1>10, <1>11, <1>12, <1>13 DEF SearchInv

\* The innermost call returns: its result is kept and its caller goes on.
LEMMA ReturnKeeps == ASSUME SearchInv, Return PROVE SearchInv'
<1> DEFINE n == Len(stack)
<1>0. /\ TypeOK /\ NoReentry /\ Linked /\ PathUp /\ FramesOK /\ n \in Nat
      /\ \A i \in 1..n : stack[i] \in Frame /\ stack[i].id \in Ids
      /\ \A x \in Ids : MemoOK(x)
      /\ assets' = assets /\ deps' = deps /\ own' = own
      /\ UNCHANGED input
  BY SearchParts, InputKept DEF Return
<1>a. stack # <<>> /\ Top.left = {} /\ Remember(Top.id) /\ stack' = Popped
  BY DEF Return
<1>1. n \in 1..n /\ Top = stack[n]
  BY <1>0, <1>a, EmptySeq DEF TypeOK, Top
<1>2. PICK t \in Frame : t = stack[n] /\ t = Top
  BY <1>0, <1>1
<1>3. /\ t.id \in Ids /\ t.left = {} /\ t.best \in Scores /\ t.cause \in Ids \cup {None}
      /\ memo[t.id] = None /\ Justified(t.id, t.best, t.cause)
      /\ ~OnCycle(t.id) => Covered(t, memo)
  BY <1>0, <1>a, <1>1, <1>2 DEF Frame, NoReentry, FramesOK, FrameOK
<1> DEFINE r == [impact |-> t.best, cause |-> t.cause, inherited |-> t.best > own[t.id]]
<1>4. r \in ImpactResult /\ r # None /\ r.impact = t.best /\ r.cause = t.cause
      /\ r.inherited = (t.best > own[t.id])
  <2>1. (t.best > own[t.id]) \in BOOLEAN
    OBVIOUS
  <2>2. r \in ImpactResult
    <3> DEFINE b == t.best > own[t.id]
    <3>1. b \in BOOLEAN
      BY <2>1
    <3> HIDE DEF b
    <3>2. [impact |-> t.best, cause |-> t.cause, inherited |-> b] \in ImpactResult
      BY <1>3, <3>1 DEF ImpactResult
    <3> QED BY <3>2 DEF b
  <2> QED BY <2>2, GraphAssumption
<1>5. memo' = [memo EXCEPT ![t.id] = r]
  BY <1>a, <1>2 DEF Remember
<1> HIDE DEF r, n
<1>6. /\ memo' \in [Ids -> ImpactResult \cup {None}] /\ memo'[t.id] = r
      /\ \A y \in Ids : y # t.id => memo'[y] = memo[y]
      /\ \A y \in Ids : memo[y] # None => memo'[y] = memo[y]
  BY <1>0, <1>3, <1>4, <1>5 DEF TypeOK
<1>7. \A x \in Ids : MemoOK(x)'
  <2>1. \A x \in Ids : x # t.id => MemoOK(x)'
    BY <1>0, <1>6, MemoKept
  <2>2. Justified(t.id, memo[t.id].impact, memo[t.id].cause)'
    BY <1>0, <1>3, <1>4, <1>6, InputKept DEF Justified, Reaches
  <2>3. memo'[t.id].inherited = (memo'[t.id].impact > own'[t.id])
    BY <1>0, <1>4, <1>6
  <2>4. ASSUME ~OnCycle(t.id) PROVE EquationAt(t.id)'
    <3>1. deps[t.id] \subseteq Ids /\ t.best >= own[t.id]
      BY <1>0, <1>3 DEF TypeOK, Justified
    <3>2. \A y \in deps[t.id] : memo'[y] = memo[y] /\ memo[y] # None /\ t.best >= memo[y].impact
      BY <1>3, <1>6, <2>4, <3>1 DEF Covered
    <3>3. t.best = own[t.id] \/ \E y \in deps[t.id] : t.best = memo[y].impact
      BY <1>3, <2>4 DEF Covered
    <3> QED BY <1>0, <1>4, <1>6, <3>1, <3>2, <3>3 DEF EquationAt
  <2>5. MemoOK(t.id)'
    BY <1>0, <1>3, <2>2, <2>3, <2>4, InputKept DEF MemoOK
  <2> QED BY <2>1, <2>5
\* The caller, if there is one.
<1> DEFINE p == stack[n - 1]
           m == Merge(p, t.id, t.best, t.cause)
<1>8. ASSUME n - 1 \in 1..n
      PROVE  /\ m \in Frame /\ m.id = p.id /\ m.left = p.left \ {t.id} /\ p \in Frame
             /\ \A f \in Frame : f = m => FrameOK(f)'
  <2>1. PICK q \in Frame : q = stack[n - 1]
    BY <1>0, <1>8 DEF n
  <2>2. q.left \subseteq deps[q.id] /\ FrameOK(q) /\ q.id \in Ids
    BY <1>0, <1>8, <2>1 DEF TypeOK, FramesOK, Frame, n
  <2>3. t.id \in q.left
    <3>1. (n - 1) + 1 = n
      BY <1>0 DEF n
    <3> QED BY <1>0, <1>1, <1>2, <1>8, <2>1, <3>1 DEF Linked, n
  <2>4. PICK g \in Frame : g = m /\ g.id = q.id /\ g.left = q.left \ {t.id}
    <3> DEFINE h == Merge(q, t.id, t.best, t.cause)
    <3>1. h \in Frame /\ h.id = q.id /\ h.left = q.left \ {t.id}
      BY <1>3, MergeEffect
    <3>2. h = m
      BY <2>1
    <3> QED BY <3>1, <3>2
  <2>5. Justified(g.id, g.best, g.cause)
    BY <1>0, <1>3, <2>1, <2>2, <2>3, <2>4, MergeJustified DEF FrameOK
  <2>6. Justified(g.id, g.best, g.cause)'
    BY <2>4, <2>5, InputKept, <1>0 DEF Frame
  <2>7. ASSUME ~OnCycle(g.id) PROVE Covered(g, memo')
    <3>1. FrameOK(q)'
      BY <1>0, <1>6, <2>2, FrameKept
    <3>2. Covered(q, memo)'
      BY <1>0, <2>2, <2>4, <2>7, <3>1, InputKept DEF FrameOK
    <3>3. Covered(q, memo')
      BY <1>0, <3>2 DEF Covered
    <3>4. memo'[t.id] # None /\ memo'[t.id].impact = t.best
      BY <1>4, <1>6
    <3> QED BY <1>0, <1>3, <1>6, <2>1, <2>2, <2>3, <2>4, <3>3, <3>4, MergeCovered
  <2>8. ~OnCycle(g.id) => Covered(g, memo)'
    BY <1>0, <2>7 DEF Covered
  <2>9. FrameOK(g)'
    BY <2>2, <2>4, <2>6, <2>8, InputKept, <1>0 DEF FrameOK
  <2> QED BY <2>1, <2>4, <2>9
<1>9. \A i \in 1..n : i = n - 1 => Merge(stack[i], Top.id, Top.best, Top.cause) \in Frame
  BY <1>2, <1>8
<1>10. /\ stack' \in Seq(Frame) /\ Len(stack') = n - 1 /\ n \in Nat \ {0}
       /\ \A i \in 1..(n - 1) :
            stack'[i] = IF i = n - 1 THEN m ELSE stack[i]
  BY <1>0, <1>a, <1>2, <1>9, PopEffect DEF n
<1>11. \A i \in 1..(n - 1) : i \in 1..n
  BY <1>10
<1>12. \A i \in 1..(n - 1) :
         /\ stack'[i].id = stack[i].id
         /\ stack'[i].left \subseteq stack[i].left
         /\ i # n - 1 => stack'[i] = stack[i]
  <2> SUFFICES ASSUME NEW i \in 1..(n - 1)
               PROVE  /\ stack'[i].id = stack[i].id
                      /\ stack'[i].left \subseteq stack[i].left
                      /\ i # n - 1 => stack'[i] = stack[i]
    OBVIOUS
  <2>1. CASE i = n - 1
    <3>1. m.id = p.id /\ m.left = p.left \ {t.id}
      BY <1>8, <1>11, <2>1
    <3>2. stack'[i] = m /\ stack[i] = p
      BY <1>10, <2>1
    <3> HIDE DEF m, p
    <3> QED BY <2>1, <3>1, <3>2
  <2>2. CASE i # n - 1
    BY <1>10, <2>2
  <2> QED BY <2>1, <2>2
<1> HIDE DEF m, p
<1>13. TypeOK'
  <2>1. ASSUME NEW i \in 1..(n - 1)
        PROVE  stack'[i].left \subseteq deps[stack'[i].id]
    <3>1. i \in 1..n
      BY <1>11
    <3>2. stack[i].left \subseteq deps[stack[i].id]
      BY <1>0, <3>1 DEF TypeOK, n
    <3> QED BY <1>12, <3>2
  <2> QED BY <1>0, <1>6, <1>10, <2>1 DEF TypeOK
<1>14. NoReentry'
  <2>1. \A i \in 1..(n - 1) : stack[i].id \in Ids /\ stack[i].id # t.id
    BY <1>0, <1>1, <1>2, <1>10, <1>11 DEF NoReentry, n
  <2>2. \A i \in 1..(n - 1) : memo'[stack'[i].id] = None
    BY <1>0, <1>6, <1>11, <1>12, <2>1 DEF NoReentry, n
  <2> QED BY <1>0, <1>10, <1>11, <1>12, <2>2 DEF NoReentry, n
<1>15. Linked'
  <2> SUFFICES ASSUME NEW i \in 1..(n - 1), i + 1 \in 1..(n - 1)
               PROVE  stack'[i + 1].id \in stack'[i].left
    BY <1>10 DEF Linked
  <2>1. i # n - 1 /\ i + 1 \in 1..n
    BY <1>10, <1>11
  <2> QED BY <1>0, <1>11, <1>12, <2>1 DEF Linked, n
<1>16. PathUp'
  <2> SUFFICES ASSUME NEW i \in 1..(n - 1), NEW k \in 1..(n - 1), i <= k,
                      NEW x \in Ids, NEW y \in Ids, x = stack'[i].id, y = stack'[k].id
               PROVE  Reaches(x, y)
    BY <1>0, <1>10, InputKept DEF PathUp
  <2> QED BY <1>0, <1>11, <1>12 DEF PathUp, n
<1>17. FramesOK'
  <2> SUFFICES ASSUME NEW i \in 1..(n - 1), NEW g \in Frame, g = stack'[i]
               PROVE  FrameOK(g)'
    BY <1>10 DEF FramesOK
  <2>1. CASE i = n - 1
    BY <1>8, <1>10, <1>11, <2>1
  <2>2. CASE i # n - 1
    <3>1. FrameOK(g)
      BY <1>0, <1>11, <1>12, <2>2 DEF FramesOK, n
    <3> QED BY <1>0, <1>6, <3>1, FrameKept
  <2> QED BY <2>1, <2>2
<1> QED BY <1>7, <1>13, <1>14, <1>15, <1>16, <1>17 DEF SearchInv

-----------------------------------------------------------------------------
(* Every step, and the theorems.                                           *)

LEMMA SearchStep == SearchInv /\ [Next]_vars => SearchInv'
<1> SUFFICES ASSUME SearchInv, [Next]_vars PROVE SearchInv'
  OBVIOUS
<1>0. /\ TypeOK /\ NoReentry /\ PathUp /\ Len(stack) \in Nat
      /\ \A i \in 1..Len(stack) : stack[i] \in Frame /\ stack[i].id \in Ids
      /\ \A x \in Ids : MemoOK(x)
  BY SearchParts
<1>1. ASSUME NEW a \in assets, Root(a) PROVE SearchInv'
  <2>1. a \in Ids /\ ~Visiting(a)
    <3>1. stack = <<>> => 1..Len(stack) = {}
      BY EmptySeq
    <3> QED BY <1>0, <1>1, <3>1 DEF TypeOK, Root, Visiting
  <2> QED BY <1>1, <2>1, EnterKeeps DEF Root
<1>2. ASSUME stack # <<>>, NEW to \in Top.left, Cached(to) \/ Blocked(to) \/ Call(to)
      PROVE  SearchInv'
  <2>1. Len(stack) \in 1..Len(stack) /\ Top = stack[Len(stack)] /\ Top.id \in Ids
    BY <1>0, <1>2, EmptySeq DEF TypeOK, Top
  <2>2. to \in deps[Top.id] /\ to \in Ids
    BY <1>0, <1>2, <2>1 DEF TypeOK
  <2>3. CASE Cached(to)
    <3>1. /\ memo[to].impact \in Scores /\ memo[to].cause \in Ids \cup {None}
          /\ Justified(to, memo[to].impact, memo[to].cause) /\ memo[to] # None
      BY <1>0, <2>2, <2>3 DEF Cached, TypeOK, ImpactResult, MemoOK
    <3> QED BY <1>2, <2>3, <3>1, ContinueKeeps DEF Cached
  <2>4. CASE Blocked(to)
    <3>1. PICK i \in 1..Len(stack) : stack[i].id = to
      BY <2>4 DEF Blocked, Visiting
    <3>2. i <= Len(stack)
      BY <1>0
    <3>3. Reaches(to, Top.id)
      BY <1>0, <2>1, <2>2, <3>1, <3>2 DEF PathUp
    <3>4. OnCycle(Top.id)
      BY <2>2, <3>3 DEF OnCycle
    <3>5. own[to] \in Scores /\ OwnCause(to) \in Ids \cup {None}
          /\ Justified(to, own[to], OwnCause(to))
      BY <1>0, <2>2, OwnJustified
    <3> QED BY <1>2, <2>4, <3>4, <3>5, ContinueKeeps DEF Blocked
  <2>5. CASE Call(to)
    BY <1>2, <2>2, <2>5, EnterKeeps DEF Call
  <2> QED BY <1>2, <2>3, <2>4, <2>5
<1>3. CASE UNCHANGED vars
  <2>1. UNCHANGED input /\ stack' = stack /\ memo' = memo
    BY <1>3 DEF vars
  <2>2. assets' = assets /\ deps' = deps /\ own' = own
    BY <2>1, InputKept
  <2>3. TypeOK' /\ NoReentry' /\ Linked' /\ PathUp'
    BY <2>1, <2>2, SearchParts, InputKept DEF TypeOK, NoReentry, Linked, PathUp
  <2>4. FramesOK'
    <3> SUFFICES ASSUME NEW i \in 1..Len(stack), NEW g \in Frame, g = stack[i]
                 PROVE  FrameOK(g)'
      BY <2>1 DEF FramesOK
    <3>1. FrameOK(g)
      BY SearchParts DEF FramesOK
    <3> QED BY <1>0, <2>1, <3>1, FrameKept
  <2>5. \A x \in Ids : MemoOK(x)'
    BY <1>0, <2>1, MemoKept
  <2> QED BY <2>3, <2>4, <2>5 DEF SearchInv
<1> QED BY <1>1, <1>2, <1>3, ReturnKeeps DEF Next, Visit

LEMMA SearchInvariant == Spec => []SearchInv
<1> QED BY SearchInit, SearchStep, PTL DEF Spec

\* The state of the search has its types: scores stay in range and every root
\* cause is an asset.
THEOREM TypeCorrect == Spec => []TypeOK
<1>1. SearchInv => TypeOK
  BY DEF SearchInv
<1> QED BY <1>1, SearchInvariant, PTL

\* No asset is computed by two calls at once, on any graph: the recursion is
\* no deeper than there are assets.
THEOREM CallsDoNotReenter == Spec => []NoReentry
<1>1. SearchInv => NoReentry
  BY DEF SearchInv
<1> QED BY <1>1, SearchInvariant, PTL

\* Every impact is the own score of the root cause reported with it, and the
\* asset reaches it, on graphs with cycles too.
THEOREM CausesAreJustified == Spec => []CauseJustified
<1>1. SearchInv => CauseJustified
  <2> SUFFICES ASSUME SearchInv, NEW id \in Ids, memo[id] # None
               PROVE  /\ memo[id].impact >= own[id]
                      /\ memo[id].inherited = (memo[id].impact > own[id])
                      /\ IF memo[id].impact = 0 THEN memo[id].cause = None
                         ELSE /\ memo[id].cause \in Ids
                              /\ own[memo[id].cause] = memo[id].impact
                              /\ Reaches(id, memo[id].cause)
    BY DEF CauseJustified
  <2>1. MemoOK(id)
    BY SearchParts
  <2> QED BY <2>1 DEF MemoOK, Justified
<1> QED BY <1>1, SearchInvariant, PTL

\* An asset on no cycle has the impact the equation of propagateRisk gives it,
\* whatever cycles there are elsewhere and in whatever order the lists come.
THEOREM EquationHoldsOffCycles == Spec => []EquationOffCycles
<1>1. SearchInv => EquationOffCycles
  BY DEF SearchInv, MemoOK, EquationOffCycles
<1> QED BY <1>1, SearchInvariant, PTL
=============================================================================
