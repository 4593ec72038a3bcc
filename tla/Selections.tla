----------------------------- MODULE Selections -----------------------------
(***************************************************************************)
(* Parts of a list that keep its order (filter, and the Sets and Maps the  *)
(* code takes duplicates out with).  They are SelectSeq of a place, stated *)
(* with cardinalities, because what a recursion computes for every list    *)
(* cannot be proved.                                                       *)
(***************************************************************************)
EXTENDS Naturals, Sequences, FiniteSets

UpTo(S, k) == {j \in S : j <= k}

\* The n-th member of a set of numbers, the least first.
Nth(S, n) == CHOOSE k \in S : Cardinality(UpTo(S, k)) = n

\* A set of numbers as a list, the least first.
InOrder(S) == [n \in 1..Cardinality(S) |-> Nth(S, n)]

\* The items of a sequence at a set of places.
ItemsAt(s, S) == [n \in 1..Cardinality(S) |-> s[Nth(S, n)]]
=============================================================================
