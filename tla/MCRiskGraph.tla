---------------------------- MODULE MCRiskGraph -----------------------------
(***************************************************************************)
(* propagateRisk on every graph over a few assets.                         *)
(***************************************************************************)
EXTENDS RiskGraph, TLC

\* Assets are interchangeable (not used where liveness is checked).
IdSymmetry == Permutations(Ids)
=============================================================================
