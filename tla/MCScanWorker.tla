---------------------------- MODULE MCScanWorker ----------------------------
(***************************************************************************)
(* Small deployments of the scan workers for TLC.                          *)
(***************************************************************************)
EXTENDS ScanWorker, TLC

\* The workers are interchangeable (not used where liveness is checked).
WorkerSymmetry == Permutations(Workers)
=============================================================================
