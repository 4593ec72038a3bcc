----------------------------- MODULE MCApiServer ----------------------------
(* Two processes boot on one database; a manager of tokens and a client of   *)
(* scans call them.                                                           *)
EXTENDS ApiServer, TLC

CONSTANTS adm, odd, f1

MCEnvTokens == <<adm, odd>>

MCEnvPrincipal ==
  adm :> [tenant |-> "t1", role |-> "admin"] @@
  odd :> [tenant |-> "t2", role |-> "owner"]
=============================================================================
