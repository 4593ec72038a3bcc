---------------------------- MODULE JobLifecycle ----------------------------
(***************************************************************************)
(* What the queue and its workers promise the client that polls a job,     *)
(* with no queue, claim, lease or worker in it: a submitted job is pending *)
(* while it is tried again and again; it ends once, succeeded by one of    *)
(* the tries or given up after MaxAttempts of them, and stays as it ended. *)
(***************************************************************************)
EXTENDS Naturals

CONSTANTS Jobs, MaxAttempts

VARIABLES phase, tries

vars == <<phase, tries>>

Init ==
  /\ phase = [j \in Jobs |-> "absent"]
  /\ tries = [j \in Jobs |-> 0]

Submit(j) ==
  /\ phase[j] = "absent"
  /\ phase' = [phase EXCEPT ![j] = "pending"]
  /\ UNCHANGED tries

Try(j) ==
  /\ phase[j] = "pending"
  /\ tries' = [tries EXCEPT ![j] = @ + 1]
  /\ UNCHANGED phase

Succeed(j) ==
  /\ phase[j] = "pending"
  /\ tries[j] > 0
  /\ phase' = [phase EXCEPT ![j] = "succeeded"]
  /\ UNCHANGED tries

GiveUp(j) ==
  /\ phase[j] = "pending"
  /\ tries[j] >= MaxAttempts
  /\ phase' = [phase EXCEPT ![j] = "failed"]
  /\ UNCHANGED tries

Next == \E j \in Jobs : Submit(j) \/ Try(j) \/ Succeed(j) \/ GiveUp(j)

Spec == Init /\ [][Next]_vars
=============================================================================
