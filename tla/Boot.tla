-------------------------------- MODULE Boot --------------------------------
(***************************************************************************)
(* How API processes come up on one Postgres database (main in apps/api,   *)
(* applyMigrations and PostgresTokenStore in packages/storage): a process  *)
(* waits for the advisory lock, applies every migration, lets go of the    *)
(* lock, writes the tokens of its environment and then serves.  A process  *)
(* may die anywhere; its session ends and with it the lock it holds.       *)
(*                                                                         *)
(* The lock is the database's.  Two processes that apply a file at the     *)
(* same time may fail ("not atomic", postgres.ts), so the model counts who *)
(* is applying, and the state of the schema is the last file applied.      *)
(***************************************************************************)
EXTENDS Naturals, Sequences

CONSTANTS
  Procs,         \* API processes
  NoProc,        \* the holder of a free lock
  Files,         \* how many migrations there are
  EnvTokens,     \* the tokens of OMNIGUARD_TOKENS, in order, by hash
  EnvPrincipal,  \* token -> tenant and role it is given there
  MaxCrashes     \* bound on the deaths of processes

ASSUME BootAssumption ==
  /\ NoProc \notin Procs
  /\ Files \in Nat
  /\ EnvTokens \in Seq(DOMAIN EnvPrincipal)
  /\ MaxCrashes \in Nat

VARIABLES
  proc,          \* process -> where it is in main, and its count there
  lock,          \* who holds the advisory lock
  applied,       \* the last migration applied
  tokens,        \* the table api_token: hash -> tenant and role
  crashes

boot == <<proc, lock, applied, crashes>>

Stages == {"down", "locking", "migrating", "seeding", "serving"}

At(p, stage) == proc[p].pc = stage

BootTypeOK ==
  /\ proc \in [Procs -> [pc : Stages, n : Nat]]
  /\ lock \in Procs \cup {NoProc}
  /\ applied \in 0..Files
  /\ crashes \in 0..MaxCrashes

BootInit ==
  /\ proc = [p \in Procs |-> [pc |-> "down", n |-> 0]]
  /\ lock = NoProc
  /\ applied = 0
  /\ tokens = [t \in {} |-> 0]
  /\ crashes = 0

Move(p, stage, n) == proc' = [proc EXCEPT ![p] = [pc |-> stage, n |-> n]]

Free(p) == lock' = IF lock = p THEN NoProc ELSE lock

-----------------------------------------------------------------------------

Start(p) ==
  /\ At(p, "down")
  /\ Move(p, "locking", 0)
  /\ UNCHANGED <<lock, applied, tokens, crashes>>

\* Mutant of TakeLock: the lock is not waited for.
TakeLockAnyway(p) ==
  /\ At(p, "locking")
  /\ lock' = p
  /\ Move(p, "migrating", 0)
  /\ UNCHANGED <<applied, tokens, crashes>>

TakeLock(p) ==
  /\ At(p, "locking")
  /\ lock = NoProc
  /\ lock' = p
  /\ Move(p, "migrating", 0)
  /\ UNCHANGED <<applied, tokens, crashes>>

\* One file; all of them are applied again at every boot.
ApplyFile(p) ==
  /\ At(p, "migrating")
  /\ proc[p].n < Files
  /\ applied' = IF proc[p].n < applied THEN applied ELSE proc[p].n + 1
  /\ Move(p, "migrating", proc[p].n + 1)
  /\ UNCHANGED <<lock, tokens, crashes>>

\* Mutant of Unlock: one file early.
UnlockEarly(p) ==
  /\ At(p, "migrating")
  /\ proc[p].n + 1 >= Files
  /\ Free(p)
  /\ Move(p, "seeding", 0)
  /\ UNCHANGED <<applied, tokens, crashes>>

\* Mutant of Unlock: the lock is let go only where the session ends.
UnlockForgotten(p) ==
  /\ At(p, "migrating")
  /\ proc[p].n = Files
  /\ Move(p, "seeding", 0)
  /\ UNCHANGED <<lock, applied, tokens, crashes>>

Unlock(p) ==
  /\ At(p, "migrating")
  /\ proc[p].n = Files
  /\ Free(p)
  /\ Move(p, "seeding", 0)
  /\ UNCHANGED <<applied, tokens, crashes>>

upsertToken(t, principal) ==
  tokens' = [h \in DOMAIN tokens \cup {t} |-> IF h = t THEN principal ELSE tokens[h]]

deleteToken(t) == tokens' = [h \in DOMAIN tokens \ {t} |-> tokens[h]]

\* seedTokens, a statement for each token of the environment.
Seed(p) ==
  /\ At(p, "seeding")
  /\ proc[p].n < Len(EnvTokens)
  /\ LET t == EnvTokens[proc[p].n + 1] IN upsertToken(t, EnvPrincipal[t])
  /\ Move(p, "seeding", proc[p].n + 1)
  /\ UNCHANGED <<lock, applied, crashes>>

Listen(p) ==
  /\ At(p, "seeding")
  /\ proc[p].n = Len(EnvTokens)
  /\ Move(p, "serving", 0)
  /\ UNCHANGED <<lock, applied, tokens, crashes>>

\* The process ends, also because a migration or a seed failed.
Die(p) ==
  /\ ~At(p, "down")
  /\ crashes < MaxCrashes
  /\ crashes' = crashes + 1
  /\ Free(p)
  /\ Move(p, "down", 0)
  /\ UNCHANGED <<applied, tokens>>

BootStep(p) ==
  Start(p) \/ TakeLock(p) \/ ApplyFile(p) \/ Unlock(p) \/ Seed(p) \/ Listen(p)

-----------------------------------------------------------------------------

\* "한 번에 하나만 적용" (postgres.ts): who applies migrations holds the lock, so
\* nobody else does, and the lock is never left with a process that is not
\* applying, on whatever way it came out of it.
MigrationsSerial == \A p \in Procs : At(p, "migrating") <=> lock = p

\* No process touches a table, as it does from the seeding on, before every
\* migration is applied, whoever died while applying them.
SchemaBeforeUse ==
  \A p \in Procs : proc[p].pc \in {"seeding", "serving"} => applied = Files

\* Every process comes up in the end, after the deaths are over.
EveryBootServes == \A p \in Procs : <>[]At(p, "serving")
=============================================================================
