SPECIFICATION FairSpec
CONSTANTS
  Procs = {p1, p2}
  NoProc = NoProc
  Files = 2
  adm = adm
  odd = odd
  f1 = f1
  EnvTokens <- MCEnvTokens
  EnvPrincipal <- MCEnvPrincipal
  MaxCrashes = 1
  Callers = {ci, ops}
  Managers = {ops}
  Patient = {ci}
  Fresh = {f1}
  MaxJobs = 1
  MaxAttempts = 1
  MaxPolls = 1
INVARIANTS
  MigrationsSerial
  SchemaBeforeUse
  RevokedStaysOut
  ToldTheTruth
PROPERTIES
  
  EveryCallEnds
  EveryBootServes
