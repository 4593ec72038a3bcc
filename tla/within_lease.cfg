SPECIFICATION Spec
CONSTANTS
  Workers = {w1,w2}
  w1 = w1
  w2 = w2
  MaxJobs = 3
  Lease = 3
  MaxAttempts = 2
  RetryBase = 1
  MayOverrun = FALSE
  LostAcks = {"claimNext"}
  MaxFaults = 2
  AttemptCap = 9
SYMMETRY WorkerSymmetry
INVARIANTS
  NoDuplicateRun
  RowTellsLastAttempt
  AttemptsBounded
PROPERTIES
  SettledIsFinal
  ImplementsLifecycle
