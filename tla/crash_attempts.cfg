SPECIFICATION Spec
CONSTANTS
  Workers = {w1}
  w1 = w1
  MaxJobs = 1
  Lease = 2
  MaxAttempts = 2
  RetryBase = 1
  MayOverrun = TRUE
  LostAcks = {}
  MaxFaults = 2
  AttemptCap = 9
INVARIANTS
  AttemptsAtMostMax
