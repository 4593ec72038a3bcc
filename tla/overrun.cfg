SPECIFICATION FairSpec
CONSTANTS
  Workers = {w1,w2}
  w1 = w1
  w2 = w2
  MaxJobs = 2
  Lease = 2
  MaxAttempts = 2
  RetryBase = 1
  MayOverrun = TRUE
  LostAcks = {"claimNext", "complete"}
  MaxFaults = 2
  AttemptCap = 9
INVARIANTS
  ClaimsDistinct
  OutcomeSound
PROPERTIES
  EveryJobSettles
