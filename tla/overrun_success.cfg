SPECIFICATION Spec
CONSTANTS
  Workers = {w1,w2}
  w1 = w1
  w2 = w2
  MaxJobs = 1
  Lease = 2
  MaxAttempts = 2
  RetryBase = 1
  MayOverrun = TRUE
  LostAcks = {}
  MaxFaults = 0
  AttemptCap = 4
PROPERTIES
  SuccessIsNotLost
