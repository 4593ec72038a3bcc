SPECIFICATION FairSpec
CONSTANTS
  N = 4
  Limit = 2
  Retries = 2
  Timeout = 2
  BaseDelay = 1
INVARIANTS
  EachTakenOnce
  ResolvedIsWhole
  RejectedHasCause
  EndsInTime
PROPERTIES
  EveryLaneRests
CHECK_DEADLOCK FALSE
