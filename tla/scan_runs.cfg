SPECIFICATION Spec
CONSTANTS
  Histories <- Submitted
  Advisories <- Advice
  Times = {0, 41}
  Orders <- Ordered
  ReadGroups <- Groups
  Opened <- Shown
  MaxParallel = 3
  MaxCuts = 1
INVARIANTS
  StaleScoreExplained
  RefsLinkedOrReported
  HiddenOnlyIfTorn
  FiguresAgree
  ImpactedByName
PROPERTIES
  PrintedIsStored
CHECK_DEADLOCK FALSE
