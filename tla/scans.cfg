SPECIFICATION FairSpec
CONSTANTS
  AssetKeys = {k1, k2}
  k1 = k1
  k2 = k2
  Sources = {s1}
  s1 = s1
  Clients = {c1, c2}
  c1 = c1
  c2 = c2
  KeepsId = {"asset", "edge", "finding", "score"}
  BatchCap = 2
  MaxAssets = 2
  MaxEdges = 1
  MaxLinks = 1
  MaxFindings = 1
  Scans <- AllScans
INVARIANTS
  NoDangling
  UnscoredExplained
  ReturnedIsStored
PROPERTIES
  EveryScanEnds
  IdsKept
  RepeatAddsNothing
  ImplementsInventory
CHECK_DEADLOCK FALSE
