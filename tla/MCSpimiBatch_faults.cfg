SPECIFICATION FairSpec
CONSTANTS
  Ways <- NoNameWay
  Nodes <- TwoNodes
  BatchSize = 1
  Faults = {"invert", "append", "save", "rtree", "merge", "meta"}
  MayCancel = TRUE
INVARIANTS
  QuiescentMerge
PROPERTIES
  MainReturns
