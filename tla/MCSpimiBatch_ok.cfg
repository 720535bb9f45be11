SPECIFICATION Spec
CONSTANTS
  Ways <- RoadWays
  Nodes <- NoNodes
  BatchSize = 3
  Faults = {"append"}
  MayCancel = FALSE
INVARIANTS
  TypeOK
  DocIDsDense
  SegmentsDistinct
  IndexComplete
  DroppedIsDuplicate
  DocsHeldOnce
PROPERTIES
  ImplementsBuild
