\* A tree with nodes of two to three entries, loaded and then edited.
CONSTANTS
  MinChildItems = 2
  MaxChildItems = 3
  Maps <- MCMaps
  Saved <- MCSaved
  MayDelete = TRUE
  MaxEdits = 3
  Boxes <- MCBoxes
  Points <- MCPoints
  Radii = {12, 40}
  Features = {"any", "cafe"}
  MaxCount = 3
  Span = 9
  AnyFeature = "any"
  Project <- MCProject
SPECIFICATION Spec
INVARIANT TypeOK
INVARIANT BoundsTight
INVARIANT Balanced
INVARIANT HoldsPresent
INVARIANT SearchExact
INVARIANT NearestExact
INVARIANT PagesExact
PROPERTY DeletesOne
CHECK_DEADLOCK FALSE
