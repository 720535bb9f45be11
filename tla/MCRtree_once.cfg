\* Insertions only, into nodes of two to four entries, of boxes of one size.
CONSTANTS
  MinChildItems = 2
  MaxChildItems = 4
  Maps <- MCGrid
  Saved <- MCEmpty
  MayDelete = FALSE
  MaxEdits = 6
  Boxes = {}
  Points = {}
  Radii = {}
  Features = {}
  MaxCount = 1
  Span = 2
  AnyFeature = "any"
  Project <- MCProject
SPECIFICATION Spec
INVARIANT EveryObjectOnce
CHECK_DEADLOCK FALSE
