\* Two handlers, two fences, one query point; a search looks at one circle.
CONSTANTS
  h1 = h1
  h2 = h2
  q1 = q1
  a = a
  b = b
  k1 = k1
  k2 = k2
  k3 = k3
  Handlers = {h1, h2}
  Fences = {a, b}
  Keys = {k1, k2, k3}
  QueryPoints = {q1}
  Requests <- MCRequests
  NearestK = 1
  MaxItems = 2
  MayRestart = TRUE
  MaxFences = 2
  MaxRequests = 6
SYMMETRY Symmetry
SPECIFICATION Spec
INVARIANT TypeOK
INVARIANT TreeMatchesMap
INVARIANT FollowedReports
PROPERTY ContainingFound
CHECK_DEADLOCK FALSE
