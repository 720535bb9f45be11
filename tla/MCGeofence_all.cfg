\* One client, one fence, the limits of the code.
CONSTANTS
  h1 = h1
  h2 = h2
  q1 = q1
  a = a
  b = b
  k1 = k1
  k2 = k2
  k3 = k3
  Handlers = {h1}
  Fences = {a, b}
  Keys = {k1, k2, k3}
  QueryPoints = {q1}
  Requests <- MCOneFence
  NearestK = 3
  MaxItems = 25
  MayRestart = FALSE
  MaxFences = 1
  MaxRequests = 6
SPECIFICATION Spec
INVARIANT AllContaining
CHECK_DEADLOCK FALSE
