------------------------------ MODULE MCGeofence ------------------------------
(***************************************************************************)
(* Instances of Geofence.                                                  *)
(***************************************************************************)
EXTENDS Geofence, TLC

CONSTANTS h1, h2, q1, a, b, k1, k2, k3

Symmetry == Permutations(Handlers)

C(k, at, r) == [key |-> k, at |-> at, radius |-> r]

Ask(op, fence, at, c) == [op |-> op, fence |-> fence, q |-> q1, at |-> at, circle |-> c]
Add(fence, c)         == Ask("addPoint", fence, 1, c)

Make(f)       == Ask("addFence", f, 1, C(k1, 1, 1))
Drop(f)       == Ask("deleteFence", f, 1, C(k1, 1, 1))
Move(f, at)   == Ask("setPoint", f, at, C(k1, 1, 1))
Search(f, at) == Ask("search", f, at, C(k1, 1, 1))

\* Two fences; the point moves between 2, inside of two circles of one, and 7,
\* inside of a third; one circle can move.
MCRequests ==
  {Make(a), Make(b), Drop(a), Move(a, 7), Search(a, 2), Search(a, 7), Search(b, 2),
   Add(a, C(k1, 2, 1)), Add(a, C(k2, 3, 2)), Add(a, C(k3, 5, 1)), Add(a, C(k1, 7, 1)),
   Add(b, C(k1, 2, 2))}

\* One fence, its points added and found by one client.
MCOneFence == {Make(a), Add(a, C(k1, 2, 1)), Add(a, C(k2, 3, 2)), Search(a, 2)}
=============================================================================
