---------------------------- MODULE MCSpimiBatch ----------------------------
(***************************************************************************)
(* Instances of SpimiBatch for TLC.  Latitudes and longitudes overlap, as  *)
(* near the point 0, 0: the second duplicate test, which mixes them up,    *)
(* passes there.                                                           *)
(***************************************************************************)
EXTENDS SpimiBatch

MkBox(lat, lon, size) ==
  [latLo |-> lat, latHi |-> lat + size, lonLo |-> lon, lonHi |-> lon + size]

Thing(name, highway, box, nName, nAddress) ==
  [name |-> name, highway |-> highway, box |-> box,
   words |-> [name |-> nName, address |-> nAddress]]

Road(box, nAddress) == Thing("road", TRUE, box, 1, nAddress)

Inner   == MkBox(2, 2, 1)
Outer   == MkBox(0, 0, 5)
Corner  == MkBox(4, 4, 1)
Faraway == MkBox(20, 20, 1)

\* A road of four ways in two batches.  Outer passes the second test against
\* Inner only, and Corner lies in Outer: which ways are dropped depends on whose
\* box each check reads.  A batch fills its buffer, and may flush a second time.
RoadWays == <<Road(Inner, 0), Road(Outer, 1), Road(Faraway, 0), Road(Corner, 0)>>
NoNodes  == <<>>

\* A node that is indexed, a way and a node that are not and can only be
\* cancelled: with one batch more that flushes there are millions of states.
NoNameWay == <<Thing("", FALSE, Faraway, 0, 0)>>
TwoNodes  == <<Thing("road", FALSE, MkBox(6, 6, 0), 1, 1),
               Thing("", FALSE, MkBox(7, 7, 0), 0, 0)>>

=============================================================================
