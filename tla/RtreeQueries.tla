----------------------------- MODULE RtreeQueries -----------------------------
(***************************************************************************)
(* What the search server asks of the R-tree (Search, NearestNeighboursPQ, *)
(* NearestNeighboursRadiusFilterOSM, ImprovedNearestNeighbor and           *)
(* Searcher.ReverseGeocoding), and what the answers must be, stated over   *)
(* the set of objects inserted and not deleted.                            *)
(***************************************************************************)
EXTENDS Rtree

CONSTANTS
  Boxes,    \* the boxes searched
  Points,   \* the places asked about
  Radii, Features,
  MaxCount, \* bound on k and on the offset of a query
  Span,     \* half the side of the box a reverse geocoding searches
  AnyFeature, \* SKIP_OSM_FEATURE
  Project(_, _, _)  \* the place of the line from a to b that is nearest to p

\* The place nearest to p on the side of a boundary from its place i to the next, the
\* last side going back to the first place.
Foot(line, i, p) == Project(line[i], line[(i % Len(line)) + 1], p)

ASSUME QueryAssumption ==
  /\ Boxes \subseteq BoxSet /\ Points \subseteq [Axes -> Int] /\ Radii \subseteq Int
  /\ MaxCount \in Nat /\ Span \in Nat
  /\ \A m \in Maps : \A o \in DOMAIN m :
       /\ m[o].line \in Seq([Axes -> Int])
       /\ \A i \in DOMAIN m[o].line, p \in Points : Foot(m[o].line, i, p) \in [Axes -> Int]

Search(t, b) ==
  LET found[k \in 0..t.height] ==
        [n \in DOMAIN t.node |->
           LET hit == Among(Items(t, n), {x \in ToSet(Items(t, n)) : Overlaps(Bound(t, x), b)})
           IN  IF k = 0 THEN <<>>
               ELSE IF t.node[n].leaf THEN hit
               ELSE FlattenSeq([i \in DOMAIN hit |-> found[k - 1][hit[i]]])]
  IN  found[t.height][t.root]

-----------------------------------------------------------------------------
(* Distances *)

Away(x, y) == IF x < y THEN y - x ELSE x - y
Distance(p, q) == Away(p[1], q[1]) + Away(p[2], q[2])

\* The distance to the nearest place of a box: the point, clamped to the box.
MinDist(p, b) ==
  Distance(p, [a \in Axes |-> IF p[a] < b[a][1] THEN b[a][1]
                              ELSE IF p[a] > b[a][2] THEN b[a][2] ELSE p[a]])

DistanceTo(p, o) == Distance(p, map[o].at)

\* pointDistanceToOsmWay: to the nearest place of the boundary, and to the point of
\* an object that has none.
DistanceToOsmWay(p, o) ==
  LET line == map[o].line
  IN  IF line = <<>> THEN DistanceTo(p, o)
      ELSE Min({Distance(p, Foot(line, i, p)) : i \in DOMAIN line})

-----------------------------------------------------------------------------
(* MinHeap *)

Swap(h, i, j) == [h EXCEPT ![i] = h[j], ![j] = h[i]]

\* The element at i changes places with its parent until that is not larger.
SiftUp(h, i) ==
  LET after[k \in 0..Len(h)] ==
        IF k = 0 THEN [heap |-> h, at |-> i]
        ELSE LET d == after[k - 1]
                 u == d.at \div 2
             IN  IF d.at = 1 \/ d.heap[u].rank <= d.heap[d.at].rank THEN d
                 ELSE [heap |-> Swap(d.heap, d.at, u), at |-> u]
  IN  after[Len(h)].heap

\* The element at i changes places with the smaller of its children until none is smaller.
SiftDown(h, i) ==
  LET lower(g, j, k) == IF k <= Len(g) /\ g[k].rank <= g[j].rank THEN k ELSE j
      after[k \in 0..Len(h)] ==
        IF k = 0 THEN [heap |-> h, at |-> i]
        ELSE LET d == after[k - 1]
                 s == lower(d.heap, lower(d.heap, d.at, 2 * d.at), 2 * d.at + 1)
             IN  [heap |-> Swap(d.heap, d.at, s), at |-> s]
  IN  after[Len(h)].heap

HeapInsert(h, e) == SiftUp(Append(h, e), Len(h) + 1)

\* Mutant of HeapRest: the rest is not made a heap again.
HeapRestUnsifted(h) == Tail(h)

\* The root is taken out by putting the last element in its place.
HeapRest(h) ==
  IF Len(h) = 1 THEN <<>> ELSE SiftDown(Front(ReplaceAt(h, 1, Last(h))), 1)

-----------------------------------------------------------------------------
(* Nearest neighbours *)

QueueNode(rank, item, object, rect) ==
  [rank |-> rank, item |-> item, object |-> object, rect |-> rect]

\* The objects in the order the callback is given them.  An object comes out of
\* the heap once at the rank of its box and, if something may be nearer than the
\* object itself, once more at its own distance.
Handed(t, p, e, h, out) ==
  LET d == DistanceTo(p, e.item)
      entry(x) == QueueNode(MinDist(p, Bound(t, x)), x, t.node[e.item].leaf, t.node[e.item].leaf)
      with[k \in 0..Len(Items(t, e.item))] ==
        IF k = 0 THEN h ELSE HeapInsert(with[k - 1], entry(Items(t, e.item)[k]))
  IN  IF ~ e.object THEN [heap |-> with[Len(Items(t, e.item))], out |-> out]
      ELSE IF e.rect /\ h # <<>> /\ d > Head(h).rank
           THEN [heap |-> HeapInsert(h, QueueNode(d, e.item, TRUE, FALSE)), out |-> out]
      ELSE [heap |-> h, out |-> Append(out, e.item)]

HandedNext(t, p, s) ==
  IF s.heap = <<>> THEN s ELSE Handed(t, p, Head(s.heap), HeapRest(s.heap), s.out)

\* A node comes out of the heap once and an object at most twice.
Neighbours(t, p) ==
  LET after[k \in 0..(2 * Cardinality(DOMAIN t.node))] ==
        IF k = 0 THEN [heap |-> <<QueueNode(0, t.root, FALSE, FALSE)>>, out |-> <<>>]
        ELSE HandedNext(t, p, after[k - 1])
  IN  after[2 * Cardinality(DOMAIN t.node)].out

\* The callback sees an object before it can stop the stream.
NearestNeighboursPQ(t, k, p) ==
  LET s == Neighbours(t, p)
      n == Max({1, IF t.size > k THEN k ELSE t.size})
  IN  SubSeq(s, 1, Min({n, Len(s)}))

ImprovedNearestNeighbor(t, p) == Head(Neighbours(t, p))

\* The stream stops at the first object too far away.
WithinRadius(t, p, r, feature) ==
  LET s   == Neighbours(t, p)
      far == {i \in DOMAIN s : DistanceTo(p, s[i]) > r} \cup {Len(s) + 1}
  IN  Among(SubSeq(s, 1, Min(far) - 1),
            {o \in ToSet(s) : feature = AnyFeature \/ feature \in map[o].tags})

\* Mutant of NearestNeighboursRadius: a page begins with the last of the page before.
PageFromOffset(t, k, offset, p, r, feature) ==
  LET all == WithinRadius(t, p, r, feature)
      s   == IF Len(all) > offset THEN SubSeq(all, Max({offset, 1}), Len(all)) ELSE all
  IN  SubSeq(s, 1, Min({k, Len(s)}))

\* An offset past the end is ignored.
NearestNeighboursRadius(t, k, offset, p, r, feature) ==
  LET all == WithinRadius(t, p, r, feature)
      s   == IF Len(all) > offset THEN SubSeq(all, offset + 1, Len(all)) ELSE all
  IN  SubSeq(s, 1, Min({k, Len(s)}))

\* The first of the objects that overlap the box around p whose boundary is nearest.
\* Nil is the ID -1 the code then asks the document store for, which has no document
\* of that ID: an error.
ReverseGeocoding(t, p) ==
  LET s == Search(t, [a \in Axes |-> <<p[a] - Span, p[a] + Span>>])
      near == {i \in DOMAIN s : \A j \in DOMAIN s :
                 DistanceToOsmWay(p, s[i]) <= DistanceToOsmWay(p, s[j])}
  IN  IF s = <<>> THEN Nil ELSE s[Min(near)]

-----------------------------------------------------------------------------
(* Properties *)

Sound == ~ tree.twin /\ ~ tree.tied /\ ~ tree.lopped

InnerNodes == {n \in Below(tree) : ~ IsData(n)}
Held       == {n \in Below(tree) : IsData(n)}

\* No object is an entry of two nodes, or twice of one.
HeldOnce ==
  \A n, m \in InnerNodes : \A i \in DOMAIN Items(tree, n), j \in DOMAIN Items(tree, m) :
    Items(tree, n)[i] = Items(tree, m)[j] /\ IsData(Items(tree, n)[i]) => n = m /\ i = j

\* The fields have their types, and every link leads to a node.
TypeOK ==
  /\ map \in Maps /\ present \subseteq DOMAIN map /\ edits \in 0..MaxEdits
  /\ tree.root \in DOMAIN tree.node /\ tree.size \in Int /\ tree.height \in Nat
  /\ \A n \in DOMAIN tree.node :
       /\ ToSet(Items(tree, n)) \subseteq DOMAIN tree.node
       /\ tree.node[n].up \in DOMAIN tree.node \cup {Nil}
       /\ tree.node[n].leaf \in BOOLEAN
       /\ Len(Items(tree, n)) <= MaxChildItems

\* Every node's box is the smallest one around its entries, and every entry knows
\* its parent, after any sequence of splits, eliminations and reinsertions
\* (adjustTree, condenseTree): queries skip whatever lies outside a box.
BoundsTight ==
  ~ tree.twin => \A n \in InnerNodes :
     Items(tree, n) # <<>> =>
       /\ Bound(tree, n) = ComputeBB(tree, Items(tree, n))
       /\ \A x \in ToSet(Items(tree, n)) : tree.node[x].up = n

\* No node but the root has fewer than MinChildItems entries unless a split dropped
\* one, and all leaves are at the level Height says unless an entry was put back at a
\* level counted before the tree grew: what eliminating under-full nodes and putting
\* their entries back at their level is for.
Balanced ==
  ~ IsData(tree.root) =>
    /\ ~ tree.tied => \A n \in InnerNodes \ {tree.root} : Len(Items(tree, n)) >= MinChildItems
    /\ ~ tree.skewed => \A k \in 1..tree.height : \A n \in AtLevel(tree, k) :
                          ~ IsData(n) /\ (tree.node[n].leaf <=> k = tree.height)

\* The tree holds every object inserted and not deleted, once, and counts them.
HoldsPresent ==
  Sound => Held = present /\ HeldOnce /\ tree.size = Cardinality(present)

\* What the insertion tests count (rtree_test.go): every object is in the tree,
\* once, after any sequence of insertions.
EveryObjectOnce == Held = present /\ HeldOnce

\* A box query returns the objects whose box overlaps it, each once.
SearchExact ==
  Sound /\ ~ IsData(tree.root) => \A b \in Boxes :
    /\ ToSet(Search(tree, b)) = {o \in present : Overlaps(map[o].box, b)}
    /\ IsInjective(Search(tree, b))

Around(p) ==
  {o \in present : Overlaps(map[o].box, [a \in Axes |-> <<p[a] - Span, p[a] + Span>>])}

\* The k nearest neighbours are k objects, nearest first, and nothing left out is
\* nearer than one of them; the single nearest neighbour is one of the nearest.  A
\* reverse geocoding finds an object around the point if there is one, and of those
\* one whose boundary comes nearest to it.
NearestExact ==
  Sound /\ ~ IsData(tree.root) => \A p \in Points, k \in 1..MaxCount :
    LET s == NearestNeighboursPQ(tree, k, p)
    IN  /\ Len(s) = Min({k, Cardinality(present)})
        /\ IsInjective(s) /\ ToSet(s) \subseteq present
        /\ \A i, j \in DOMAIN s : i < j => DistanceTo(p, s[i]) <= DistanceTo(p, s[j])
        /\ \A i \in DOMAIN s, o \in present \ ToSet(s) :
             DistanceTo(p, s[i]) <= DistanceTo(p, o)
        /\ s # <<>> => DistanceTo(p, ImprovedNearestNeighbor(tree, p)) = DistanceTo(p, s[1])
        /\ LET o == ReverseGeocoding(tree, p)
           IN  IF Around(p) = {} THEN o = Nil
               ELSE /\ o \in Around(p)
                    /\ \A x \in Around(p) : DistanceToOsmWay(p, o) <= DistanceToOsmWay(p, x)

\* Asking for page after page of the objects within a radius gives every one of
\* them once, nearest first, as long as the offset is not past the last of them.
PagesExact ==
  Sound /\ ~ IsData(tree.root) => \A p \in Points, r \in Radii, f \in Features :
    LET match == {o \in present : DistanceTo(p, o) <= r
                                  /\ (f = AnyFeature \/ f \in map[o].tags)}
        page(k, i) == NearestNeighboursRadius(tree, k, i * k, p, r, f)
    IN  \A k \in 1..MaxCount :
          LET n == (Cardinality(match) + k - 1) \div k
              s == FlattenSeq([i \in 1..n |-> page(k, i - 1)])
          IN  /\ ToSet(s) = match /\ IsInjective(s)
              /\ \A i, j \in DOMAIN s : i < j => DistanceTo(p, s[i]) <= DistanceTo(p, s[j])

\* What one step may take out of the tree.
TakesOne ==
  /\ \A o \in present \ present' :
       o # 0 /\ ~ IsData(tree.root) /\ ~ tree'.tied => Held' = Held \ {o}
  /\ present' = present /\ ~ tree'.lopped => tree' = tree

\* A deletion takes the object asked for and nothing else: not the subtree whose
\* inner node looks like an object with ID 0, not an entry of an eliminated node,
\* which a split may drop on the way back only when its costs tie.
DeletesOne == [][TakesOne]_vars
=============================================================================
