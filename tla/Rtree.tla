-------------------------------- MODULE Rtree --------------------------------
(***************************************************************************)
(* The R-tree over map objects (pkg/datastructure/rtree.go) and the heap   *)
(* of its nearest-neighbour search (pkg/datastructure/pq_rtree.go).  The   *)
(* search server loads it from the saved objects (Deserialize) and then    *)
(* only queries it; the geofence index also deletes from it.               *)
(*                                                                         *)
(* A node is a name: a map object's ID (>= 0) names the data node that     *)
(* holds it, a number below -1 an inner node.  tree.node maps the names to *)
(* the nodes' fields, so that one node can sit in two parents, as it can   *)
(* through the code's pointers.  Coordinates are small integers, and the   *)
(* distance between two points is the grid distance: of HaversineDistance  *)
(* only that it grows with the difference on either axis is used.          *)
(***************************************************************************)
EXTENDS Integers, Sequences, FiniteSets, SequencesExt, FiniteSetsExt, TLC

CONSTANTS
  MinChildItems, MaxChildItems,
  Maps,        \* the map data: a set of [ID -> [box, at, tags, line]]
  Saved,       \* the orders in which rtree.dat may hold the IDs
  MayDelete,   \* whether the tree's owner deletes, as the geofence index does
  MaxEdits     \* bound on the edits after the load

Axes == {1, 2}

BoxSet == [Axes -> Int \X Int]

ASSUME RtreeAssumption ==
  /\ MinChildItems \in Nat \ {0, 1} /\ MaxChildItems \in Nat
  /\ 2 * MinChildItems <= MaxChildItems + 1
  /\ MaxEdits \in Nat /\ MayDelete \in BOOLEAN
  /\ \A m \in Maps : \A o \in DOMAIN m :
       /\ o \in Nat /\ m[o].box \in BoxSet /\ m[o].at \in [Axes -> Int]
       /\ \A a \in Axes :
            /\ m[o].box[a][1] < m[o].box[a][2]
            /\ m[o].box[a][1] <= m[o].at[a] /\ m[o].at[a] <= m[o].box[a][2]
  /\ \A m \in Maps, s \in Saved :
       s \in Seq(Nat) /\ IsInjective(s) /\ ToSet(s) \subseteq DOMAIN m

VARIABLES
  map,      \* the map data of this behaviour
  tree,     \* the Rtree
  present,  \* the objects inserted and not deleted
  edits     \* number of edits after the load

vars == <<map, tree, present, edits>>

Nil == -1
IsData(x) == x >= 0

-----------------------------------------------------------------------------
(* Boxes *)

Union(b, c) ==
  [a \in Axes |-> <<Min({b[a][1], c[a][1]}), Max({b[a][2], c[a][2]})>>]

Side(b, a) == b[a][2] - b[a][1]
Area(b)    == Side(b, 1) * Side(b, 2)
Enlargement(b, c) == Area(Union(b, c)) - Area(b)

Overlaps(b, c) == \A a \in Axes : b[a][1] < c[a][2] /\ c[a][1] < b[a][2]

Bound(t, n) == t.node[n].bound
Items(t, n) == t.node[n].items

\* Mutant of ComputeBB: the high sides are the first entry's.
BBOfLows(t, items) ==
  [a \in Axes |-> <<Min({Bound(t, x)[a][1] : x \in ToSet(items)}), Bound(t, Head(items))[a][2]>>]

\* The union of the entries' boxes.
ComputeBB(t, items) ==
  [a \in Axes |-> <<Min({Bound(t, x)[a][1] : x \in ToSet(items)}),
                   Max({Bound(t, x)[a][2] : x \in ToSet(items)})>>]

-----------------------------------------------------------------------------
(* The tree's fields.  The last four are history: a split once used one    *)
(* entry as both seeds; a split once gave an entry to neither group; a     *)
(* deletion once took an entry of an inner node for the object; an entry   *)
(* of an inner node was once put back at a level counted before the tree   *)
(* grew.  A node the root no longer reaches keeps its name.                *)

NodeOf(items, bound, leaf, up) ==
  [items |-> items, bound |-> bound, leaf |-> leaf, up |-> up]

NoBox == [a \in Axes |-> <<0, 0>>]

NewRtree ==
  [root |-> -2, size |-> 0, height |-> 1,
   node |-> [n \in {-2} |-> NodeOf(<<>>, NoBox, TRUE, Nil)],
   twin |-> FALSE, tied |-> FALSE, lopped |-> FALSE, skewed |-> FALSE]

FreshNode(t) == Min(DOMAIN t.node) - 1

\* A node n with these fields, in place of the one of that name if there is one.
Put(t, n, fields) ==
  [t EXCEPT !.node = [x \in {n} \cup DOMAIN t.node |-> IF x = n THEN fields ELSE t.node[x]]]

SetItems(t, n, items) == Put(t, n, [t.node[n] EXCEPT !.items = items])
SetBox(t, n, box)     == Put(t, n, [t.node[n] EXCEPT !.bound = box])

\* Mutant of SetBound: the box only grows.
SetBoundGrown(t, n) == SetBox(t, n, Union(Bound(t, n), ComputeBB(t, Items(t, n))))

SetBound(t, n) == SetBox(t, n, ComputeBB(t, Items(t, n)))

SetParent(t, xs, p) ==
  [t EXCEPT !.node = [x \in DOMAIN t.node |->
     IF x \in xs THEN [t.node[x] EXCEPT !.up = p] ELSE t.node[x]]]

\* OverfullLate is a mutant of Overfull: one entry too many.
OverfullLate(t, n) == Len(Items(t, n)) > MaxChildItems + 1
Overfull(t, n)     == Len(Items(t, n)) > MaxChildItems

\* The nodes k - 1 links below the root, and all nodes and objects of the tree.
AtLevel(t, k) ==
  LET at[i \in 1..k] ==
        IF i = 1 THEN {t.root} ELSE UNION {ToSet(Items(t, n)) : n \in at[i - 1]}
  IN  at[k]

Below(t) == UNION {AtLevel(t, k) : k \in 1..(t.height + 1)}

\* The elements of a set, in the order of a sequence.
Among(s, set) ==
  LET kept[k \in 0..Len(s)] ==
        IF k = 0 THEN <<>>
        ELSE IF s[k] \in set THEN Append(kept[k - 1], s[k]) ELSE kept[k - 1]
  IN  kept[Len(s)]

-----------------------------------------------------------------------------
(* Splitting *)

\* The entry with the highest low side and the one with the lowest high side
\* along an axis, the first among equals, with their separation and the width.
Extremes(t, items, a) ==
  LET lo(i) == Bound(t, items[i])[a][1]
      hi(i) == Bound(t, items[i])[a][2]
      I  == DOMAIN items
      i1 == Min({i \in I : \A j \in I : lo(j) <= lo(i)})
      i2 == Min({i \in I : \A j \in I : hi(i) <= hi(j)})
  IN  [one |-> i1, two |-> i2, apart |-> lo(i1) - hi(i2),
       width |-> Max({hi(i) : i \in I}) - Min({lo(i) : i \in I})]

\* apart / width > apart / width of the best so far; 0 / 0 exceeds nothing.
MoreSeparated(best, e) ==
  IF /\ e.width > 0
     /\ best.width = 0 \/ e.apart * best.width > best.apart * e.width
  THEN e ELSE best

LinearPickSeeds(t, items) ==
  MoreSeparated(
    MoreSeparated([one |-> 1, two |-> 2, apart |-> 0, width |-> 0], Extremes(t, items, 1)),
    Extremes(t, items, 2))

\* The second group has no Bound yet, so only the first one's, as it was
\* before the split, tells the entries apart.
PickNext(t, l, rest) ==
  LET d(i) == Enlargement(Bound(t, l), Bound(t, rest[i]))
  IN  Min({i \in DOMAIN rest : \A j \in DOMAIN rest : d(j) <= d(i)})

\* What adding x to a group costs: the enlargement, then the area, then the entries.
Cost(t, group, x) ==
  LET bb == ComputeBB(t, group)
      en == Area(Union(bb, Bound(t, x)))
  IN  <<en - Area(bb), en, Len(group)>>

Less(c, d) == \E i \in 1..3 : c[i] < d[i] /\ \A j \in 1..(i - 1) : c[j] = d[j]

\* Neither group when all ties.
Cheaper(c, d) == IF Less(c, d) THEN "one" ELSE IF Less(d, c) THEN "two" ELSE "neither"

Preferred(t, one, two, x) == Cheaper(Cost(t, one, x), Cost(t, two, x))

\* Mutant of GroupFor: a group may stay under-full.
GroupByCost(t, one, two, rest, x) == Preferred(t, one, two, x)

GroupFor(t, one, two, rest, x) ==
  IF Len(one) + Len(rest) <= MinChildItems THEN "one"
  ELSE IF Len(two) + Len(rest) <= MinChildItems THEN "two"
  ELSE Preferred(t, one, two, x)

Assign(d, i, group) ==
  [one  |-> IF group = "one" THEN Append(d.one, d.rest[i]) ELSE d.one,
   two  |-> IF group = "two" THEN Append(d.two, d.rest[i]) ELSE d.two,
   rest |-> RemoveAt(d.rest, i)]

AssignPicked(t, d, i) == Assign(d, i, GroupFor(t, d.one, d.two, d.rest, d.rest[i]))

\* Pick and assign one entry after another, until none is left.
Distribute(t, l, one, two, rest) ==
  LET after[k \in 0..Len(rest)] ==
        IF k = 0 THEN [one |-> <<one>>, two |-> <<two>>, rest |-> rest]
        ELSE AssignPicked(t, after[k - 1], PickNext(t, l, after[k - 1].rest))
  IN  after[Len(rest)]

\* [tree, new]: l keeps the first group, the new node holds the second.
Halves(t, l, seeds, g) ==
  LET new == FreshNode(t)
      t1  == Put(SetItems(t, l, g.one), new,
                     NodeOf(g.two, NoBox, t.node[l].leaf, t.node[l].up))
      t2  == [t1 EXCEPT !.twin = t.twin \/ Cardinality(seeds) = 1,
                        !.tied = t.tied \/ ToSet(Items(t, l)) # ToSet(g.one) \cup ToSet(g.two)]
  IN  [tree |-> SetParent(SetParent(t2, ToSet(g.one), l), ToSet(g.two), new), new |-> new]

SplitAt(t, l, one, two) ==
  Halves(t, l, {one, two},
         Distribute(t, l, one, two, Among(Items(t, l), ToSet(Items(t, l)) \ {one, two})))

SplitBy(t, l, s) == SplitAt(t, l, Items(t, l)[s.one], Items(t, l)[s.two])

SplitNode(t, l) == SplitBy(t, l, LinearPickSeeds(t, Items(t, l)))

SplitOverfull(t, n) ==
  IF Overfull(t, n) THEN SplitNode(t, n) ELSE [tree |-> t, new |-> Nil]

-----------------------------------------------------------------------------
(* Inserting *)

\* The second half of a split becomes an entry of p.
Attach(t, nn, p) ==
  SetParent(SetBound(SetItems(t, p, Append(Items(t, p), nn)), nn), {nn}, p)

Attached(t, nn, p) ==
  IF nn = Nil THEN [tree |-> t, new |-> Nil] ELSE SplitOverfull(Attach(t, nn, p), p)

At(u, n) == [tree |-> u.tree, new |-> u.new, at |-> n]

\* One turn of adjustTree, at a node s.at that is not the root: its parent gets
\* the node's box and its second half, if there is one, and is split if it overflows.
Climbed(s) ==
  LET t  == s.tree
      p  == t.node[s.at].up
      en == IF s.at \in ToSet(Items(t, p)) THEN s.at ELSE Head(Items(t, p))
  IN  At(Attached(SetBox(t, en, ComputeBB(t, Items(t, s.at))), s.new, p), p)

ClimbedUnlessRoot(s) == IF s.at = s.tree.root THEN s ELSE Climbed(s)

RootBound(s) == [tree |-> SetBound(s.tree, s.tree.root), new |-> s.new]

\* s is [tree, new]: bounds set from n up to the root; new is the root's second half.
AdjustTree(s, n) ==
  LET after[k \in 0..s.tree.height] ==
        IF k = 0 THEN At(s, n) ELSE ClimbedUnlessRoot(after[k - 1])
  IN  RootBound(after[s.tree.height])

\* The halves of a split root become the entries of a new one.
GrowRoot(t, one, two) ==
  LET r  == FreshNode(t)
      t1 == [Put(t, r, NodeOf(<<one, two>>, NoBox, FALSE, Nil))
               EXCEPT !.root = r, !.height = t.height + 1]
  IN  SetBound(SetParent(t1, {one, two}, r), r)

Grown(s) ==
  IF s.new = Nil THEN s.tree ELSE GrowRoot(SetBound(s.tree, s.new), s.tree.root, s.new)

\* Append x to node n, split n if it overflows, adjust, and grow a new root.
AddEntry(t, n, x) ==
  Grown(AdjustTree(
    SplitOverfull(SetParent(SetItems(t, n, Append(Items(t, n), x)), {x}, n), n), n))

\* The loop keeps the index and the enlargement of the entry chosen so far, and
\* compares an entry's enlarged area with the chosen one's present area.
ChooseEntry(t, n, b) ==
  LET items == Items(t, n)
      best[i \in 1..Len(items)] ==
        LET c == Bound(t, items[i])
            e == Enlargement(c, b)
            so == best[i - 1]
        IN  IF \/ i = 1
               \/ e < so.e
               \/ e = so.e /\ Area(Union(c, b)) < Area(Bound(t, items[so.i]))
            THEN [i |-> i, e |-> e] ELSE so
  IN  items[best[Len(items)].i]

ChooseLeaf(t, b) ==
  LET at[k \in 1..t.height] ==
        IF k = 1 THEN t.root
        ELSE IF t.node[at[k - 1]].leaf THEN at[k - 1] ELSE ChooseEntry(t, at[k - 1], b)
  IN  at[t.height]

ChooseLevel(t, b, level) ==
  LET at[k \in 1..level] == IF k = 1 THEN t.root ELSE ChooseEntry(t, at[k - 1], b)
  IN  at[level]

WithData(t, o, b) == Put(t, o, NodeOf(<<>>, b, FALSE, Nil))

InsertLeaf(t, o, b, reinsert) ==
  [AddEntry(WithData(t, o, b), ChooseLeaf(t, b), o)
     EXCEPT !.size = IF reinsert THEN t.size ELSE t.size + 1]

\* A tree whose root is an object panics before anything changes.
Inserted(t, o, b) ==
  IF IsData(t.root) THEN t ELSE InsertLeaf(t, o, b, FALSE)

InsertLevel(t, n, level) ==
  AddEntry(t, ChooseLevel(t, Bound(t, n), level), n)

-----------------------------------------------------------------------------
(* Deleting *)

\* Only data nodes have a Leaf with an ID of its own: elsewhere it is 0.
LeafID(x) == IF IsData(x) THEN x ELSE 0

NotFound == [node |-> Nil, level |-> 0]

\* For every node, k levels above the objects: the node below it whose entry has
\* the object's ID, the first in order, with its level counted from that node.
FindLeaf(t, o) ==
  LET b == map[o].box
      found[k \in 0..t.height] ==
        [n \in DOMAIN t.node |->
           LET items == Items(t, n)
               below == {i \in DOMAIN items :
                           /\ k > 0 /\ ~ t.node[n].leaf /\ Overlaps(Bound(t, items[i]), b)
                           /\ found[k - 1][items[i]] # NotFound}
               sub == found[k - 1][items[Min(below)]]
           IN  IF below # {} THEN [sub EXCEPT !.level = @ + 1]
               ELSE IF k > 0 /\ \E x \in ToSet(items) : LeafID(x) = o
                    THEN [node |-> n, level |-> 1]
               ELSE NotFound]
  IN  found[t.height][t.root]

\* An entry is removed by putting the last one in its place.
\* DropLast is a mutant of SwapOut: the last entry goes instead.
DropLast(s, i) == Front(s)
SwapOut(s, i)  == Front(ReplaceAt(s, i, Last(s)))

\* Mutant of Reinsert: only the entries of leaves are put back.
ReinsertLeaves(t, e, height) ==
  IF e.leaf THEN InsertLeaf(t, e.entry, Bound(t, e.entry), TRUE) ELSE t

\* An entry of an eliminated node is put back, below a node at that node's level.
Reinsert(t, e, height) ==
  IF e.leaf THEN InsertLeaf(t, e.entry, Bound(t, e.entry), TRUE)
  ELSE InsertLevel([SetBound(t, e.entry) EXCEPT !.skewed = t.skewed \/ t.height # height],
                   e.entry, e.level)

\* One turn of condenseTree, at a node s.at that is not the root: an under-full
\* node is taken out of its parent, and its entries wait.
Condensed(s) ==
  LET t == s.tree
      p == t.node[s.at].up
      i == CHOOSE j \in DOMAIN Items(t, p) : Items(t, p)[j] = s.at
      entries == [j \in DOMAIN Items(t, s.at) |->
                    [entry |-> Items(t, s.at)[j], leaf |-> t.node[s.at].leaf, level |-> s.level]]
      under == Len(Items(t, s.at)) < MinChildItems
  IN  [tree  |-> IF under THEN SetItems(t, p, SwapOut(Items(t, p), i)) ELSE SetBound(t, s.at),
       queue |-> IF under THEN s.queue \o entries ELSE s.queue,
       at |-> p, level |-> s.level - 1]

\* At the root: the entries that wait are put back.
ReinsertAll(s) ==
  LET root == IF Items(s.tree, s.at) = <<>> THEN s.tree ELSE SetBound(s.tree, s.at)
      with[k \in 0..Len(s.queue)] ==
        IF k = 0 THEN root ELSE Reinsert(with[k - 1], s.queue[k], s.tree.height)
  IN  with[Len(s.queue)]

CondenseTree(t, n, level) ==
  LET after[k \in 1..level] ==
        IF k = 1 THEN [tree |-> t, queue |-> <<>>, at |-> n, level |-> level]
        ELSE Condensed(after[k - 1])
  IN  ReinsertAll(after[level])

\* If the root has one child the child becomes the root, an object included.
ShortenTree(t) ==
  IF Len(Items(t, t.root)) # 1 THEN t
  ELSE LET r == Head(Items(t, t.root))
       IN  SetParent([t EXCEPT !.root = r, !.height = t.height - 1], {r}, Nil)

Removed(t, o, f) ==
  LET items == Items(t, f.node)
      i == Min({j \in DOMAIN items : LeafID(items[j]) = o})
  IN  [CondenseTree(SetItems(t, f.node, SwapOut(items, i)), f.node, f.level)
         EXCEPT !.size = t.size - 1, !.lopped = t.lopped \/ ~ t.node[f.node].leaf]

DeletedAt(t, o, f) == IF f = NotFound THEN t ELSE ShortenTree(Removed(t, o, f))

Deleted(t, o) == DeletedAt(t, o, FindLeaf(t, o))

-----------------------------------------------------------------------------
(* The specification *)

\* Deserialize inserts the saved objects one by one.
Load(m, s) ==
  LET after[k \in 0..Len(s)] ==
        IF k = 0 THEN NewRtree ELSE Inserted(after[k - 1], s[k], m[s[k]].box)
  IN  after[Len(s)]

Init ==
  /\ map \in Maps
  /\ \E s \in Saved :
       /\ tree = Load(map, s)
       /\ present = ToSet(s)
  /\ edits = 0

\* Bound: no object is inserted whose ID still names a node of the tree, or may name
\* one that a split dropped.
Insert(o) ==
  /\ edits < MaxEdits
  /\ o \notin present /\ o \notin Below(tree) /\ (tree.tied => o \notin DOMAIN tree.node)
  /\ tree' = Inserted(tree, o, map[o].box)
  /\ present' = IF IsData(tree.root) THEN present ELSE present \cup {o}
  /\ edits' = edits + 1
  /\ UNCHANGED map

\* A tree whose root is an object finds nothing to delete.  Bound: no deletion once a
\* split has duplicated or dropped an entry, or the leaves are at two levels.
Delete(o) ==
  /\ MayDelete /\ ~ tree.twin /\ ~ tree.tied /\ ~ tree.skewed
  /\ edits < MaxEdits
  /\ tree' = Deleted(tree, o)
  /\ present' = IF IsData(tree.root) THEN present ELSE present \ {o}
  /\ edits' = edits + 1
  /\ UNCHANGED map

Next == \E o \in DOMAIN map : Insert(o) \/ Delete(o)

Spec == Init /\ [][Next]_vars
=============================================================================
