------------------------- MODULE RtreeQueries_proofs ------------------------
(***************************************************************************)
(* Theorems about RtreeQueries, for all map data, all saved orders, all    *)
(* insertions and all deletions.  The inductive invariant is RInv: a tree  *)
(* of one object, or a tree at rest (Settled) that holds the objects       *)
(* present.                                                                *)
(***************************************************************************)
EXTENDS RtreeQueries, Rtree_proofs

(* The inductive invariant *)

\* The root of tree t is an object: what a deletion leaves that takes all others.
Lone(t, p) ==
  /\ t \in Trees /\ Linked(t) /\ Fits(t, {}) /\ IsData(t.root) /\ Items(t, t.root) = <<>>
  /\ ~ t.tied /\ ~ t.lopped => p = {t.root} /\ t.size = 1

MapInv ==
  map \in Maps /\ present \subseteq DOMAIN map /\ IsFiniteSet(present) /\ edits \in 0..MaxEdits

RInv == MapInv /\ (Lone(tree, present) \/ Holds(tree, map, present))

LEMMA InitRInv ==
  ASSUME Init
  PROVE  RInv
  <1>1. PICK s \in Saved : tree = Load(map, s) /\ present = ToSet(s)
    BY DEF Init
  <1>2. map \in Maps /\ edits = 0
    BY DEF Init
  <1>3. /\ Holds(Load(map, s), map, ToSet(s)) /\ ToSet(s) \subseteq DOMAIN map /\ IsFiniteSet(ToSet(s))
    BY <1>2, LoadIs
  <1>4. edits \in 0..MaxEdits
    BY <1>2, RtreeAssumption
  <1> QED BY <1>1, <1>2, <1>3, <1>4 DEF RInv, MapInv

LEMMA LoneBelow ==
  ASSUME NEW t, NEW p, Lone(t, p)
  PROVE  Below(t) = {t.root}
  <1>1. t \in Trees /\ Linked(t) /\ Items(t, t.root) = <<>> /\ t.height \in Nat
    BY TreeIs DEF Lone
  <1>2. ToSet(Items(t, t.root)) = {}
    BY <1>1 DEF ToSet
  <1>3. ASSUME NEW k \in Nat \ {0}
        PROVE  AtLevel(t, k) \subseteq {t.root}
    <2>1. PICK V : V = [i \in 1..k |-> {t.root}]
      OBVIOUS
    <2>2. \A i \in 1..k : V[i] = {t.root}
      BY <2>1
    <2>3. 1 \in 1..k /\ k \in 1..k /\ \A i \in 2..k : i \in 1..k /\ i - 1 \in 1..k
      OBVIOUS
    <2>4. AtLevel(t, k) \subseteq V[k]
      <3>1. t.root \in V[1]
        BY <2>2, <2>3
      <3>2. \A i \in 2..k : \A n \in V[i - 1] : ToSet(Items(t, n)) \subseteq V[i]
        BY <1>2, <2>2, <2>3
      <3> QED BY <1>1, <3>1, <3>2, LevelWithin
    <2> QED BY <2>2, <2>3, <2>4
  <1>4. {t.root} \subseteq AtLevel(t, 1)
    <2>1. PICK V : V = [i \in 1..1 |-> {t.root}]
      OBVIOUS
    <2>2. V[1] = {t.root} /\ 2..1 = {}
      BY <2>1
    <2>3. V[1] \subseteq AtLevel(t, 1)
      <3>1. \A i \in 2..1 : \A x \in V[i] : \E n \in V[i - 1] : x \in ToSet(Items(t, n))
        BY <2>2
      <3>2. 1 \in Nat \ {0} /\ V[1] \subseteq {t.root}
        BY <2>2
      <3> QED BY <1>1, <3>1, <3>2, LevelCovers
    <2> QED BY <2>2, <2>3
  <1>5. 1 \in 1..(t.height + 1) /\ \A k \in 1..(t.height + 1) : k \in Nat \ {0}
    BY <1>1
  <1> QED BY <1>3, <1>4, <1>5 DEF Below

LEMMA InsertRInv ==
  ASSUME RInv, NEW o \in DOMAIN map, Insert(o)
  PROVE  RInv'
  <1>1. /\ o \notin present /\ o \notin Below(tree) /\ (tree.tied => o \notin DOMAIN tree.node)
        /\ tree' = Inserted(tree, o, map[o].box) /\ edits' = edits + 1 /\ map' = map /\ edits < MaxEdits
        /\ present' = IF IsData(tree.root) THEN present ELSE present \cup {o}
    BY DEF Insert
  <1>2. edits' \in 0..MaxEdits
    BY <1>1, RtreeAssumption DEF RInv, MapInv
  <1>3. CASE Lone(tree, present)
    <2>1. tree' = tree /\ present' = present
      BY <1>1, <1>3 DEF Lone, Inserted
    <2> QED BY <2>1, <1>1, <1>2, <1>3 DEF RInv, MapInv
  <1>4. CASE Holds(tree, map, present)
    <2>1. PICK A, lv, c : Holding(tree, map, present, A, lv, c)
      BY <1>4 DEF Holds
    <2>2. Settled(tree, A, lv, c) /\ A \subseteq Names(tree) /\ ~ IsData(tree.root)
      BY <2>1 DEF Holding, Settled, Whole, Shape, Levels
    <2>3. o \notin A
      <3>1. CASE tree.tied
        BY <3>1, <2>2, <1>1 DEF Names
      <3>2. CASE ~ tree.tied
        BY <3>2, <2>2, <1>1, BelowIs
      <3> QED BY <3>1, <3>2
    <2>4. map \in Maps /\ IsFiniteSet(present) /\ present \subseteq DOMAIN map
      BY DEF RInv, MapInv
    <2>5. PICK u : u = Inserted(tree, o, map[o].box)
      OBVIOUS
    <2>6. Holds(u, map, present \cup {o})
      BY <2>1, <2>3, <2>4, <2>5, <1>1, InsertedHolds
    <2>7. IsFiniteSet(present \cup {o})
      BY <2>4, FS_AddElement
    <2>8. tree' = u /\ present' = present \cup {o}
      BY <2>2, <2>5, <1>1
    <2> QED BY <2>4, <2>6, <2>7, <2>8, <1>1, <1>2 DEF RInv, MapInv
  <1> QED BY <1>3, <1>4 DEF RInv

-----------------------------------------------------------------------------
(* What the invariant says *)

LEMMA RInvTypeOK ==
  ASSUME RInv
  PROVE  TypeOK
  <1>1. tree \in Trees /\ Linked(tree) /\ Fits(tree, {})
    BY DEF RInv, Lone, Holds, Holding, Settled, Whole
  <1>2. /\ tree.root \in Names(tree) /\ tree.size \in Int /\ tree.height \in Nat
        /\ \A n \in Names(tree) : tree.node[n].leaf \in BOOLEAN
    BY <1>1, TreeIs, NodeIs
  <1>3. \A n \in Names(tree) :
          /\ ToSet(Items(tree, n)) \subseteq Names(tree) /\ tree.node[n].up \in Names(tree) \cup {Nil}
          /\ Len(Items(tree, n)) <= MaxChildItems
    BY <1>1 DEF Linked, Fits, Up
  <1> QED BY <1>2, <1>3 DEF RInv, MapInv, TypeOK, Names

LEMMA RInvBoundsTight ==
  ASSUME RInv
  PROVE  BoundsTight
  <1>1. SUFFICES ASSUME ~ tree.twin, NEW n \in InnerNodes, Items(tree, n) # <<>>
                 PROVE  /\ Bound(tree, n) = ComputeBB(tree, Items(tree, n))
                        /\ \A x \in ToSet(Items(tree, n)) : tree.node[x].up = n
    BY DEF BoundsTight
  <1>2. CASE Lone(tree, present)
    <2>1. Below(tree) = {tree.root} /\ IsData(tree.root)
      BY <1>2, LoneBelow DEF Lone
    <2> QED BY <2>1, <1>1 DEF InnerNodes
  <1>3. CASE Holds(tree, map, present)
    <2>1. PICK A, lv, c : Settled(tree, A, lv, c)
      BY <1>3 DEF Holds, Holding
    <2>2. n \in A
      BY <2>1, <1>1, BelowIs DEF InnerNodes
    <2>3. Snug(tree, A, {}) /\ Owned(tree, A)
      BY <2>1 DEF Settled, Whole
    <2> QED BY <2>2, <2>3, <1>1 DEF Snug, Owned, Up
  <1> QED BY <1>2, <1>3 DEF RInv

LEMMA RInvBalanced ==
  ASSUME RInv
  PROVE  Balanced
  <1>1. SUFFICES ASSUME ~ IsData(tree.root)
                 PROVE  /\ ~ tree.tied => \A n \in InnerNodes \ {tree.root} : Len(Items(tree, n)) >= MinChildItems
                        /\ ~ tree.skewed => \A k \in 1..tree.height : \A n \in AtLevel(tree, k) :
                             ~ IsData(n) /\ (tree.node[n].leaf <=> k = tree.height)
    BY DEF Balanced
  <1>2. PICK A, lv, c : Holding(tree, map, present, A, lv, c)
    BY <1>1 DEF RInv, Lone, Holds
  <1>3. /\ Settled(tree, A, lv, c) /\ (~ tree.skewed => c = tree.height)
        /\ tree \in Trees /\ Levels(tree, A, lv, {tree.root}) /\ Kinds(tree, A, lv, c)
        /\ Downward(tree, A, lv, {tree.root}) /\ Upward(tree, A, lv, {tree.root}) /\ Full(tree, A, {tree.root})
    BY <1>2 DEF Holding, Settled, Whole, Shape
  <1>4. ~ tree.tied => \A n \in InnerNodes \ {tree.root} : Len(Items(tree, n)) >= MinChildItems
    <2>1. InnerNodes \subseteq {n \in A : ~ IsData(n)}
      BY <1>3, BelowIs DEF InnerNodes
    <2> QED BY <2>1, <1>3 DEF Full
  <1>5. ASSUME ~ tree.skewed, NEW k \in 1..tree.height, NEW n \in AtLevel(tree, k)
        PROVE  ~ IsData(n) /\ (tree.node[n].leaf <=> k = tree.height)
    <2>1. PICK h \in Nat : h = tree.height /\ h = c /\ k \in 1..h
      BY <1>3, <1>5, TreeIs
    <2>2. n \in A /\ lv[n] = k
      <3>1. k \in Nat \ {0}
        BY <2>1
      <3> QED BY <3>1, <1>3, <1>5, AtLevelIs
    <2>3. /\ \A x \in A : lv[x] \in Nat /\ (~ IsData(x) => lv[x] <= h) /\ (Leaf(tree, x) => lv[x] >= h)
          /\ ~ IsData(tree.root)
      BY <1>3, <2>1 DEF Levels, Kinds
    <2>4. ~ IsData(n)
      <3> SUFFICES ASSUME IsData(n)
                   PROVE  FALSE
        OBVIOUS
      <3>1. n # tree.root
        BY <2>3
      <3>2. Up(tree, n) \in A /\ lv[n] = lv[Up(tree, n)] + 1 /\ Leaf(tree, Up(tree, n))
        BY <3>1, <2>2, <1>3 DEF Upward
      <3>3. lv[Up(tree, n)] \in Nat /\ lv[Up(tree, n)] >= h
        BY <3>2, <2>3
      <3> QED BY <3>2, <3>3, <2>1, <2>2
    <2>5. Leaf(tree, n) => k = h
      BY <2>1, <2>2, <2>3
    <2>6. k = h => Leaf(tree, n)
      <3> SUFFICES ASSUME k = h, ~ Leaf(tree, n)
                   PROVE  FALSE
        OBVIOUS
      <3>1. Items(tree, n) # <<>> /\ Items(tree, n) \in Seq(Int)
        BY <2>2, <2>4, <1>3, NodeIs DEF Kinds, Levels
      <3>2. PICK x : x \in ToSet(Items(tree, n))
        BY <3>1, SeqIs
      <3>3. x \in A /\ lv[x] = lv[n] + 1 /\ ~ IsData(x)
        BY <3>2, <2>2, <1>3 DEF Downward
      <3>4. lv[x] \in Nat /\ lv[x] <= h
        BY <3>3, <2>3
      <3> QED BY <3>3, <3>4, <2>1, <2>2
    <2> QED BY <2>1, <2>4, <2>5, <2>6 DEF Leaf
  <1> QED BY <1>4, <1>5

LEMMA RInvHoldsPresent ==
  ASSUME RInv
  PROVE  HoldsPresent
  <1>1. SUFFICES ASSUME Sound
                 PROVE  Held = present /\ HeldOnce /\ tree.size = Cardinality(present)
    BY DEF HoldsPresent
  <1>2. ~ tree.twin /\ ~ tree.tied /\ ~ tree.lopped
    BY <1>1 DEF Sound
  <1>3. CASE Lone(tree, present)
    <2>1. Below(tree) = {tree.root} /\ IsData(tree.root) /\ present = {tree.root} /\ tree.size = 1
      BY <1>2, <1>3, LoneBelow DEF Lone
    <2>2. Cardinality({tree.root}) = 1
      BY FS_Singleton
    <2>3. InnerNodes = {}
      BY <2>1 DEF InnerNodes
    <2> QED BY <2>1, <2>2, <2>3 DEF Held, HeldOnce
  <1>4. CASE Holds(tree, map, present)
    <2>1. PICK A, lv, c : Holding(tree, map, present, A, lv, c)
      BY <1>4 DEF Holds
    <2>2. /\ Settled(tree, A, lv, c) /\ {o \in A : IsData(o)} = present /\ tree.size = Cardinality(present)
      BY <2>1, <1>2 DEF Holding
    <2>3. Below(tree) = A
      BY <2>2, <1>2, BelowIs
    <2>4. Held = present
      BY <2>2, <2>3 DEF Held
    <2>5. HeldOnce
      <3> SUFFICES ASSUME NEW n \in InnerNodes, NEW m \in InnerNodes, NEW i \in DOMAIN Items(tree, n),
                          NEW j \in DOMAIN Items(tree, m), Items(tree, n)[i] = Items(tree, m)[j]
                   PROVE  n = m /\ i = j
        BY DEF HeldOnce
      <3>1. n \in A /\ m \in A /\ Owned(tree, A) /\ Kinds(tree, A, lv, c)
        BY <2>2, <2>3 DEF InnerNodes, Settled, Whole, Shape
      <3>2. PICK x : x = Items(tree, n)[i]
        OBVIOUS
      <3>3. x \in ToSet(Items(tree, n)) /\ x \in ToSet(Items(tree, m))
        BY <3>2 DEF ToSet
      <3>4. Up(tree, x) = n /\ Up(tree, x) = m
        BY <3>1, <3>3, <1>2 DEF Owned
      <3>5. IsInjective(Items(tree, n))
        BY <3>1 DEF Kinds
      <3>6. i = j
        BY <3>4, <3>5 DEF IsInjective
      <3> QED BY <3>4, <3>6
    <2> QED BY <2>2, <2>4, <2>5
  <1> QED BY <1>3, <1>4 DEF RInv

LEMMA StutterRInv ==
  ASSUME RInv, UNCHANGED vars
  PROVE  RInv'
  BY DEF RInv, MapInv, vars, InnerNodes

-----------------------------------------------------------------------------
(* Searching *)

Hits(t, b, n) == Among(Items(t, n), {x \in ToSet(Items(t, n)) : Overlaps(Bound(t, x), b)})

\* What f gives for each of a sequence.
Along(f, s) == [i \in DOMAIN s |-> f[s[i]]]

\* One turn of Search, for all nodes, from what is found one level deeper.
SearchTurn(t, b, f) ==
  [n \in Names(t) |->
     IF t.node[n].leaf THEN Hits(t, b, n)
     ELSE FlattenSeq(Along(f, Hits(t, b, n)))]

SearchStep(t, b, h) ==
  [k \in 0..t.height |->
     [n \in DOMAIN t.node |->
        LET hit == Among(Items(t, n), {x \in ToSet(Items(t, n)) : Overlaps(Bound(t, x), b)})
        IN  IF k = 0 THEN <<>>
            ELSE IF t.node[n].leaf THEN hit
            ELSE FlattenSeq([i \in DOMAIN hit |-> h[k - 1][hit[i]]])]]

Searches(t, b) == CHOOSE h : h = SearchStep(t, b, h)

\* s holds the objects below node n that overlap b, each once.
Sees(t, b, n, s) ==
  IsInjective(s) /\ ToSet(s) = {o \in Desc(t, n) : IsData(o) /\ Overlaps(Bound(t, o), b)}

\* What k turns find.
Seen(t, A, lv, b, k, f) ==
  /\ f \in [Names(t) -> Seq(Int)]
  /\ \A n \in A : ~ IsData(n) /\ lv[n] + k > t.height => Sees(t, b, n, f[n])

LEMMA HitsAre ==
  ASSUME NEW t \in Trees, Linked(t), NEW b, NEW n \in Names(t)
  PROVE  /\ Hits(t, b, n) \in Seq(Names(t)) /\ Hits(t, b, n) \in Seq(Int)
         /\ ToSet(Hits(t, b, n)) = {x \in ToSet(Items(t, n)) : Overlaps(Bound(t, x), b)}
         /\ IsInjective(Items(t, n)) => IsInjective(Hits(t, b, n))
  <1>1. Items(t, n) \in Seq(Int) /\ ToSet(Items(t, n)) \subseteq Names(t)
    BY NodeIs DEF Linked
  <1>2. PICK V : V = {x \in ToSet(Items(t, n)) : Overlaps(Bound(t, x), b)}
    OBVIOUS
  <1>3. PICK s : s = Hits(t, b, n)
    OBVIOUS
  <1>4. s = Among(Items(t, n), V)
    BY <1>2, <1>3 DEF Hits
  <1>5. s \in Seq(Int) /\ ToSet(s) = ToSet(Items(t, n)) \cap V /\ (IsInjective(Items(t, n)) => IsInjective(s))
    BY <1>1, <1>4, AmongIs
  <1>6. ToSet(s) = V /\ ToSet(s) \subseteq Names(t)
    BY <1>1, <1>2, <1>5
  <1>7. s \in Seq(Names(t))
    <2>1. /\ Len(s) \in Nat /\ s = [i \in 1..Len(s) |-> s[i]] /\ DOMAIN s = 1..Len(s)
          /\ ToSet(s) = {s[i] : i \in 1..Len(s)}
      BY <1>5, SeqIs
    <2>2. \A i \in 1..Len(s) : s[i] \in Names(t)
      BY <2>1, <1>6
    <2>3. s \in [1..Len(s) -> Names(t)]
      BY <2>1, <2>2
    <2> QED BY <2>1, <2>3
  <1> QED BY <1>2, <1>3, <1>5, <1>6, <1>7

\* The sequences found below the entries that are hit.
LEMMA FoundBelow ==
  ASSUME NEW t \in Trees, Linked(t), NEW b, NEW n \in Names(t), NEW f \in [Names(t) -> Seq(Int)],
         NEW s, s = Hits(t, b, n), NEW ss, ss = Along(f, s)
  PROVE  /\ ss \in Seq(Seq(Int)) /\ Len(ss) = Len(s) /\ Len(s) \in Nat
         /\ \A i \in 1..Len(s) : s[i] \in Names(t) /\ ss[i] = f[s[i]]
  <1>1. s \in Seq(Names(t))
    BY HitsAre
  <1>2. Len(s) \in Nat /\ DOMAIN s = 1..Len(s) /\ \A i \in 1..Len(s) : s[i] \in Names(t)
    BY <1>1, SeqIs
  <1>3. ss \in [1..Len(s) -> Seq(Int)]
    BY <1>2 DEF Along
  <1>4. ss \in Seq(Seq(Int)) /\ DOMAIN ss = 1..Len(s)
    BY <1>2, <1>3
  <1>5. Len(ss) = Len(s)
    BY <1>2, <1>4
  <1> QED BY <1>2, <1>4, <1>5 DEF Along

LEMMA SearchTurnType ==
  ASSUME NEW t \in Trees, Linked(t), NEW b, NEW f \in [Names(t) -> Seq(Int)]
  PROVE  SearchTurn(t, b, f) \in [Names(t) -> Seq(Int)]
  <1> SUFFICES ASSUME NEW n \in Names(t)
               PROVE  SearchTurn(t, b, f)[n] \in Seq(Int)
    BY DEF SearchTurn
  <1>1. PICK s : s = Hits(t, b, n)
    OBVIOUS
  <1>2. PICK ss : ss = Along(f, s)
    OBVIOUS
  <1>3. SearchTurn(t, b, f)[n] = IF t.node[n].leaf THEN s ELSE FlattenSeq(ss)
    BY <1>1, <1>2 DEF SearchTurn
  <1>4. s \in Seq(Int) /\ ss \in Seq(Seq(Int))
    <2>1. s \in Seq(Int)
      BY <1>1, HitsAre
    <2>2. ss \in Seq(Seq(Int))
      BY <1>1, <1>2, FoundBelow
    <2> QED BY <2>1, <2>2
  <1>5. FlattenSeq(ss) \in Seq(Int)
    BY <1>4, FlattenIs
  <1> QED BY <1>3, <1>4, <1>5

LEMMA SeesLeaf ==
  ASSUME NEW t, NEW A, NEW lv, NEW c, Settled(t, A, lv, c), NEW b, NEW n \in A, ~ IsData(n), Leaf(t, n)
  PROVE  Sees(t, b, n, Hits(t, b, n))
  <1>1. /\ t \in Trees /\ Linked(t) /\ Shape(t, A, lv, {t.root}, c) /\ n \in Names(t)
        /\ Kinds(t, A, lv, c) /\ Downward(t, A, lv, {t.root})
    BY DEF Settled, Whole, Shape, Levels
  <1>2. \A x \in ToSet(Items(t, n)) : IsData(x) /\ x \in A /\ Items(t, x) = <<>>
    BY <1>1 DEF Downward, Kinds
  <1>3. \A x \in ToSet(Items(t, n)) : Desc(t, x) = {x}
    <2> SUFFICES ASSUME NEW x \in ToSet(Items(t, n))
                 PROVE  Desc(t, x) = {x}
      OBVIOUS
    <2>1. ToSet(Items(t, x)) = {} /\ x \in Names(t)
      BY <1>1, <1>2 DEF ToSet, Shape, Levels
    <2>2. Desc(t, x) = {x} \cup UNION {Desc(t, y) : y \in ToSet(Items(t, x))}
      BY <2>1, <1>1, DescUnion
    <2> QED BY <2>1, <2>2
  <1>4. Desc(t, n) = {n} \cup UNION {Desc(t, x) : x \in ToSet(Items(t, n))}
    BY <1>1, DescUnion
  <1>5. Desc(t, n) = {n} \cup ToSet(Items(t, n))
    BY <1>3, <1>4
  <1>6. IsInjective(Items(t, n))
    BY <1>1 DEF Kinds
  <1>7. /\ IsInjective(Hits(t, b, n))
        /\ ToSet(Hits(t, b, n)) = {x \in ToSet(Items(t, n)) : Overlaps(Bound(t, x), b)}
    BY <1>1, <1>6, HitsAre
  <1> QED BY <1>2, <1>5, <1>7 DEF Sees

LEMMA SeesInner ==
  ASSUME NEW t, NEW A, NEW lv, NEW c, Settled(t, A, lv, c), ~ t.twin, NEW b \in BoxSet, NEW n \in A, ~ IsData(n),
         ~ Leaf(t, n), NEW f \in [Names(t) -> Seq(Int)], \A x \in ToSet(Items(t, n)) : Sees(t, b, x, f[x]),
         NEW s, s = Hits(t, b, n), NEW ss, ss = Along(f, s)
  PROVE  Sees(t, b, n, FlattenSeq(ss))
  <1>1. /\ t \in Trees /\ Linked(t) /\ Shape(t, A, lv, {t.root}, c) /\ A \subseteq Names(t)
        /\ Kinds(t, A, lv, c) /\ Downward(t, A, lv, {t.root}) /\ Owned(t, A) /\ Snug(t, A, {})
    BY DEF Settled, Whole, Shape, Levels
  <1>2. /\ s \in Seq(Int) /\ ToSet(s) = {x \in ToSet(Items(t, n)) : Overlaps(Bound(t, x), b)} /\ IsInjective(s)
    BY <1>1, HitsAre DEF Kinds
  <1>3. /\ ss \in Seq(Seq(Int)) /\ Len(ss) = Len(s) /\ Len(s) \in Nat /\ DOMAIN s = 1..Len(s)
        /\ \A i \in 1..Len(s) : s[i] \in Names(t) /\ ss[i] = f[s[i]] /\ s[i] \in ToSet(s)
    <2>1. Len(s) \in Nat /\ DOMAIN s = 1..Len(s) /\ ToSet(s) = {s[i] : i \in 1..Len(s)}
      BY <1>2, SeqIs
    <2>2. /\ ss \in Seq(Seq(Int)) /\ Len(ss) = Len(s)
          /\ \A i \in 1..Len(s) : s[i] \in Names(t) /\ ss[i] = f[s[i]]
      <3>1. n \in Names(t)
        BY <1>1
      <3> QED BY <3>1, <1>1, FoundBelow
    <2>3. \A i \in 1..Len(s) : s[i] \in ToSet(s)
      BY <2>1
    <2> QED BY <2>1, <2>2, <2>3
  <1>4. \A i \in 1..Len(s) : Sees(t, b, s[i], ss[i]) /\ s[i] \in A /\ lv[s[i]] = lv[n] + 1
    BY <1>1, <1>2, <1>3 DEF Downward
  <1>5. \A i, j \in 1..Len(s) : i # j => ToSet(ss[i]) \cap ToSet(ss[j]) = {}
    <2> SUFFICES ASSUME NEW i \in 1..Len(s), NEW j \in 1..Len(s), i # j
                 PROVE  ToSet(ss[i]) \cap ToSet(ss[j]) = {}
      OBVIOUS
    <2>1. s[i] # s[j]
      BY <1>2, <1>3 DEF IsInjective
    <2>2. Desc(t, s[i]) \cap Desc(t, s[j]) = {}
      <3>1. s[i] \in A /\ s[j] \in A /\ lv[s[i]] = lv[s[j]]
        BY <1>4
      <3> QED BY <3>1, <2>1, <1>1, DescApart
    <2>3. ToSet(ss[i]) \subseteq Desc(t, s[i]) /\ ToSet(ss[j]) \subseteq Desc(t, s[j])
      BY <1>4 DEF Sees
    <2> QED BY <2>2, <2>3
  <1>6. \A i \in 1..Len(s) : IsInjective(ss[i])
    BY <1>4 DEF Sees
  <1>7. IsInjective(FlattenSeq(ss)) /\ ToSet(FlattenSeq(ss)) = UNION {ToSet(ss[i]) : i \in 1..Len(ss)}
    <2>1. /\ \A i \in 1..Len(ss) : IsInjective(ss[i])
          /\ \A i, j \in 1..Len(ss) : i # j => ToSet(ss[i]) \cap ToSet(ss[j]) = {}
      BY <1>3, <1>5, <1>6
    <2>2. ss \in Seq(Seq(Int))
      BY <1>3
    <2>3. IsInjective(FlattenSeq(ss))
      BY <2>1, <2>2, FlattenInjective
    <2>4. ToSet(FlattenSeq(ss)) = UNION {ToSet(ss[i]) : i \in 1..Len(ss)}
      BY <2>2, FlattenIs
    <2> QED BY <2>3, <2>4
  <1>8. Desc(t, n) = {n} \cup UNION {Desc(t, x) : x \in ToSet(Items(t, n))}
    BY <1>1, DescUnion
  <1>9. ASSUME NEW o \in ToSet(FlattenSeq(ss))
        PROVE  o \in Desc(t, n) /\ IsData(o) /\ Overlaps(Bound(t, o), b)
    <2>1. PICK i \in 1..Len(s) : o \in ToSet(ss[i])
      BY <1>3, <1>7, <1>9
    <2>2. o \in Desc(t, s[i]) /\ IsData(o) /\ Overlaps(Bound(t, o), b)
      BY <2>1, <1>4 DEF Sees
    <2>3. s[i] \in ToSet(Items(t, n))
      BY <1>2, <1>3
    <2> QED BY <2>2, <2>3, <1>8
  <1>10. ASSUME NEW o \in Desc(t, n), IsData(o), Overlaps(Bound(t, o), b)
         PROVE  o \in ToSet(FlattenSeq(ss))
    <2>1. PICK x \in ToSet(Items(t, n)) : o \in Desc(t, x)
      BY <1>8, <1>10
    <2>2. x \in A
      BY <2>1, <1>1 DEF Downward
    <2>3. o \in Names(t) /\ x \in Names(t)
      BY <2>1, <2>2, <1>1, DescIs
    <2>4. Bound(t, o) \in BoxSet /\ Bound(t, x) \in BoxSet
      BY <2>3, <1>1, NodeIs
    <2>5. Within(Bound(t, o), Bound(t, x))
      BY <2>1, <2>2, <1>1, DescWithin
    <2>6. Overlaps(Bound(t, x), b)
      BY <2>4, <2>5, <1>10, OverlapsWithin
    <2>7. x \in ToSet(s)
      BY <2>1, <2>6, <1>2
    <2>8. PICK i \in 1..Len(s) : s[i] = x
      BY <2>7, <1>2, SetIndex
    <2>9. o \in ToSet(ss[i])
      BY <2>1, <2>8, <1>4, <1>10 DEF Sees
    <2> QED BY <2>9, <1>3, <1>7
  <1> QED BY <1>7, <1>9, <1>10 DEF Sees

LEMMA SearchTurnIs ==
  ASSUME NEW t, NEW A, NEW lv, NEW c, Settled(t, A, lv, c), ~ t.twin, NEW b \in BoxSet,
         NEW k \in Nat \ {0}, NEW f, Seen(t, A, lv, b, k - 1, f)
  PROVE  Seen(t, A, lv, b, k, SearchTurn(t, b, f))
  <1>1. /\ t \in Trees /\ Linked(t) /\ Levels(t, A, lv, {t.root}) /\ A \subseteq Names(t)
        /\ Downward(t, A, lv, {t.root})
    BY DEF Settled, Whole, Shape, Levels
  <1>2. f \in [Names(t) -> Seq(Int)]
    BY DEF Seen
  <1>3. SearchTurn(t, b, f) \in [Names(t) -> Seq(Int)]
    BY <1>1, <1>2, SearchTurnType
  <1>4. ASSUME NEW n \in A, ~ IsData(n), lv[n] + k > t.height
        PROVE  Sees(t, b, n, SearchTurn(t, b, f)[n])
    <2>1. PICK s : s = Hits(t, b, n)
      OBVIOUS
    <2>2. PICK ss : ss = Along(f, s)
      OBVIOUS
    <2>3. SearchTurn(t, b, f)[n] = IF t.node[n].leaf THEN s ELSE FlattenSeq(ss)
      BY <1>1, <2>1, <2>2 DEF SearchTurn
    <2>4. CASE Leaf(t, n)
      <3>1. Sees(t, b, n, s)
        BY <2>1, <2>4, <1>4, SeesLeaf
      <3> QED BY <3>1, <2>3, <2>4 DEF Leaf
    <2>5. CASE ~ Leaf(t, n)
      <3>1. \A x \in ToSet(Items(t, n)) : Sees(t, b, x, f[x])
        <4> SUFFICES ASSUME NEW x \in ToSet(Items(t, n))
                     PROVE  Sees(t, b, x, f[x])
          OBVIOUS
        <4>1. x \in A /\ ~ IsData(x) /\ lv[x] = lv[n] + 1
          BY <2>5, <1>1 DEF Downward
        <4>2. lv[n] \in Nat /\ t.height \in Nat
          BY <1>1, TreeIs DEF Levels
        <4>3. lv[x] + (k - 1) > t.height
          BY <4>1, <4>2, <1>4
        <4> QED BY <4>1, <4>3 DEF Seen
      <3>2. Sees(t, b, n, FlattenSeq(ss))
        BY <3>1, <2>1, <2>2, <2>5, <1>2, <1>4, SeesInner
      <3> QED BY <3>2, <2>3, <2>5 DEF Leaf
    <2> QED BY <2>4, <2>5
  <1> QED BY <1>3, <1>4 DEF Seen

LEMMA SearchIs ==
  ASSUME NEW t, NEW A, NEW lv, NEW c, Settled(t, A, lv, c), ~ t.twin, NEW b \in BoxSet
  PROVE  Sees(t, b, t.root, Search(t, b)) /\ Search(t, b) \in Seq(Int)
  <1> DEFINE l == t.height
             V == [Names(t) -> Seq(Int)]
             Good(k) == {f \in V : Seen(t, A, lv, b, k, f)}
             W == [k \in 0..l |-> Good(k)]
             T(f) == SearchTurn(t, b, f)
             G == [kf \in (1..l) \X V |-> T(kf[2])]
             base == [n \in Names(t) |-> <<>>]
  <1>1. t \in Trees /\ l \in Nat /\ Levels(t, A, lv, {t.root}) /\ A \subseteq Names(t)
    BY TreeIs DEF Settled, Whole, Shape, Levels
  <1> HIDE DEF l
  <1>2. base \in W[0]
    <2>1. base \in V
      OBVIOUS
    <2>2. \A n \in A : ~ IsData(n) => ~ (lv[n] + 0 > t.height)
      <3>1. \A n \in A : lv[n] \in Nat /\ (~ IsData(n) => lv[n] <= l)
        BY <1>1 DEF Levels, l
      <3> QED BY <3>1, <1>1 DEF l
    <2>3. Seen(t, A, lv, b, 0, base)
      BY <2>1, <2>2 DEF Seen
    <2>4. 0 \in 0..l
      BY <1>1
    <2> QED BY <2>1, <2>3, <2>4
  <1>3. ASSUME NEW k \in 1..l, NEW f \in W[k - 1]
        PROVE  f \in V /\ T(f) \in W[k]
    <2>1. k - 1 \in 0..l /\ k \in 0..l /\ k \in Nat \ {0}
      BY <1>1
    <2>2. f \in V /\ Seen(t, A, lv, b, k - 1, f)
      BY <2>1
    <2>3. Seen(t, A, lv, b, k, T(f))
      BY <2>1, <2>2, SearchTurnIs
    <2>4. T(f) \in V
      BY <2>3 DEF Seen
    <2> HIDE DEF T
    <2> QED BY <2>1, <2>2, <2>3, <2>4
  <1>4. \A k \in 1..l : \A f \in W[k - 1] : G[<<k, f>>] = T(f)
    <2> SUFFICES ASSUME NEW k \in 1..l, NEW f \in W[k - 1]
                 PROVE  G[<<k, f>>] = T(f)
      OBVIOUS
    <2>1. f \in V
      BY <1>3
    <2> HIDE DEF W, T, V
    <2> QED BY <2>1
  <1> HIDE DEF W, G, T, Good
  <1>5. Turns0(l, W, base, G)
    BY <1>2, <1>3, <1>4 DEF Turns0
  <1>6. PICK h : Turned0(h, l, W, base, G)
    BY <1>1, <1>5, LoopExists
  <1>7. \A k \in 1..l : h[k] = T(h[k - 1])
    <2>1. \A k \in 1..l : k \in 0..l /\ k - 1 \in 0..l
      BY <1>1
    <2> QED BY <2>1, <1>4, <1>6 DEF Turned0
  <1>8. h = SearchStep(t, b, h)
    <2>1. \A k \in 0..l : h[k] = IF k = 0 THEN base ELSE T(h[k - 1])
      <3>1. \A k \in 0..l : k = 0 \/ k \in 1..l
        BY <1>1
      <3> QED BY <3>1, <1>6, <1>7 DEF Turned0
    <2>2. h = [k \in 0..l |-> h[k]]
      BY <1>6 DEF Turned0
    <2>3. h = [k \in 0..l |-> IF k = 0 THEN base ELSE T(h[k - 1])]
      BY <2>1, <2>2
    <2>4. ASSUME NEW k \in 0..l, k = 0
          PROVE  base = SearchStep(t, b, h)[k]
      BY <2>4, <1>1 DEF SearchStep, Names, l
    <2>5. ASSUME NEW k \in 0..l, k # 0
          PROVE  T(h[k - 1]) = SearchStep(t, b, h)[k]
      BY <2>5 DEF SearchStep, SearchTurn, T, Hits, Along, Names, l
    <2>6. \A k \in 0..l : h[k] = SearchStep(t, b, h)[k]
      BY <2>1, <2>4, <2>5
    <2>7. SearchStep(t, b, h) = [k \in 0..l |-> SearchStep(t, b, h)[k]]
      BY DEF SearchStep, l
    <2> QED BY <2>2, <2>6, <2>7
  <1>9. PICK g : g = Searches(t, b)
    OBVIOUS
  <1>10. g = SearchStep(t, b, g)
    BY <1>8, <1>9 DEF Searches
  <1>11. g[0] = base /\ \A k \in 1..l : g[k] = T(g[k - 1])
    <2>1. 0 \in 0..l /\ \A k \in 1..l : k \in 0..l /\ k # 0
      BY <1>1
    <2>2. g[0] = base
      <3>1. SearchStep(t, b, g)[0] = base
        BY <2>1 DEF SearchStep, Names, l
      <3> QED BY <3>1, <1>10
    <2>3. ASSUME NEW k \in 1..l
          PROVE  g[k] = T(g[k - 1])
      <3>1. SearchStep(t, b, g)[k] = T(g[k - 1])
        BY <2>1 DEF SearchStep, SearchTurn, T, Hits, Along, Names, l
      <3> QED BY <3>1, <1>10
    <2> QED BY <2>2, <2>3
  <1>12. \A k \in 1..l : g[k - 1] \in W[k - 1] => g[k] \in W[k]
    BY <1>3, <1>11
  <1>13. g[l] \in W[l]
    <2>1. g[0] \in W[0]
      BY <1>2, <1>11
    <2>2. \A k \in 0..l : g[k] \in W[k]
      BY <1>1, <2>1, <1>12, LoopStays
    <2> QED BY <2>2, <1>1
  <1>14. Seen(t, A, lv, b, l, g[l])
    <2>1. l \in 0..l
      BY <1>1
    <2> QED BY <2>1, <1>13 DEF W, Good
  <1>15. Search(t, b) = g[l][t.root]
    BY <1>9 DEF Search, Searches, SearchStep, l
  <1>16. t.root \in A /\ ~ IsData(t.root) /\ lv[t.root] + l > l
    BY <1>1 DEF Levels
  <1>17. t.root \in Names(t)
    BY <1>1, <1>16
  <1> QED BY <1>14, <1>15, <1>16, <1>17 DEF Seen, l

LEMMA RInvSearchExact ==
  ASSUME RInv, Boxes \subseteq BoxSet
  PROVE  SearchExact
  <1>1. SUFFICES ASSUME Sound, ~ IsData(tree.root), NEW b \in Boxes
                 PROVE  /\ ToSet(Search(tree, b)) = {o \in present : Overlaps(map[o].box, b)}
                        /\ IsInjective(Search(tree, b))
    BY DEF SearchExact
  <1>2. ~ tree.twin /\ ~ tree.tied /\ ~ tree.lopped /\ b \in BoxSet
    BY <1>1 DEF Sound
  <1>3. PICK A, lv, c : Holding(tree, map, present, A, lv, c)
    BY <1>1 DEF RInv, Lone, Holds
  <1>4. /\ Settled(tree, A, lv, c) /\ {o \in A : IsData(o)} = present
        /\ \A o \in A : IsData(o) => Bound(tree, o) = map[o].box
    BY <1>2, <1>3 DEF Holding
  <1>5. Sees(tree, b, tree.root, Search(tree, b))
    BY <1>2, <1>4, SearchIs
  <1>6. Desc(tree, tree.root) = A
    BY <1>2, <1>4, DescRoot DEF Settled, Whole
  <1> QED BY <1>4, <1>5, <1>6 DEF Sees

-----------------------------------------------------------------------------
(* Deleting *)

\* An erased entry of a leaf is the object, and only the object is gone.
LEMMA ErasedLeaf ==
  ASSUME NEW t, NEW A, NEW lv, NEW c, Settled(t, A, lv, c), NEW o, NEW n \in A, NEW x \in ToSet(Items(t, n)),
         LeafID(x) = o, Leaf(t, n)
  PROVE  /\ o \in A /\ IsData(o)
         /\ {y \in A \ Desc(t, x) : IsData(y)} = {y \in A : IsData(y)} \ {o}
  <1>1. /\ t \in Trees /\ Linked(t) /\ Downward(t, A, lv, {t.root}) /\ A \subseteq Names(t)
        /\ \A m \in A : IsData(m) => Items(t, m) = <<>>
    BY DEF Settled, Whole, Shape, Levels, Kinds
  <1>2. x \in A /\ IsData(x) /\ x \in Names(t)
    BY <1>1 DEF Downward
  <1>3. x = o
    BY <1>2 DEF LeafID
  <1>4. ToSet(Items(t, x)) = {}
    <2>1. <<>> \in Seq(Int) /\ Len(<<>>) = 0
      OBVIOUS
    <2>2. ToSet(<<>>) = {}
      BY <2>1, SeqIs
    <2> QED BY <2>2, <1>1, <1>2
  <1>5. Desc(t, x) = {x} \cup UNION {Desc(t, y) : y \in ToSet(Items(t, x))}
    BY <1>1, <1>2, DescUnion
  <1>6. Desc(t, x) = {o}
    BY <1>3, <1>4, <1>5
  <1> QED BY <1>2, <1>3, <1>6

LEMMA CardLess ==
  ASSUME NEW p, IsFiniteSet(p), NEW o \in p
  PROVE  Cardinality(p \ {o}) = Cardinality(p) - 1 /\ IsFiniteSet(p \ {o}) /\ Cardinality(p) \in Nat
  <1>1. Cardinality(p) \in Nat
    BY FS_CardinalityType
  <1>2. IsFiniteSet(p \ {o}) /\ Cardinality(p \ {o}) = Cardinality(p) - 1
    BY FS_RemoveElement
  <1> QED BY <1>1, <1>2

LEMMA ErasedHolds ==
  ASSUME NEW t, NEW m, NEW p, IsFiniteSet(p), NEW A, NEW lv, NEW c, Holding(t, m, p, A, lv, c), NEW o, NEW u, Erased(t, A, o, u)
  PROVE  Lone(u, p \ {o}) \/ Holds(u, m, p \ {o})
  <1>1. /\ Settled(t, A, lv, c) /\ (\A y \in A : IsData(y) => y \in DOMAIN m /\ Bound(t, y) = m[y].box)
        /\ (~ t.lopped => {y \in A : IsData(y)} = p /\ t.size = Cardinality(p))
    BY DEF Holding
  <1>2. PICK n \in A : \E x \in ToSet(Items(t, n)) :
          /\ ~ IsData(n) /\ LeafID(x) = o /\ u.size = t.size - 1 /\ u.lopped = (t.lopped \/ ~ Leaf(t, n))
          /\ Remaining(t, {y \in A \ Desc(t, x) : IsData(y)}, u)
    BY DEF Erased
  <1>3. PICK x \in ToSet(Items(t, n)) :
          /\ ~ IsData(n) /\ LeafID(x) = o /\ u.size = t.size - 1 /\ u.lopped = (t.lopped \/ ~ Leaf(t, n))
          /\ Remaining(t, {y \in A \ Desc(t, x) : IsData(y)}, u)
    BY <1>2
  <1>4. PICK Q : Q = {y \in A \ Desc(t, x) : IsData(y)}
    OBVIOUS
  <1>5. Remaining(t, Q, u) /\ Q \subseteq A /\ \A y \in Q : IsData(y)
    BY <1>3, <1>4
  <1>6. ASSUME ~ u.lopped
        PROVE  Q = p \ {o} /\ u.size = Cardinality(p \ {o})
    <2>1. ~ t.lopped /\ Leaf(t, n)
      BY <1>3, <1>6
    <2>2. o \in A /\ IsData(o) /\ Q = {y \in A : IsData(y)} \ {o}
      BY <2>1, <1>1, <1>3, <1>4, ErasedLeaf
    <2>3. {y \in A : IsData(y)} = p /\ t.size = Cardinality(p)
      BY <2>1, <1>1
    <2>4. o \in p
      BY <2>2, <2>3
    <2>5. Cardinality(p \ {o}) = Cardinality(p) - 1
      BY <2>4, CardLess
    <2> QED BY <2>2, <2>3, <2>5, <1>3
  <1>7. ASSUME u \in Trees, Linked(u), Fits(u, {}), IsData(u.root), Items(u, u.root) = <<>>, ~ u.tied => Q = {u.root}
        PROVE  Lone(u, p \ {o})
    <2>1. ASSUME ~ u.tied, ~ u.lopped
          PROVE  p \ {o} = {u.root} /\ u.size = 1
      <3>1. Q = p \ {o} /\ u.size = Cardinality(p \ {o}) /\ Q = {u.root}
        BY <2>1, <1>6, <1>7
      <3>2. Cardinality({u.root}) = 1
        BY FS_Singleton
      <3> QED BY <3>1, <3>2
    <2> QED BY <2>1, <1>7 DEF Lone
  <1>8. ASSUME NEW C, NEW lw, NEW e,
               /\ Settled(u, C, lw, e) /\ e \in Int /\ (~ u.skewed => e = u.height)
               /\ ~ u.tied /\ ~ Leaf(u, u.root) => Len(Items(u, u.root)) >= 2
               /\ Q = {y \in C : IsData(y)} /\ \A y \in Q : Bound(u, y) = Bound(t, y)
        PROVE  Holds(u, m, p \ {o})
    <2>1. \A y \in C : IsData(y) => y \in DOMAIN m /\ Bound(u, y) = m[y].box
      <3> SUFFICES ASSUME NEW y \in C, IsData(y)
                   PROVE  y \in DOMAIN m /\ Bound(u, y) = m[y].box
        OBVIOUS
      <3>1. y \in Q /\ Bound(u, y) = Bound(t, y)
        BY <1>8
      <3>2. y \in A
        BY <3>1, <1>5
      <3> QED BY <3>1, <3>2, <1>1
    <2>2. ~ u.lopped => {y \in C : IsData(y)} = p \ {o} /\ u.size = Cardinality(p \ {o})
      BY <1>6, <1>8
    <2>3. Holding(u, m, p \ {o}, C, lw, e)
      BY <2>1, <2>2, <1>8 DEF Holding
    <2> QED BY <2>3 DEF Holds
  <1> QED BY <1>5, <1>7, <1>8 DEF Remaining

\* What a deletion does: nothing, when the object is not there, or to erase it.
LEMMA DeleteIs ==
  ASSUME RInv, NEW o \in DOMAIN map, Delete(o)
  PROVE  \/ Lone(tree, present) /\ tree' = tree /\ present' = present
         \/ /\ ~ IsData(tree.root) /\ present' = present \ {o} /\ IsData(o)
            /\ \E A, lv, c : /\ Holding(tree, map, present, A, lv, c) /\ ~ tree.tied
                             /\ (tree' = tree /\ o \notin A) \/ Erased(tree, A, o, tree')
  <1>1. /\ tree' = Deleted(tree, o) /\ ~ tree.twin /\ ~ tree.tied /\ ~ tree.skewed
        /\ present' = IF IsData(tree.root) THEN present ELSE present \ {o}
    BY DEF Delete
  <1>2. map \in Maps
    BY DEF RInv, MapInv
  <1>3. CASE Lone(tree, present)
    <2>1. tree \in Trees /\ Linked(tree) /\ Items(tree, tree.root) = <<>> /\ IsData(tree.root)
      BY <1>3 DEF Lone
    <2>2. FindLeaf(tree, o) = NotFound
      BY <2>1, FindNothing
    <2>3. Deleted(tree, o) = tree
      BY <2>2 DEF Deleted, DeletedAt
    <2> QED BY <2>1, <2>3, <1>1, <1>3
  <1>4. CASE Holds(tree, map, present)
    <2>1. PICK A, lv, c : Holding(tree, map, present, A, lv, c)
      BY <1>4 DEF Holds
    <2>2. /\ Settled(tree, A, lv, c) /\ c = tree.height /\ ~ IsData(tree.root)
          /\ (~ Leaf(tree, tree.root) => Len(Items(tree, tree.root)) >= 2)
          /\ \A y \in A : IsData(y) => Bound(tree, y) = map[y].box
      BY <2>1, <1>1 DEF Holding, Settled, Whole, Shape, Levels
    <2>3. Ready(tree, A, lv)
      BY <2>2, <1>1 DEF Ready
    <2>4. PICK b : b = map[o].box
      OBVIOUS
    <2>5. IsData(o) /\ b \in BoxSet /\ Overlaps(b, b)
      <3>1. o \in Nat /\ map[o].box \in BoxSet
        BY <1>2, MapIs
      <3>2. \A a \in Axes : map[o].box[a][1] < map[o].box[a][2]
        BY <1>2, RtreeAssumption
      <3> QED BY <3>1, <3>2, <2>4 DEF IsData, Overlaps
    <2>6. o \in A => b = Bound(tree, o)
      BY <2>2, <2>4, <2>5
    <2>7. PICK u : u = Deleted(tree, o)
      OBVIOUS
    <2>8. (u = tree /\ o \notin A) \/ Erased(tree, A, o, u)
      BY <2>3, <2>4, <2>5, <2>6, <2>7, DeletedIs
    <2>9. tree' = u /\ present' = present \ {o}
      BY <2>2, <2>7, <1>1
    <2> QED BY <2>1, <2>2, <2>5, <2>8, <2>9, <1>1
  <1> QED BY <1>3, <1>4 DEF RInv

LEMMA DeleteRInv ==
  ASSUME RInv, NEW o \in DOMAIN map, Delete(o)
  PROVE  RInv'
  <1>1. edits' = edits + 1 /\ edits < MaxEdits /\ map' = map
    BY DEF Delete
  <1>2. map \in Maps /\ present \subseteq DOMAIN map /\ IsFiniteSet(present) /\ edits' \in 0..MaxEdits
    BY <1>1, RtreeAssumption DEF RInv, MapInv
  <1>3. CASE Lone(tree, present) /\ tree' = tree /\ present' = present
    BY <1>1, <1>2, <1>3 DEF RInv, MapInv
  <1>4. ASSUME present' = present \ {o}, IsData(o), ~ tree.tied,
               NEW A, NEW lv, NEW c, Holding(tree, map, present, A, lv, c),
               (tree' = tree /\ o \notin A) \/ Erased(tree, A, o, tree')
        PROVE  RInv'
    <2>1. PICK u, p : u = tree' /\ p = present \ {o}
      OBVIOUS
    <2>2. Lone(u, p) \/ Holds(u, map, p)
      <3>1. CASE tree' = tree /\ o \notin A
        <4>1. ~ tree.lopped => present \ {o} = present
          BY <3>1, <1>4 DEF Holding
        <4>2. Holding(tree, map, present \ {o}, A, lv, c)
          BY <4>1, <1>4 DEF Holding
        <4> QED BY <4>2, <3>1, <2>1 DEF Holds
      <3>2. CASE Erased(tree, A, o, tree')
        <4>1. Erased(tree, A, o, u)
          BY <3>2, <2>1
        <4>2. Lone(u, present \ {o}) \/ Holds(u, map, present \ {o})
          BY <4>1, <1>2, <1>4, ErasedHolds
        <4> QED BY <4>2, <2>1
      <3> QED BY <3>1, <3>2, <1>4
    <2>3. IsFiniteSet(p)
      BY <1>2, <2>1, FS_Subset
    <2>4. p \subseteq DOMAIN map
      BY <1>2, <2>1
    <2> QED BY <2>1, <2>2, <2>3, <2>4, <1>1, <1>2, <1>4 DEF RInv, MapInv
  <1> QED BY <1>3, <1>4, DeleteIs

-----------------------------------------------------------------------------
\* The objects of a tree at rest that lost none to a tie.
LEMMA HeldIs ==
  ASSUME NEW t, NEW A, NEW lv, NEW c, Settled(t, A, lv, c), ~ t.tied
  PROVE  {n \in Below(t) : IsData(n)} = {n \in A : IsData(n)}
  BY BelowIs

\* What is below the root, when only the objects Q remain.
LEMMA RemainsHeld ==
  ASSUME NEW t, NEW Q, NEW u, NEW p, Remaining(t, Q, u), ~ u.tied, IsData(u.root) => Lone(u, p)
  PROVE  {n \in Below(u) : IsData(n)} = Q
  <1>1. CASE IsData(u.root)
    <2>1. Below(u) = {u.root}
      BY <1>1, LoneBelow
    <2>2. Q = {u.root}
      <3>1. ASSUME NEW C, NEW lw, NEW e, Settled(u, C, lw, e)
            PROVE  FALSE
        BY <3>1, <1>1 DEF Settled, Whole, Shape, Levels
      <3> QED BY <3>1 DEF Remaining
    <2> QED BY <2>1, <2>2, <1>1
  <1>2. CASE ~ IsData(u.root)
    <2>1. PICK C, lw, e : Settled(u, C, lw, e) /\ Q = {o \in C : IsData(o)}
      BY <1>2 DEF Remaining
    <2>2. {n \in Below(u) : IsData(n)} = {n \in C : IsData(n)}
      BY <2>1, HeldIs
    <2> QED BY <2>1, <2>2
  <1> QED BY <1>1, <1>2

LEMMA InsertTakes ==
  ASSUME RInv, NEW o \in DOMAIN map, Insert(o)
  PROVE  TakesOne
  <1>1. /\ o \notin present /\ tree' = Inserted(tree, o, map[o].box)
        /\ present' = IF IsData(tree.root) THEN present ELSE present \cup {o}
    BY DEF Insert
  <1>2. present \ present' = {}
    BY <1>1
  <1>3. present' = present => tree' = tree
    <2>1. CASE IsData(tree.root)
      BY <2>1, <1>1 DEF Inserted
    <2>2. CASE ~ IsData(tree.root)
      <3>1. present' # present
        BY <2>2, <1>1
      <3> QED BY <3>1
    <2> QED BY <2>1, <2>2
  <1> QED BY <1>2, <1>3 DEF TakesOne

LEMMA DeleteTakes ==
  ASSUME RInv, NEW o \in DOMAIN map, Delete(o), RInv'
  PROVE  TakesOne
  <1>1. CASE tree' = tree /\ present' = present
    BY <1>1 DEF TakesOne
  <1>2. ASSUME present' = present \ {o}, IsData(o), ~ tree.tied, ~ IsData(tree.root),
               NEW A, NEW lv, NEW c, Holding(tree, map, present, A, lv, c),
               (tree' = tree /\ o \notin A) \/ Erased(tree, A, o, tree')
        PROVE  TakesOne
    <2>1. Settled(tree, A, lv, c) /\ (~ tree.lopped => {y \in A : IsData(y)} = present)
      BY <1>2 DEF Holding
    <2>2. Held = {y \in A : IsData(y)}
      BY <2>1, <1>2, HeldIs DEF Held
    <2>3. CASE tree' = tree /\ o \notin A
      <3>1. Held' = Held
        BY <2>3 DEF Held, Below, AtLevel, Items
      <3>2. Held \ {o} = Held
        BY <2>2, <2>3
      <3> QED BY <3>1, <3>2, <2>3, <1>2 DEF TakesOne
    <2>4. CASE Erased(tree, A, o, tree')
      <3>1. PICK u, t : u = tree' /\ t = tree
        OBVIOUS
      <3>2. PICK n \in A : \E x \in ToSet(Items(t, n)) :
              /\ ~ IsData(n) /\ LeafID(x) = o /\ u.size = t.size - 1 /\ u.lopped = (t.lopped \/ ~ Leaf(t, n))
              /\ Remaining(t, {y \in A \ Desc(t, x) : IsData(y)}, u)
        BY <2>4, <3>1 DEF Erased
      <3>3. PICK x \in ToSet(Items(t, n)) :
              /\ ~ IsData(n) /\ LeafID(x) = o /\ u.lopped = (t.lopped \/ ~ Leaf(t, n))
              /\ Remaining(t, {y \in A \ Desc(t, x) : IsData(y)}, u)
        BY <3>2
      <3>4. Settled(t, A, lv, c)
        BY <2>1, <3>1
      <3>5. ASSUME Leaf(t, n)
            PROVE  o \in A /\ {y \in A \ Desc(t, x) : IsData(y)} = {y \in A : IsData(y)} \ {o}
        BY <3>3, <3>4, <3>5, ErasedLeaf
      <3>6. ASSUME o # 0, ~ u.tied
            PROVE  Held' = Held \ {o}
        <4>1. Leaf(t, n)
          <5>1. IsData(x)
            BY <3>3, <3>6 DEF LeafID
          <5> QED BY <5>1, <3>4 DEF Settled, Whole, Shape, Downward
        <4>2. IsData(u.root) => Lone(u, present')
          <5>1. Lone(tree', present') \/ Holds(tree', map', present')
            BY DEF RInv
          <5>2. Holds(tree', map', present') => ~ IsData(tree'.root)
            BY DEF Holds, Holding, Settled, Whole, Shape, Levels
          <5> QED BY <5>1, <5>2, <3>1
        <4>3. {y \in Below(u) : IsData(y)} = {y \in A : IsData(y)} \ {o}
          <5>1. PICK Q : Q = {y \in A \ Desc(t, x) : IsData(y)}
            OBVIOUS
          <5>2. Remaining(t, Q, u)
            BY <5>1, <3>3
          <5>3. {y \in Below(u) : IsData(y)} = Q
            BY <5>2, <4>2, <3>6, RemainsHeld
          <5> QED BY <5>1, <5>3, <4>1, <3>5
        <4>4. Held' = {y \in Below(u) : IsData(y)}
          BY <3>1 DEF Held
        <4> QED BY <4>3, <4>4, <2>2
      <3>7. ASSUME present' = present, ~ u.lopped
            PROVE  FALSE
        <4>1. Leaf(t, n) /\ ~ t.lopped
          BY <3>3, <3>7
        <4>2. o \in A /\ IsData(o)
          BY <4>1, <3>5, <1>2
        <4>3. o \in present
          BY <4>1, <4>2, <2>1, <3>1
        <4> QED BY <4>3, <3>7, <1>2
      <3>8. present \ present' \subseteq {o}
        BY <1>2
      <3> QED BY <3>1, <3>6, <3>7, <3>8 DEF TakesOne
    <2> QED BY <2>3, <2>4, <1>2
  <1> QED BY <1>1, <1>2, DeleteIs

LEMMA NextRInv ==
  ASSUME RInv, [Next]_vars
  PROVE  RInv'
  <1>1. CASE \E o \in DOMAIN map : Insert(o)
    BY <1>1, InsertRInv
  <1>2. CASE \E o \in DOMAIN map : Delete(o)
    BY <1>2, DeleteRInv
  <1>3. CASE UNCHANGED vars
    BY <1>3, StutterRInv
  <1> QED BY <1>1, <1>2, <1>3 DEF Next

LEMMA AlwaysRInv == Spec => []RInv
  <1> QED BY InitRInv, NextRInv, PTL DEF Spec

LEMMA NextTakesOne ==
  ASSUME RInv, RInv', [Next]_vars
  PROVE  [TakesOne]_vars
  <1>1. CASE \E o \in DOMAIN map : Insert(o)
    BY <1>1, InsertTakes
  <1>2. CASE \E o \in DOMAIN map : Delete(o)
    BY <1>2, DeleteTakes
  <1>3. CASE UNCHANGED vars
    BY <1>3
  <1> QED BY <1>1, <1>2, <1>3 DEF Next

-----------------------------------------------------------------------------
(* The heap *)

\* No element is smaller than its parent.
Heaped(h) == \A i \in 2..Len(h) : h[i \div 2].rank <= h[i].rank

\* ... but perhaps the one at a, which may still rise.
Rising(h, a) ==
  /\ \A i \in 2..Len(h) : i # a => h[i \div 2].rank <= h[i].rank
  /\ \A c \in 2..Len(h) : c \div 2 = a /\ a >= 2 => h[a \div 2].rank <= h[c].rank

\* ... but perhaps the children of the one at a, which may still sink.
Sinking(h, a) ==
  /\ \A i \in 2..Len(h) : i \div 2 # a => h[i \div 2].rank <= h[i].rank
  /\ \A c \in 2..Len(h) : c \div 2 = a /\ a >= 2 => h[a \div 2].rank <= h[c].rank

\* g has the elements of h, in another order.
Shuffled(S, h, g) == g \in Seq(S) /\ Len(g) = Len(h) /\ ToSet(g) = ToSet(h) /\ IsInjective(g)

LEMMA HalfIs ==
  ASSUME NEW i \in Nat, i >= 2
  PROVE  i \div 2 \in Nat /\ 1 <= i \div 2 /\ i \div 2 < i
  OBVIOUS

\* g is h with two elements in each other's place.
Swapped(S, h, i, j, g) ==
  /\ g \in Seq(S) /\ Len(g) = Len(h)
  /\ g[i] = h[j] /\ g[j] = h[i] /\ \A k \in 1..Len(h) : k # i /\ k # j => g[k] = h[k]
  /\ ToSet(g) = ToSet(h) /\ (IsInjective(h) => IsInjective(g))

LEMMA SwapIs ==
  ASSUME NEW S, NEW h \in Seq(S), NEW i \in 1..Len(h), NEW j \in 1..Len(h), NEW g, g = Swap(h, i, j)
  PROVE  Swapped(S, h, i, j, g)
  <1>1. /\ Len(h) \in Nat /\ DOMAIN h = 1..Len(h) /\ (\A k \in 1..Len(h) : h[k] \in S)
        /\ ToSet(h) = {h[k] : k \in 1..Len(h)}
    BY SeqIs
  <1>2. /\ g[i] = h[j] /\ g[j] = h[i] /\ \A k \in 1..Len(h) : k # i /\ k # j => g[k] = h[k]
    BY <1>1 DEF Swap
  <1>3. g \in [1..Len(h) -> S]
    <2>1. g = [k \in 1..Len(h) |-> g[k]]
      BY <1>1 DEF Swap
    <2>2. \A k \in 1..Len(h) : g[k] \in S
      BY <1>1, <1>2
    <2> QED BY <2>1, <2>2
  <1>4. g \in Seq(S) /\ Len(g) = Len(h)
    BY <1>1, <1>3
  <1>5. DOMAIN g = 1..Len(h) /\ ToSet(g) = {g[k] : k \in 1..Len(h)}
    BY <1>4, SeqIs
  <1>6. ToSet(g) = ToSet(h)
    <2>1. \A k \in 1..Len(h) : g[k] \in ToSet(h)
      BY <1>1, <1>2
    <2>2. \A k \in 1..Len(h) : h[k] \in ToSet(g)
      BY <1>2, <1>5
    <2> QED BY <2>1, <2>2, <1>1, <1>5, ZenonT(60)
  <1>7. ASSUME IsInjective(h)
        PROVE  IsInjective(g)
    <2>1. \A k, l \in 1..Len(h) : h[k] = h[l] => k = l
      BY <1>7, <1>1 DEF IsInjective
    <2>2. \A k, l \in 1..Len(h) : g[k] = g[l] => k = l
      BY <2>1, <1>2
    <2> QED BY <2>2, <1>5 DEF IsInjective
  <1> QED BY <1>2, <1>4, <1>6, <1>7 DEF Swapped

\* The root is a smallest element.
LEMMA RootIsLeast ==
  ASSUME NEW S, \A e \in S : e.rank \in Int, NEW h \in Seq(S), Heaped(h), NEW e \in ToSet(h)
  PROVE  h # <<>> /\ Head(h) = h[1] /\ Head(h) \in ToSet(h) /\ Head(h).rank <= e.rank
  <1>1. /\ Len(h) \in Nat /\ DOMAIN h = 1..Len(h) /\ (\A i \in 1..Len(h) : h[i] \in S)
        /\ ToSet(h) = {h[i] : i \in 1..Len(h)} /\ (h = <<>> <=> Len(h) = 0)
    BY SeqIs
  <1>2. PICK n : n = Len(h)
    OBVIOUS
  <1>3. n \in Nat \ {0} /\ Head(h) = h[1] /\ h # <<>>
    BY <1>1, <1>2
  <1>4. \A i \in 1..n : h[i].rank \in Int
    BY <1>1, <1>2
  <1>5. \A i \in 1..n : h[1].rank <= h[i].rank
    <2> DEFINE B == {i \in 1..n : ~ (h[1].rank <= h[i].rank)}
    <2>1. SUFFICES ASSUME B # {} PROVE FALSE
      OBVIOUS
    <2>2. PICK i \in B : \A m \in B : i <= m
      <3>1. B \in SUBSET Nat
        BY <1>3
      <3> HIDE DEF B
      <3> QED BY <2>1, <3>1, LeastNat
    <2>3. i \in 2..n /\ i \in Nat /\ i >= 2
      BY <1>3, <1>4
    <2>4. i \div 2 \in 1..n /\ i \div 2 < i
      BY <2>3, <1>3, HalfIs
    <2>5. h[1].rank <= h[i \div 2].rank
      <3>1. i \div 2 \notin B
        <4> HIDE DEF B
        <4> QED BY <2>2, <2>3, <2>4
      <3> QED BY <3>1, <2>4
    <2>6. h[i \div 2].rank <= h[i].rank
      BY <2>3, <1>2 DEF Heaped
    <2> QED BY <2>5, <2>6, <2>3, <2>4, <1>3, <1>4
  <1> QED BY <1>1, <1>2, <1>3, <1>5

(* Sifting up *)

RisingTurn(d) ==
  IF d.at = 1 \/ d.heap[d.at \div 2].rank <= d.heap[d.at].rank THEN d
  ELSE [heap |-> Swap(d.heap, d.at, d.at \div 2), at |-> d.at \div 2]

RisingStep(h, i, f) ==
  [k \in 0..Len(h) |->
     IF k = 0 THEN [heap |-> h, at |-> i]
     ELSE LET d == f[k - 1]
              u == d.at \div 2
          IN  IF d.at = 1 \/ d.heap[u].rank <= d.heap[d.at].rank THEN d
              ELSE [heap |-> Swap(d.heap, d.at, u), at |-> u]]

\* After k turns.
Rises(S, h, k, d) ==
  /\ d \in [heap : Seq(S), at : Nat]
  /\ Shuffled(S, h, d.heap) /\ d.at \in 1..Len(h)
  /\ Rising(d.heap, d.at) /\ (Heaped(d.heap) \/ d.at <= Len(h) - k)

LEMMA RisingTurnIs ==
  ASSUME NEW S, \A e \in S : e.rank \in Int, NEW h \in Seq(S), NEW k \in Nat \ {0}, NEW d, Rises(S, h, k - 1, d)
  PROVE  Rises(S, h, k, RisingTurn(d))
  <1>1. PICK g, a, n : g = d.heap /\ a = d.at /\ n = Len(h)
    OBVIOUS
  <1>2. /\ g \in Seq(S) /\ Len(g) = n /\ ToSet(g) = ToSet(h) /\ IsInjective(g) /\ a \in 1..n /\ n \in Nat
        /\ Rising(g, a) /\ (Heaped(g) \/ a <= n - (k - 1)) /\ d \in [heap : Seq(S), at : Nat]
    BY <1>1, SeqIs DEF Rises, Shuffled
  <1>3. \A i \in 1..n : g[i] \in S /\ g[i].rank \in Int
    BY <1>2, SeqIs
  <1>4. CASE a = 1 \/ g[a \div 2].rank <= g[a].rank
    <2>1. RisingTurn(d) = d
      BY <1>1, <1>4 DEF RisingTurn
    <2>2. Heaped(g)
      <3>1. \A i \in 2..n : i # a => g[i \div 2].rank <= g[i].rank
        BY <1>2 DEF Rising
      <3>2. a \in 2..n => g[a \div 2].rank <= g[a].rank
        BY <1>4
      <3> QED BY <3>1, <3>2, <1>2 DEF Heaped
    <2> QED BY <2>1, <2>2, <1>1, <1>2 DEF Rises, Shuffled
  <1>5. CASE ~ (a = 1 \/ g[a \div 2].rank <= g[a].rank)
    <2>1. PICK u : u = a \div 2
      OBVIOUS
    <2>2. a \in 2..n /\ u \in 1..n /\ u < a /\ u \in Nat /\ a \in Nat
      <3>1. a \in Nat /\ a >= 2
        BY <1>2, <1>5
      <3>2. u \in Nat /\ 1 <= u /\ u < a
        BY <3>1, <2>1, HalfIs
      <3> QED BY <3>1, <3>2, <1>2
    <2>3. g[a].rank < g[u].rank
      BY <1>3, <1>5, <2>1, <2>2
    <2>4. PICK w : w = Swap(g, a, u)
      OBVIOUS
    <2>5. RisingTurn(d) = [heap |-> w, at |-> u]
      BY <1>1, <1>5, <2>1, <2>4 DEF RisingTurn
    <2>6. /\ w \in Seq(S) /\ Len(w) = n /\ ToSet(w) = ToSet(g) /\ IsInjective(w)
          /\ w[a] = g[u] /\ w[u] = g[a] /\ \A i \in 1..n : i # a /\ i # u => w[i] = g[i]
      <3>1. a \in 1..Len(g) /\ u \in 1..Len(g) /\ g \in Seq(S)
        BY <1>2, <2>2
      <3>2. Swapped(S, g, a, u, w)
        BY <3>1, <2>4, SwapIs
      <3> QED BY <3>2, <1>2 DEF Swapped
    <2>7. \A i \in 2..n : i \in Nat /\ i \div 2 \in 1..n /\ i \div 2 < i
      <3> SUFFICES ASSUME NEW i \in 2..n PROVE i \in Nat /\ i \div 2 \in 1..n /\ i \div 2 < i
        OBVIOUS
      <3>1. i \in Nat /\ i >= 2
        BY <1>2
      <3> QED BY <3>1, <1>2, HalfIs
    <2>8. \A i \in 2..n : i # a => g[i \div 2].rank <= g[i].rank
      BY <1>2 DEF Rising
    <2>9. \A c \in 2..n : c \div 2 = a => g[u].rank <= g[c].rank
      BY <1>2, <2>1, <2>2 DEF Rising
    <2>10. ASSUME NEW i \in 2..n, i # u
           PROVE  w[i \div 2].rank <= w[i].rank
      <3>1. CASE i = a
        BY <3>1, <2>1, <2>3, <2>6, <1>3, <2>2
      <3>2. CASE i # a /\ i \div 2 = a
        <4>1. w[i] = g[i] /\ w[i \div 2] = g[u]
          BY <3>2, <2>10, <2>6, <2>7, <2>2
        <4> QED BY <4>1, <3>2, <2>9
      <3>3. CASE i # a /\ i \div 2 = u
        <4>1. w[i] = g[i] /\ w[i \div 2] = g[a]
          BY <3>3, <2>10, <2>6, <2>7, <2>2
        <4>2. g[u].rank <= g[i].rank
          BY <3>3, <2>8
        <4> QED BY <4>1, <4>2, <2>3, <1>3, <2>2, <2>10
      <3>4. CASE i # a /\ i \div 2 # a /\ i \div 2 # u
        <4>1. w[i] = g[i] /\ w[i \div 2] = g[i \div 2]
          BY <3>4, <2>10, <2>6, <2>7, <2>2
        <4> QED BY <4>1, <3>4, <2>8
      <3> QED BY <3>1, <3>2, <3>3, <3>4
    <2>11. ASSUME NEW c \in 2..n, c \div 2 = u, u >= 2
           PROVE  w[u \div 2].rank <= w[c].rank
      <3>1. u \in 2..n /\ u \div 2 \in 1..n /\ u \div 2 < u
        BY <2>2, <2>7, <2>11
      <3>2. w[u \div 2] = g[u \div 2] /\ g[u \div 2].rank <= g[u].rank
        BY <3>1, <2>2, <2>6, <2>8
      <3>3. CASE c = a
        BY <3>3, <3>2, <2>6
      <3>4. CASE c # a
        <4>1. w[c] = g[c] /\ g[u].rank <= g[c].rank
          BY <3>4, <2>11, <2>6, <2>7, <2>8
        <4> QED BY <4>1, <3>1, <3>2, <1>3, <2>2, <2>11
      <3> QED BY <3>3, <3>4
    <2>12. Rising(w, u)
      BY <2>6, <2>10, <2>11 DEF Rising
    <2>13. u <= n - k
      <3>1. ~ Heaped(g)
        BY <1>2, <1>5, <2>2 DEF Heaped
      <3> QED BY <3>1, <1>2, <2>2
    <2>14. [heap |-> w, at |-> u] \in [heap : Seq(S), at : Nat]
      BY <2>2, <2>6
    <2>15. PICK r : r = [heap |-> w, at |-> u]
      OBVIOUS
    <2>16. r.heap = w /\ r.at = u
      BY <2>15
    <2>17. Rises(S, h, k, r)
      BY <2>2, <2>6, <2>12, <2>13, <2>14, <2>15, <2>16, <1>1, <1>2 DEF Rises, Shuffled
    <2> QED BY <2>5, <2>15, <2>17
  <1> QED BY <1>4, <1>5

-----------------------------------------------------------------------------
LEMMA SiftUpIs ==
  ASSUME NEW S, \A e \in S : e.rank \in Int, NEW h \in Seq(S), IsInjective(h), NEW i \in 1..Len(h),
         i = Len(h), Rising(h, i)
  PROVE  Shuffled(S, h, SiftUp(h, i)) /\ Heaped(SiftUp(h, i))
  <1> DEFINE V == [heap : Seq(S), at : Nat]
             Good(k) == {d \in V : Rises(S, h, k, d)}
             W == [k \in 0..Len(h) |-> Good(k)]
             T(d) == RisingTurn(d)
             G == [kd \in (1..Len(h)) \X V |-> T(kd[2])]
             base == [heap |-> h, at |-> i]
  <1>1. PICK n \in Nat : n = Len(h)
    BY SeqIs
  <1>2. base \in W[0]
    <2>1. base \in V /\ base.heap = h /\ base.at = i
      BY <1>1
    <2>2. Rises(S, h, 0, base)
      BY <2>1, <1>1 DEF Rises, Shuffled
    <2>3. 0 \in 0..Len(h)
      BY <1>1
    <2> QED BY <2>1, <2>2, <2>3
  <1>3. ASSUME NEW k \in 1..n, NEW d \in W[k - 1]
        PROVE  d \in V /\ T(d) \in W[k]
    <2>1. k - 1 \in 0..Len(h) /\ k \in 0..Len(h) /\ k \in Nat \ {0}
      BY <1>1
    <2>2. d \in V /\ Rises(S, h, k - 1, d)
      BY <2>1
    <2>3. Rises(S, h, k, T(d))
      BY <2>1, <2>2, RisingTurnIs
    <2>4. T(d) \in V
      BY <2>3 DEF Rises
    <2> HIDE DEF T
    <2> QED BY <2>1, <2>2, <2>3, <2>4
  <1>4. \A k \in 1..n : \A d \in W[k - 1] : G[<<k, d>>] = T(d)
    <2> SUFFICES ASSUME NEW k \in 1..n, NEW d \in W[k - 1]
                 PROVE  G[<<k, d>>] = T(d)
      OBVIOUS
    <2>1. d \in V
      BY <1>3
    <2> HIDE DEF W, T, V
    <2> QED BY <2>1, <1>1
  <1>5. ASSUME NEW d \in W[n]
        PROVE  Shuffled(S, h, d.heap) /\ Heaped(d.heap)
    <2>1. n \in 0..Len(h)
      BY <1>1
    <2>2. Rises(S, h, n, d)
      BY <2>1
    <2>3. d.at \in 1..n /\ (Heaped(d.heap) \/ d.at <= n - n)
      BY <2>2, <1>1 DEF Rises
    <2> QED BY <2>2, <2>3, <1>1 DEF Rises
  <1> HIDE DEF W, G, T, Good
  <1>6. Turns0(n, W, base, G)
    BY <1>2, <1>3, <1>4 DEF Turns0
  <1>7. PICK f : Turned0(f, n, W, base, G)
    BY <1>6, LoopExists
  <1>8. \A k \in 1..n : f[k] = T(f[k - 1])
    <2>1. \A k \in 1..n : k \in 0..n /\ k - 1 \in 0..n
      OBVIOUS
    <2> QED BY <2>1, <1>4, <1>7 DEF Turned0
  <1>9. f = RisingStep(h, i, f)
    <2>1. \A k \in 0..n : f[k] = IF k = 0 THEN base ELSE T(f[k - 1])
      <3>1. \A k \in 0..n : k = 0 \/ k \in 1..n
        OBVIOUS
      <3> QED BY <3>1, <1>7, <1>8 DEF Turned0
    <2>2. f = [k \in 0..n |-> f[k]]
      BY <1>7 DEF Turned0
    <2>3. f = [k \in 0..n |-> IF k = 0 THEN base ELSE T(f[k - 1])]
      BY <2>1, <2>2
    <2>4. RisingStep(h, i, f) = [k \in 0..n |-> IF k = 0 THEN base ELSE T(f[k - 1])]
      BY <1>1 DEF RisingStep, RisingTurn, T
    <2> QED BY <2>3, <2>4
  <1>10. PICK g : g = CHOOSE x : x = RisingStep(h, i, x)
    OBVIOUS
  <1>11. g = RisingStep(h, i, g)
    BY <1>9, <1>10
  <1>12. g[0] = base /\ \A k \in 1..n : g[k] = T(g[k - 1])
    <2>1. 0 \in 0..n /\ \A k \in 1..n : k \in 0..n /\ k # 0
      OBVIOUS
    <2>2. RisingStep(h, i, g) = [k \in 0..n |-> IF k = 0 THEN base ELSE T(g[k - 1])]
      BY <1>1 DEF RisingStep, RisingTurn, T
    <2> QED BY <2>1, <2>2, <1>11
  <1>13. g[n] \in W[n]
    <2>1. g[0] \in W[0]
      BY <1>2, <1>12
    <2>2. \A k \in 1..n : g[k - 1] \in W[k - 1] => g[k] \in W[k]
      BY <1>3, <1>12
    <2>3. \A k \in 0..n : g[k] \in W[k]
      BY <2>1, <2>2, LoopStays
    <2> QED BY <2>3
  <1>14. SiftUp(h, i) = g[n].heap
    BY <1>1, <1>10 DEF SiftUp, RisingStep
  <1> QED BY <1>5, <1>13, <1>14

\* Insertion adds an element.
LEMMA HeapInsertIs ==
  ASSUME NEW S, \A e \in S : e.rank \in Int, NEW h \in Seq(S), IsInjective(h), Heaped(h),
         NEW e \in S, e \notin ToSet(h), NEW g, g = HeapInsert(h, e)
  PROVE  g \in Seq(S) /\ IsInjective(g) /\ Heaped(g) /\ ToSet(g) = ToSet(h) \cup {e}
  <1>1. PICK a, n : a = Append(h, e) /\ n = Len(h) + 1
    OBVIOUS
  <1>2. /\ a \in Seq(S) /\ Len(a) = n /\ ToSet(a) = ToSet(h) \cup {e} /\ IsInjective(a)
        /\ \A i \in 1..Len(h) : a[i] = h[i]
    BY <1>1, AppendSet
  <1>3. n \in Nat \ {0} /\ Len(h) = n - 1 /\ n \in 1..Len(a)
    BY <1>1, <1>2, SeqIs
  <1>4. Rising(a, n)
    <2>1. \A i \in 2..n : i \in Nat /\ i \div 2 \in 1..n /\ i \div 2 < i
      <3> SUFFICES ASSUME NEW i \in 2..n PROVE i \in Nat /\ i \div 2 \in 1..n /\ i \div 2 < i
        OBVIOUS
      <3>1. i \in Nat /\ i >= 2
        BY <1>3
      <3> QED BY <3>1, <1>3, HalfIs
    <2>2. \A i \in 2..n : i # n => a[i \div 2].rank <= a[i].rank
      <3> SUFFICES ASSUME NEW i \in 2..n, i # n PROVE a[i \div 2].rank <= a[i].rank
        OBVIOUS
      <3>1. i \in 2..Len(h) /\ i \in 1..Len(h) /\ i \div 2 \in 1..Len(h)
        BY <2>1, <1>3
      <3>2. h[i \div 2].rank <= h[i].rank
        BY <3>1 DEF Heaped
      <3> QED BY <3>1, <3>2, <1>2
    <2>3. \A c \in 2..n : c \div 2 # n
      BY <2>1, <1>3
    <2> QED BY <2>2, <2>3, <1>2 DEF Rising
  <1>5. g = SiftUp(a, n)
    BY <1>1 DEF HeapInsert
  <1>6. Shuffled(S, a, g) /\ Heaped(g)
    BY <1>2, <1>3, <1>4, <1>5, SiftUpIs
  <1> QED BY <1>2, <1>6 DEF Shuffled

-----------------------------------------------------------------------------
(* Sifting down *)

Lowest(g, j, k) == IF k <= Len(g) /\ g[k].rank <= g[j].rank THEN k ELSE j

SinkingTurn(d) ==
  LET s == Lowest(d.heap, Lowest(d.heap, d.at, 2 * d.at), 2 * d.at + 1)
  IN  [heap |-> Swap(d.heap, d.at, s), at |-> s]

SinkingStep(h, i, f) ==
  LET lower(g, j, k) == IF k <= Len(g) /\ g[k].rank <= g[j].rank THEN k ELSE j
  IN  [k \in 0..Len(h) |->
        IF k = 0 THEN [heap |-> h, at |-> i]
        ELSE LET d == f[k - 1]
                 s == lower(d.heap, lower(d.heap, d.at, 2 * d.at), 2 * d.at + 1)
             IN  [heap |-> Swap(d.heap, d.at, s), at |-> s]]

\* After k turns.
Sinks(S, h, k, d) ==
  /\ d \in [heap : Seq(S), at : Nat]
  /\ Shuffled(S, h, d.heap) /\ d.at \in 1..Len(h)
  /\ Heaped(d.heap) \/ (Sinking(d.heap, d.at) /\ d.at >= 1 + k)

\* s is the smallest of the element at a and its children.
IsLowest(g, n, a, s) ==
  /\ s \in 1..n /\ (s = a \/ s \div 2 = a) /\ s >= a /\ g[s].rank <= g[a].rank
  /\ \A c \in 2..n : c \div 2 = a => g[s].rank <= g[c].rank

LEMMA LowestIs ==
  ASSUME NEW g, NEW n \in Nat, Len(g) = n, \A i \in 1..n : g[i].rank \in Int, NEW a \in 1..n,
         NEW s, s = Lowest(g, Lowest(g, a, 2 * a), 2 * a + 1)
  PROVE  IsLowest(g, n, a, s)
  <1>1. PICK x : x = Lowest(g, a, 2 * a)
    OBVIOUS
  <1>2. a \in Nat /\ (2 * a) \div 2 = a /\ (2 * a + 1) \div 2 = a /\ 2 * a > a /\ 2 * a + 1 > a
    OBVIOUS
  <1>3. /\ x \in 1..n /\ (x = a \/ x = 2 * a) /\ g[x].rank <= g[a].rank
        /\ 2 * a <= n => g[x].rank <= g[2 * a].rank
    BY <1>1, <1>2 DEF Lowest
  <1>4. s = Lowest(g, x, 2 * a + 1)
    BY <1>1
  <1>5. /\ s \in 1..n /\ (s = x \/ s = 2 * a + 1) /\ g[s].rank <= g[x].rank
        /\ 2 * a + 1 <= n => g[s].rank <= g[2 * a + 1].rank
    BY <1>2, <1>3, <1>4 DEF Lowest
  <1>6. g[s].rank \in Int /\ g[x].rank \in Int /\ g[a].rank \in Int
    BY <1>3, <1>5
  <1>7. ASSUME NEW c \in 2..n, c \div 2 = a
        PROVE  g[s].rank <= g[c].rank
    <2>1. c = 2 * a \/ c = 2 * a + 1
      BY <1>7
    <2>2. g[c].rank \in Int
      OBVIOUS
    <2>3. CASE c = 2 * a
      <3>1. g[x].rank <= g[c].rank
        BY <2>3, <1>3
      <3> QED BY <3>1, <2>2, <1>5, <1>6
    <2>4. CASE c = 2 * a + 1
      BY <2>4, <1>5
    <2> QED BY <2>1, <2>3, <2>4
  <1>8. g[s].rank <= g[a].rank
    BY <1>3, <1>5, <1>6
  <1>9. s = a \/ s \div 2 = a
    BY <1>2, <1>3, <1>5
  <1>10. s >= a
    BY <1>2, <1>3, <1>5
  <1> QED BY <1>5, <1>7, <1>8, <1>9, <1>10 DEF IsLowest

LEMMA SinkingTurnIs ==
  ASSUME NEW S, \A e \in S : e.rank \in Int, NEW h \in Seq(S), NEW k \in Nat \ {0}, NEW d, Sinks(S, h, k - 1, d)
  PROVE  Sinks(S, h, k, SinkingTurn(d))
  <1>1. PICK g, a, n : g = d.heap /\ a = d.at /\ n = Len(h)
    OBVIOUS
  <1>2. /\ g \in Seq(S) /\ Len(g) = n /\ ToSet(g) = ToSet(h) /\ IsInjective(g) /\ a \in 1..n /\ n \in Nat
        /\ Heaped(g) \/ (Sinking(g, a) /\ a >= 1 + (k - 1))
    BY <1>1, SeqIs DEF Sinks, Shuffled
  <1>3. \A i \in 1..n : g[i] \in S /\ g[i].rank \in Int
    BY <1>2, SeqIs
  <1>4. PICK s : s = Lowest(g, Lowest(g, a, 2 * a), 2 * a + 1)
    OBVIOUS
  <1>5. /\ s \in 1..n /\ (s = a \/ s \div 2 = a) /\ s >= a /\ g[s].rank <= g[a].rank
        /\ \A c \in 2..n : c \div 2 = a => g[s].rank <= g[c].rank
    <2>1. IsLowest(g, n, a, s)
      BY <1>2, <1>3, <1>4, LowestIs
    <2> QED BY <2>1 DEF IsLowest
  <1>6. PICK w : w = Swap(g, a, s)
    OBVIOUS
  <1>7. /\ w \in Seq(S) /\ Len(w) = n /\ ToSet(w) = ToSet(g) /\ IsInjective(w)
        /\ w[a] = g[s] /\ w[s] = g[a] /\ \A i \in 1..n : i # a /\ i # s => w[i] = g[i]
    <2>1. g \in Seq(S) /\ a \in 1..Len(g) /\ s \in 1..Len(g)
      BY <1>2, <1>5
    <2>2. Swapped(S, g, a, s, w)
      BY <2>1, <1>6, SwapIs
    <2> QED BY <2>2, <1>2 DEF Swapped
  <1>8. \A i \in 2..n : i \in Nat /\ i \in 1..n /\ i \div 2 \in 1..n /\ i \div 2 < i
    <2> SUFFICES ASSUME NEW i \in 2..n PROVE i \in Nat /\ i \in 1..n /\ i \div 2 \in 1..n /\ i \div 2 < i
      OBVIOUS
    <2>1. i \in Nat /\ i >= 2
      BY <1>2
    <2> QED BY <2>1, <1>2, HalfIs
  <1>9. Heaped(w) \/ (Sinking(w, s) /\ s >= 1 + k)
    <2>1. CASE s = a
      <3>1. \A i \in 1..n : w[i] = g[i]
        BY <2>1, <1>7
      <3>2. \A i \in 2..n : g[i \div 2].rank <= g[i].rank
        <4>1. CASE Heaped(g)
          BY <4>1, <1>2 DEF Heaped
        <4>2. CASE Sinking(g, a)
          BY <4>2, <2>1, <1>2, <1>5 DEF Sinking
        <4> QED BY <4>1, <4>2, <1>2
      <3> QED BY <3>1, <3>2, <1>7, <1>8 DEF Heaped
    <2>2. CASE s # a /\ Heaped(g)
      <3>1. s \in 2..n /\ s \div 2 = a
        BY <2>2, <1>2, <1>5
      <3>2. g[a].rank <= g[s].rank
        BY <3>1, <2>2, <1>2 DEF Heaped
      <3>3. g[a].rank = g[s].rank
        BY <3>2, <1>2, <1>3, <1>5
      <3>4. \A i \in 1..n : w[i].rank = g[i].rank
        BY <3>3, <1>7
      <3>5. \A i \in 2..n : g[i \div 2].rank <= g[i].rank
        BY <2>2, <1>2 DEF Heaped
      <3> QED BY <3>4, <3>5, <1>7, <1>8 DEF Heaped
    <2>3. CASE s # a /\ ~ Heaped(g)
      <3>1. s \in 2..n /\ s \div 2 = a /\ s > a
        BY <2>3, <1>2, <1>5
      <3>2. /\ \A i \in 2..n : i \div 2 # a => g[i \div 2].rank <= g[i].rank
            /\ \A c \in 2..n : c \div 2 = a /\ a >= 2 => g[a \div 2].rank <= g[c].rank
        BY <2>3, <1>2 DEF Sinking
      <3>3. ASSUME NEW i \in 2..n, i \div 2 # s
            PROVE  w[i \div 2].rank <= w[i].rank
        <4>1. CASE i = a
          <5>1. a >= 2 /\ g[a \div 2].rank <= g[s].rank
            BY <4>1, <3>1, <3>2
          <5>2. w[a \div 2] = g[a \div 2]
            BY <4>1, <3>1, <1>7, <1>8
          <5> QED BY <4>1, <5>1, <5>2, <1>7
        <4>2. CASE i = s
          BY <4>2, <3>1, <1>5, <1>7
        <4>3. CASE i # a /\ i # s /\ i \div 2 = a
          BY <4>3, <1>5, <1>7, <1>8
        <4>4. CASE i # a /\ i # s /\ i \div 2 # a
          <5>1. w[i] = g[i] /\ w[i \div 2] = g[i \div 2]
            BY <4>4, <3>3, <1>7, <1>8
          <5> QED BY <5>1, <4>4, <3>2
        <4> QED BY <4>1, <4>2, <4>3, <4>4
      <3>4. ASSUME NEW c \in 2..n, c \div 2 = s, s >= 2
            PROVE  w[s \div 2].rank <= w[c].rank
        <4>1. c # a /\ c # s /\ w[c] = g[c]
          BY <3>4, <3>1, <1>7, <1>8
        <4>2. g[s].rank <= g[c].rank
          BY <3>4, <3>1, <3>2
        <4> QED BY <4>1, <4>2, <3>1, <1>7
      <3>5. s >= 1 + k
        BY <2>3, <3>1, <1>2
      <3> QED BY <3>3, <3>4, <3>5, <1>7 DEF Sinking
    <2> QED BY <2>1, <2>2, <2>3
  <1>10. PICK r : r = [heap |-> w, at |-> s]
    OBVIOUS
  <1>11. r.heap = w /\ r.at = s /\ r \in [heap : Seq(S), at : Nat]
    BY <1>10, <1>7, <1>5, <1>2
  <1>12. SinkingTurn(d) = r
    BY <1>1, <1>4, <1>6, <1>10 DEF SinkingTurn
  <1>13. Sinks(S, h, k, r)
    BY <1>1, <1>2, <1>5, <1>7, <1>9, <1>11 DEF Sinks, Shuffled
  <1> QED BY <1>12, <1>13

-----------------------------------------------------------------------------
LEMMA SiftDownIs ==
  ASSUME NEW S, \A e \in S : e.rank \in Int, NEW h \in Seq(S), IsInjective(h), NEW i \in 1..Len(h),
         i = 1, Sinking(h, i)
  PROVE  Shuffled(S, h, SiftDown(h, i)) /\ Heaped(SiftDown(h, i))
  <1> DEFINE V == [heap : Seq(S), at : Nat]
             Good(k) == {d \in V : Sinks(S, h, k, d)}
             W == [k \in 0..Len(h) |-> Good(k)]
             T(d) == SinkingTurn(d)
             G == [kd \in (1..Len(h)) \X V |-> T(kd[2])]
             base == [heap |-> h, at |-> i]
  <1>1. PICK n \in Nat : n = Len(h)
    BY SeqIs
  <1>2. base \in W[0]
    <2>1. base \in V /\ base.heap = h /\ base.at = i
      BY <1>1
    <2>2. Sinks(S, h, 0, base)
      BY <2>1, <1>1 DEF Sinks, Shuffled
    <2>3. 0 \in 0..Len(h)
      BY <1>1
    <2> QED BY <2>1, <2>2, <2>3
  <1>3. ASSUME NEW k \in 1..n, NEW d \in W[k - 1]
        PROVE  d \in V /\ T(d) \in W[k]
    <2>1. k - 1 \in 0..Len(h) /\ k \in 0..Len(h) /\ k \in Nat \ {0}
      BY <1>1
    <2>2. d \in V /\ Sinks(S, h, k - 1, d)
      BY <2>1
    <2>3. Sinks(S, h, k, T(d))
      BY <2>1, <2>2, SinkingTurnIs
    <2>4. T(d) \in V
      BY <2>3 DEF Sinks
    <2> HIDE DEF T
    <2> QED BY <2>1, <2>2, <2>3, <2>4
  <1>4. \A k \in 1..n : \A d \in W[k - 1] : G[<<k, d>>] = T(d)
    <2> SUFFICES ASSUME NEW k \in 1..n, NEW d \in W[k - 1]
                 PROVE  G[<<k, d>>] = T(d)
      OBVIOUS
    <2>1. d \in V
      BY <1>3
    <2> HIDE DEF W, T, V
    <2> QED BY <2>1, <1>1
  <1>5. ASSUME NEW d \in W[n]
        PROVE  Shuffled(S, h, d.heap) /\ Heaped(d.heap)
    <2>1. n \in 0..Len(h)
      BY <1>1
    <2>2. Sinks(S, h, n, d)
      BY <2>1
    <2>3. d.at \in 1..n /\ (Heaped(d.heap) \/ d.at >= 1 + n)
      BY <2>2, <1>1 DEF Sinks
    <2> QED BY <2>2, <2>3, <1>1 DEF Sinks
  <1> HIDE DEF W, G, T, Good
  <1>6. Turns0(n, W, base, G)
    BY <1>2, <1>3, <1>4 DEF Turns0
  <1>7. PICK f : Turned0(f, n, W, base, G)
    BY <1>6, LoopExists
  <1>8. \A k \in 1..n : f[k] = T(f[k - 1])
    <2>1. \A k \in 1..n : k \in 0..n /\ k - 1 \in 0..n
      OBVIOUS
    <2> QED BY <2>1, <1>4, <1>7 DEF Turned0
  <1>9. f = SinkingStep(h, i, f)
    <2>1. \A k \in 0..n : f[k] = IF k = 0 THEN base ELSE T(f[k - 1])
      <3>1. \A k \in 0..n : k = 0 \/ k \in 1..n
        OBVIOUS
      <3> QED BY <3>1, <1>7, <1>8 DEF Turned0
    <2>2. f = [k \in 0..n |-> f[k]]
      BY <1>7 DEF Turned0
    <2>3. f = [k \in 0..n |-> IF k = 0 THEN base ELSE T(f[k - 1])]
      BY <2>1, <2>2
    <2>4. SinkingStep(h, i, f) = [k \in 0..n |-> IF k = 0 THEN base ELSE T(f[k - 1])]
      BY <1>1 DEF SinkingStep, SinkingTurn, Lowest, T
    <2> QED BY <2>3, <2>4
  <1>10. PICK g : g = CHOOSE x : x = SinkingStep(h, i, x)
    OBVIOUS
  <1>11. g = SinkingStep(h, i, g)
    BY <1>9, <1>10
  <1>12. g[0] = base /\ \A k \in 1..n : g[k] = T(g[k - 1])
    <2>1. 0 \in 0..n /\ \A k \in 1..n : k \in 0..n /\ k # 0
      OBVIOUS
    <2>2. SinkingStep(h, i, g) = [k \in 0..n |-> IF k = 0 THEN base ELSE T(g[k - 1])]
      BY <1>1 DEF SinkingStep, SinkingTurn, Lowest, T
    <2> QED BY <2>1, <2>2, <1>11
  <1>13. g[n] \in W[n]
    <2>1. g[0] \in W[0]
      BY <1>2, <1>12
    <2>2. \A k \in 1..n : g[k - 1] \in W[k - 1] => g[k] \in W[k]
      BY <1>3, <1>12
    <2>3. \A k \in 0..n : g[k] \in W[k]
      BY <2>1, <2>2, LoopStays
    <2> QED BY <2>3
  <1>14. SiftDown(h, i) = g[n].heap
    BY <1>1, <1>10 DEF SiftDown, SinkingStep
  <1> QED BY <1>5, <1>13, <1>14

\* Taking the root out.
LEMMA HeapRestIs ==
  ASSUME NEW S, \A e \in S : e.rank \in Int, NEW h \in Seq(S), IsInjective(h), Heaped(h), h # <<>>,
         NEW g, g = HeapRest(h)
  PROVE  g \in Seq(S) /\ IsInjective(g) /\ Heaped(g) /\ ToSet(g) = ToSet(h) \ {Head(h)}
  <1>1. PICK n : n = Len(h)
    OBVIOUS
  <1>2. /\ n \in Nat \ {0} /\ DOMAIN h = 1..n /\ (\A i \in 1..n : h[i] \in S) /\ ToSet(h) = {h[i] : i \in 1..n}
        /\ Head(h) = h[1]
    BY <1>1, SeqIs
  <1>3. \A i, j \in 1..n : h[i] = h[j] => i = j
    BY <1>2 DEF IsInjective
  <1>4. CASE n = 1
    <2>1. g = <<>>
      BY <1>1, <1>4 DEF HeapRest
    <2>2. ToSet(h) = {h[1]}
      BY <1>2, <1>4
    <2>3. <<>> \in Seq(S) /\ IsInjective(<<>>) /\ Heaped(<<>>) /\ ToSet(<<>>) = {}
      BY DEF IsInjective, Heaped, ToSet
    <2> QED BY <2>1, <2>2, <2>3, <1>2
  <1>5. CASE n # 1
    <2>1. PICK m : m = n - 1
      OBVIOUS
    <2>2. m \in Nat \ {0} /\ n = m + 1 /\ n \in 1..n
      BY <2>1, <1>2, <1>5
    <2>3. PICK f : f = Front(ReplaceAt(h, 1, Last(h)))
      OBVIOUS
    <2>4. f = [i \in 1..m |-> IF i = 1 THEN h[n] ELSE h[i]]
      <3>1. PICK r : r = ReplaceAt(h, 1, Last(h))
        OBVIOUS
      <3>2. r = [i \in 1..n |-> IF i = 1 THEN h[n] ELSE h[i]]
        BY <3>1, <1>1, <1>2 DEF ReplaceAt, Last
      <3>3. r \in Seq(S) /\ Len(r) = n
        BY <3>2, <1>2, <2>2
      <3>4. \A i \in 1..m : i \in 1..n
        BY <2>2
      <3>5. f = SubSeq(r, 1, m)
        BY <2>3, <3>1, <3>3, <2>1 DEF Front
      <3>6. SubSeq(r, 1, m) = [i \in 1..m |-> r[i]]
        BY <3>3, <2>2
      <3> QED BY <3>2, <3>4, <3>5, <3>6
    <2>5. f \in Seq(S) /\ Len(f) = m
      BY <2>4, <2>2, <1>2
    <2>6. /\ DOMAIN f = 1..m /\ ToSet(f) = {f[i] : i \in 1..m}
          /\ f[1] = h[n] /\ \A i \in 2..m : f[i] = h[i]
      <3>1. DOMAIN f = 1..m /\ ToSet(f) = {f[i] : i \in 1..m}
        BY <2>5, SeqIs
      <3>2. 1 \in 1..m /\ \A i \in 2..m : i \in 1..m /\ i # 1
        BY <2>2
      <3> QED BY <2>4, <3>1, <3>2
    <2>7. IsInjective(f)
      <3>1. \A i, j \in 1..m : f[i] = f[j] => i = j
        BY <2>2, <2>4, <1>3
      <3> QED BY <3>1, <2>6 DEF IsInjective
    <2>8. ToSet(f) = ToSet(h) \ {Head(h)}
      <3>1. ASSUME NEW i \in 1..m
            PROVE  f[i] \in ToSet(h) /\ f[i] # h[1]
        BY <2>2, <2>4, <1>2, <1>3
      <3>2. ASSUME NEW i \in 1..n, h[i] # h[1]
            PROVE  h[i] \in ToSet(f)
        <4>1. CASE i = n
          BY <4>1, <2>6, <2>2
        <4>2. CASE i # n
          <5>1. i \in 2..m /\ i \in 1..m
            BY <4>2, <3>2, <2>2
          <5> QED BY <5>1, <2>6
        <4> QED BY <4>1, <4>2
      <3>3. PICK F, H, x : F = ToSet(f) /\ H = ToSet(h) /\ x = h[1]
        OBVIOUS
      <3>4. \A y \in F : y \in H /\ y # x
        BY <3>1, <3>3, <2>6
      <3>5. \A y \in H : y # x => y \in F
        BY <3>2, <3>3, <1>2
      <3>6. F = H \ {x}
        BY <3>4, <3>5
      <3> QED BY <3>3, <3>6, <1>2
    <2>9. Sinking(f, 1)
      <3>1. \A i \in 2..m : i \in Nat /\ i \in 2..n /\ i \div 2 \in 1..m
        <4> SUFFICES ASSUME NEW i \in 2..m PROVE i \in Nat /\ i \in 2..n /\ i \div 2 \in 1..m
          OBVIOUS
        <4>1. i \in Nat /\ i >= 2
          BY <2>2
        <4> QED BY <4>1, <2>2, HalfIs
      <3>2. \A i \in 2..m : i \div 2 # 1 => f[i \div 2].rank <= f[i].rank
        <4> SUFFICES ASSUME NEW i \in 2..m, i \div 2 # 1 PROVE f[i \div 2].rank <= f[i].rank
          OBVIOUS
        <4>1. i \div 2 \in 2..m /\ i \in 2..n
          BY <3>1, <2>2
        <4>2. h[i \div 2].rank <= h[i].rank
          BY <4>1, <1>1 DEF Heaped
        <4> QED BY <4>1, <4>2, <2>6
      <3> QED BY <3>2, <2>5 DEF Sinking
    <2>10. g = SiftDown(f, 1)
      BY <1>1, <1>5, <2>3 DEF HeapRest
    <2>11. 1 \in 1..Len(f)
      BY <2>5, <2>2
    <2>12. Shuffled(S, f, g) /\ Heaped(g)
      BY <2>5, <2>7, <2>9, <2>10, <2>11, SiftDownIs
    <2> QED BY <2>8, <2>12 DEF Shuffled
  <1> QED BY <1>4, <1>5

-----------------------------------------------------------------------------
(* Distances *)

Gap(x, lo, hi) == IF x < lo THEN lo - x ELSE IF x > hi THEN x - hi ELSE 0

\* A box that is not inside out.
Proper(b) == b \in BoxSet /\ \A a \in Axes : b[a][1] <= b[a][2]

LEMMA DistanceIs ==
  ASSUME NEW p \in [Axes -> Int], NEW q \in [Axes -> Int]
  PROVE  Distance(p, q) = Gap(p[1], q[1], q[1]) + Gap(p[2], q[2], q[2]) /\ Distance(p, q) \in Nat
  <1>1. p[1] \in Int /\ p[2] \in Int /\ q[1] \in Int /\ q[2] \in Int
    BY DEF Axes
  <1> QED BY <1>1 DEF Distance, Away, Gap

LEMMA MinDistIs ==
  ASSUME NEW p \in [Axes -> Int], NEW b \in BoxSet
  PROVE  /\ b[1][1] \in Int /\ b[1][2] \in Int /\ b[2][1] \in Int /\ b[2][2] \in Int
         /\ p[1] \in Int /\ p[2] \in Int
         /\ MinDist(p, b) = Gap(p[1], b[1][1], b[1][2]) + Gap(p[2], b[2][1], b[2][2])
  <1>1. b[1][1] \in Int /\ b[1][2] \in Int /\ b[2][1] \in Int /\ b[2][2] \in Int
    BY DEF Axes, BoxSet
  <1>2. p[1] \in Int /\ p[2] \in Int
    BY DEF Axes
  <1>3. PICK q : q = [a \in Axes |-> IF p[a] < b[a][1] THEN b[a][1]
                                     ELSE IF p[a] > b[a][2] THEN b[a][2] ELSE p[a]]
    OBVIOUS
  <1>4. /\ q[1] = IF p[1] < b[1][1] THEN b[1][1] ELSE IF p[1] > b[1][2] THEN b[1][2] ELSE p[1]
        /\ q[2] = IF p[2] < b[2][1] THEN b[2][1] ELSE IF p[2] > b[2][2] THEN b[2][2] ELSE p[2]
    BY <1>3 DEF Axes
  <1>5. MinDist(p, b) = Away(p[1], q[1]) + Away(p[2], q[2])
    BY <1>3 DEF MinDist, Distance
  <1>6. Away(p[1], q[1]) = Gap(p[1], b[1][1], b[1][2])
    BY <1>1, <1>2, <1>4 DEF Away, Gap
  <1>7. Away(p[2], q[2]) = Gap(p[2], b[2][1], b[2][2])
    BY <1>1, <1>2, <1>4 DEF Away, Gap
  <1> QED BY <1>1, <1>2, <1>5, <1>6, <1>7

LEMMA GapWithin ==
  ASSUME NEW x \in Int, NEW l \in Int, NEW h \in Int, NEW m \in Int, NEW k \in Int, l <= m, m <= k, k <= h
  PROVE  0 <= Gap(x, l, h) /\ Gap(x, l, h) <= Gap(x, m, k) /\ Gap(x, l, h) \in Int /\ Gap(x, m, k) \in Int
  BY DEF Gap

\* A larger box is no farther away.
LEMMA MinDistWithin ==
  ASSUME NEW p \in [Axes -> Int], NEW b, NEW c \in BoxSet, Proper(b), Within(b, c)
  PROVE  MinDist(p, c) \in Nat /\ MinDist(p, b) \in Nat /\ MinDist(p, c) <= MinDist(p, b)
  <1>1. /\ c[1][1] <= b[1][1] /\ b[1][2] <= c[1][2] /\ b[1][1] <= b[1][2]
        /\ c[2][1] <= b[2][1] /\ b[2][2] <= c[2][2] /\ b[2][1] <= b[2][2] /\ b \in BoxSet
    BY DEF Proper, Within, Axes
  <1>2. /\ b[1][1] \in Int /\ b[1][2] \in Int /\ b[2][1] \in Int /\ b[2][2] \in Int /\ p[1] \in Int /\ p[2] \in Int
        /\ MinDist(p, b) = Gap(p[1], b[1][1], b[1][2]) + Gap(p[2], b[2][1], b[2][2])
    BY <1>1, MinDistIs
  <1>3. /\ c[1][1] \in Int /\ c[1][2] \in Int /\ c[2][1] \in Int /\ c[2][2] \in Int
        /\ MinDist(p, c) = Gap(p[1], c[1][1], c[1][2]) + Gap(p[2], c[2][1], c[2][2])
    BY MinDistIs
  <1>4. /\ 0 <= Gap(p[1], c[1][1], c[1][2]) /\ Gap(p[1], c[1][1], c[1][2]) <= Gap(p[1], b[1][1], b[1][2])
        /\ Gap(p[1], c[1][1], c[1][2]) \in Int /\ Gap(p[1], b[1][1], b[1][2]) \in Int
    BY <1>1, <1>2, <1>3, GapWithin
  <1>5. /\ 0 <= Gap(p[2], c[2][1], c[2][2]) /\ Gap(p[2], c[2][1], c[2][2]) <= Gap(p[2], b[2][1], b[2][2])
        /\ Gap(p[2], c[2][1], c[2][2]) \in Int /\ Gap(p[2], b[2][1], b[2][2]) \in Int
    BY <1>1, <1>2, <1>3, GapWithin
  <1> QED BY <1>2, <1>3, <1>4, <1>5

\* The place of an object is no nearer than its box.
LEMMA PlaceInBox ==
  ASSUME NEW m \in Maps, NEW o \in DOMAIN m, NEW p \in [Axes -> Int]
  PROVE  /\ Proper(m[o].box) /\ MinDist(p, m[o].box) <= Distance(p, m[o].at)
         /\ MinDist(p, m[o].box) \in Nat /\ Distance(p, m[o].at) \in Nat
  <1>1. PICK b, q : b = m[o].box /\ q = m[o].at
    OBVIOUS
  <1>2. /\ b \in BoxSet /\ q \in [Axes -> Int]
        /\ \A a \in Axes : b[a][1] < b[a][2] /\ b[a][1] <= q[a] /\ q[a] <= b[a][2]
    BY <1>1, RtreeAssumption
  <1>3. Proper(b)
    <2>1. \A a \in Axes : b[a][1] \in Int /\ b[a][2] \in Int
      BY <1>2 DEF BoxSet
    <2> QED BY <2>1, <1>2 DEF Proper
  <1>4. PICK c : c = [a \in Axes |-> <<q[a], q[a]>>]
    OBVIOUS
  <1>5. /\ c \in BoxSet /\ \A a \in Axes : c[a][1] = q[a] /\ c[a][2] = q[a] /\ q[a] \in Int
    BY <1>2, <1>4 DEF BoxSet
  <1>6. Proper(c) /\ Within(c, b)
    BY <1>2, <1>5 DEF Proper, Within
  <1>7. MinDist(p, b) \in Nat /\ MinDist(p, b) <= MinDist(p, c)
    BY <1>2, <1>6, MinDistWithin
  <1>8. MinDist(p, c) = Gap(p[1], c[1][1], c[1][2]) + Gap(p[2], c[2][1], c[2][2])
    BY <1>5, MinDistIs
  <1>9. c[1][1] = q[1] /\ c[1][2] = q[1] /\ c[2][1] = q[2] /\ c[2][2] = q[2]
    BY <1>5 DEF Axes
  <1>10. Distance(p, q) = MinDist(p, c) /\ Distance(p, q) \in Nat
    BY <1>2, <1>8, <1>9, DistanceIs
  <1> QED BY <1>1, <1>3, <1>7, <1>10

(* The tree that is asked *)

\* Tree t is at rest, has no entry twice and dropped none, and its data nodes are objects of the map.
Asked(t, A, lv, c) ==
  /\ Settled(t, A, lv, c) /\ ~ t.twin /\ ~ t.tied /\ map \in Maps
  /\ \A o \in A : IsData(o) => o \in DOMAIN map /\ Bound(t, o) = map[o].box

LEMMA AskedIs ==
  ASSUME NEW t, NEW A, NEW lv, NEW c, Asked(t, A, lv, c)
  PROVE  /\ t \in Trees /\ Linked(t) /\ Shape(t, A, lv, {t.root}, c) /\ Snug(t, A, {}) /\ Owned(t, A) /\ A \subseteq Names(t)
         /\ t.root \in A /\ ~ IsData(t.root) /\ Kinds(t, A, lv, c) /\ Downward(t, A, lv, {t.root})
         /\ Levels(t, A, lv, {t.root}) /\ Full(t, A, {t.root}) /\ Names(t) \subseteq Int /\ lv[t.root] = 1
  BY TreeIs DEF Asked, Settled, Whole, Shape, Levels

LEMMA BoxesProper ==
  ASSUME NEW t, NEW A, NEW lv, NEW c, Asked(t, A, lv, c), NEW x \in A \ {t.root}
  PROVE  Proper(Bound(t, x))
  <1> DEFINE B == {y \in A \ {t.root} : ~ Proper(Bound(t, y))}
             D == {t.height + 1 - lv[y] : y \in B}
  <1>1. /\ t \in Trees /\ Linked(t) /\ Shape(t, A, lv, {t.root}, c) /\ Snug(t, A, {}) /\ A \subseteq Names(t)
        /\ t.root \in A /\ ~ IsData(t.root) /\ Kinds(t, A, lv, c) /\ Downward(t, A, lv, {t.root})
        /\ Levels(t, A, lv, {t.root}) /\ Full(t, A, {t.root}) /\ ~ t.twin /\ ~ t.tied
    BY AskedIs DEF Asked
  <1>2. SUFFICES ASSUME B # {} PROVE FALSE
    OBVIOUS
  <1>3. PICK l \in Nat : l = t.height
    BY <1>1, TreeIs
  <1>4. \A y \in A : lv[y] \in Nat /\ lv[y] >= 1
    BY <1>1 DEF Levels
  <1>5. \A y \in B : ~ IsData(y) /\ y \in A /\ y # t.root
    <2> SUFFICES ASSUME NEW y \in B, IsData(y) PROVE FALSE
      OBVIOUS
    <2>1. map \in Maps /\ y \in DOMAIN map /\ Bound(t, y) = map[y].box
      BY DEF Asked
    <2>2. [a \in Axes |-> 0] \in [Axes -> Int]
      <3>1. 0 \in Int
        OBVIOUS
      <3> QED BY <3>1, Zenon
    <2>3. Proper(map[y].box)
      BY <2>1, <2>2, PlaceInBox
    <2> QED BY <2>1, <2>3
  <1>6. \A y \in B : lv[y] \in Nat /\ lv[y] <= l
    BY <1>1, <1>3, <1>4, <1>5 DEF Levels
  <1>7. PICK y \in B : \A z \in B : lv[z] <= lv[y]
    <2>1. D \in SUBSET Nat /\ D # {}
      BY <1>2, <1>3, <1>6
    <2> HIDE DEF D, B
    <2>2. PICK d \in D : \A e \in D : d <= e
      BY <2>1, LeastNat
    <2>3. PICK y \in B : d = l + 1 - lv[y]
      BY <1>3 DEF D
    <2>4. \A z \in B : l + 1 - lv[z] \in D
      BY <1>3 DEF D
    <2> QED BY <2>2, <2>3, <2>4, <1>6
  <1>8. Len(Items(t, y)) >= MinChildItems
    BY <1>1, <1>5 DEF Full
  <1>9. Items(t, y) \in Seq(Int) /\ Bound(t, y) \in BoxSet
    BY <1>1, <1>5, NodeIs
  <1>10. PICK z \in ToSet(Items(t, y)) : TRUE
    <2>1. Len(Items(t, y)) # 0
      <3>1. MinChildItems \in Nat \ {0, 1} /\ Len(Items(t, y)) \in Nat
        BY <1>9, RtreeAssumption
      <3> QED BY <3>1, <1>8
    <2>2. ToSet(Items(t, y)) # {}
      BY <2>1, <1>9, SeqIs
    <2> QED BY <2>2
  <1>11. z \in A /\ z # t.root /\ lv[z] = lv[y] + 1
    BY <1>1, <1>5 DEF Downward
  <1>12. Proper(Bound(t, z))
    <2>1. ~ (lv[z] <= lv[y])
      BY <1>11, <1>6
    <2>2. z \notin B
      <3> HIDE DEF B
      <3> QED BY <2>1, <1>7
    <2> QED BY <2>2, <1>11
  <1>13. Within(Bound(t, z), Bound(t, y))
    <2>1. z \in Desc(t, y)
      <3>1. y \in Names(t)
        BY <1>1, <1>5
      <3>2. y \in Desc(t, y) /\ Closed(t, Desc(t, y))
        BY <3>1, <1>1, DescIs
      <3> QED BY <3>2 DEF Closed
    <2> QED BY <2>1, <1>1, <1>5, DescWithin
  <1>14. Proper(Bound(t, y))
    <2>1. PICK b, d : b = Bound(t, z) /\ d = Bound(t, y)
      OBVIOUS
    <2>2. \A a \in Axes : /\ b[a][1] <= b[a][2] /\ d[a][1] <= b[a][1] /\ b[a][2] <= d[a][2]
                          /\ b[a][1] \in Int /\ b[a][2] \in Int /\ d[a][1] \in Int /\ d[a][2] \in Int
      BY <2>1, <1>9, <1>12, <1>13 DEF Proper, Within, BoxSet
    <2>3. \A a \in Axes : d[a][1] <= d[a][2]
      BY <2>2
    <2> QED BY <2>1, <2>3, <1>9 DEF Proper
  <1> QED BY <1>7, <1>14

-----------------------------------------------------------------------------
(* The stream of neighbours *)

QueueNodes == [rank : Int, item : Int, object : BOOLEAN, rect : BOOLEAN]

LEMMA QueueNodeIs ==
  ASSUME NEW r \in Int, NEW x \in Int, NEW o \in BOOLEAN, NEW b \in BOOLEAN
  PROVE  /\ QueueNode(r, x, o, b) \in QueueNodes
         /\ QueueNode(r, x, o, b).rank = r /\ QueueNode(r, x, o, b).item = x
         /\ QueueNode(r, x, o, b).object = o /\ QueueNode(r, x, o, b).rect = b
  BY DEF QueueNode, QueueNodes

\* g is a heap of the elements X.
HeapOf(X, g) == g \in Seq(QueueNodes) /\ IsInjective(g) /\ Heaped(g) /\ ToSet(g) = X

LEMMA HeapInserted ==
  ASSUME NEW X, NEW h, HeapOf(X, h), NEW e \in QueueNodes, e \notin X
  PROVE  HeapOf(X \cup {e}, HeapInsert(h, e))
  <1>1. \A d \in QueueNodes : d.rank \in Int
    BY DEF QueueNodes
  <1>2. PICK g : g = HeapInsert(h, e)
    OBVIOUS
  <1>3. g \in Seq(QueueNodes) /\ IsInjective(g) /\ Heaped(g) /\ ToSet(g) = ToSet(h) \cup {e}
    BY <1>1, <1>2, HeapInsertIs DEF HeapOf
  <1> QED BY <1>2, <1>3 DEF HeapOf

LEMMA HeapPopped ==
  ASSUME NEW X, NEW h, HeapOf(X, h), h # <<>>
  PROVE  /\ HeapOf(X \ {Head(h)}, HeapRest(h)) /\ Head(h) \in X
         /\ X \subseteq QueueNodes /\ \A e \in X : Head(h).rank <= e.rank
  <1>1. \A d \in QueueNodes : d.rank \in Int
    BY DEF QueueNodes
  <1>2. h \in Seq(QueueNodes) /\ Heaped(h) /\ ToSet(h) = X /\ IsInjective(h)
    BY DEF HeapOf
  <1>3. \A e \in X : Head(h) \in X /\ Head(h).rank <= e.rank
    BY <1>1, <1>2, RootIsLeast
  <1>4. X # {} /\ X \subseteq QueueNodes
    BY <1>2, SeqIs
  <1>5. PICK g : g = HeapRest(h)
    OBVIOUS
  <1>6. g \in Seq(QueueNodes) /\ IsInjective(g) /\ Heaped(g) /\ ToSet(g) = ToSet(h) \ {Head(h)}
    BY <1>1, <1>2, <1>5, HeapRestIs
  <1> QED BY <1>2, <1>3, <1>4, <1>5, <1>6 DEF HeapOf

LEMMA HeapEmpty ==
  ASSUME NEW X, NEW h, HeapOf(X, h)
  PROVE  h = <<>> <=> X = {}
  BY SeqIs DEF HeapOf

\* The elements E put in one after the other.
PushStep(h, E, f) == [k \in 0..Len(E) |-> IF k = 0 THEN h ELSE HeapInsert(f[k - 1], E[k])]

Pushes(h, E) == CHOOSE f : f = PushStep(h, E, f)

LEMMA PushedIs ==
  ASSUME NEW X, NEW h, HeapOf(X, h), NEW E \in Seq(QueueNodes), IsInjective(E), ToSet(E) \cap X = {}
  PROVE  HeapOf(X \cup ToSet(E), Pushes(h, E)[Len(E)])
  <1> DEFINE Upto(k) == X \cup {E[i] : i \in 1..k}
             Good(k) == {g \in Seq(QueueNodes) : HeapOf(Upto(k), g)}
             W == [k \in 0..Len(E) |-> Good(k)]
             T(k, g) == HeapInsert(g, E[k])
             G == [kg \in (1..Len(E)) \X Seq(QueueNodes) |-> T(kg[1], kg[2])]
  <1>1. PICK n \in Nat : n = Len(E)
    BY SeqIs
  <1>2. /\ DOMAIN E = 1..n /\ (\A i \in 1..n : E[i] \in QueueNodes /\ E[i] \notin X)
        /\ ToSet(E) = {E[i] : i \in 1..n} /\ \A i, j \in 1..n : E[i] = E[j] => i = j
    <2>1. DOMAIN E = 1..n /\ (\A i \in 1..n : E[i] \in QueueNodes) /\ ToSet(E) = {E[i] : i \in 1..n}
      BY <1>1, SeqIs
    <2>2. \A i \in 1..n : E[i] \notin X
      BY <2>1
    <2>3. \A i, j \in 1..n : E[i] = E[j] => i = j
      BY <2>1 DEF IsInjective
    <2> QED BY <2>1, <2>2, <2>3
  <1>3. h \in W[0]
    <2>1. Upto(0) = X
      OBVIOUS
    <2>2. 0 \in 0..Len(E) /\ h \in Seq(QueueNodes)
      BY <1>1 DEF HeapOf
    <2> HIDE DEF Upto
    <2> QED BY <2>1, <2>2
  <1>4. ASSUME NEW k \in 1..n, NEW g \in W[k - 1]
        PROVE  g \in Seq(QueueNodes) /\ T(k, g) \in W[k]
    <2>1. k - 1 \in 0..Len(E) /\ k \in 0..Len(E)
      BY <1>1
    <2>2. g \in Seq(QueueNodes) /\ HeapOf(Upto(k - 1), g)
      BY <2>1
    <2>3. E[k] \in QueueNodes /\ E[k] \notin Upto(k - 1)
      BY <1>2
    <2>4. Upto(k - 1) \cup {E[k]} = Upto(k)
      <3>1. \A i \in 1..k : i = k \/ i \in 1..(k - 1)
        OBVIOUS
      <3>2. \A i \in 1..(k - 1) : i \in 1..k
        OBVIOUS
      <3>3. k \in 1..k
        OBVIOUS
      <3> QED BY <3>1, <3>2, <3>3
    <2> HIDE DEF Upto
    <2>5. HeapOf(Upto(k - 1) \cup {E[k]}, HeapInsert(g, E[k]))
      BY <2>2, <2>3, HeapInserted
    <2>6. HeapOf(Upto(k), T(k, g)) /\ T(k, g) \in Seq(QueueNodes)
      BY <2>4, <2>5 DEF HeapOf
    <2> HIDE DEF T
    <2> QED BY <2>1, <2>2, <2>6
  <1>5. \A k \in 1..n : \A g \in W[k - 1] : G[<<k, g>>] = T(k, g)
    <2> SUFFICES ASSUME NEW k \in 1..n, NEW g \in W[k - 1]
                 PROVE  G[<<k, g>>] = T(k, g)
      OBVIOUS
    <2>1. g \in Seq(QueueNodes) /\ k \in 1..Len(E)
      BY <1>1, <1>4
    <2> HIDE DEF W, T
    <2> QED BY <2>1
  <1>6. ASSUME NEW g \in W[n]
        PROVE  HeapOf(X \cup ToSet(E), g)
    <2>1. n \in 0..Len(E) /\ Upto(n) = X \cup ToSet(E)
      BY <1>1, <1>2
    <2> HIDE DEF Upto
    <2>2. HeapOf(Upto(n), g)
      BY <2>1
    <2> QED BY <2>1, <2>2
  <1> HIDE DEF W, G, T, Good, Upto
  <1>7. Turns0(n, W, h, G)
    BY <1>3, <1>4, <1>5 DEF Turns0
  <1>8. PICK f : Turned0(f, n, W, h, G)
    BY <1>7, LoopExists
  <1>9. \A k \in 1..n : f[k] = T(k, f[k - 1])
    <2>1. \A k \in 1..n : k \in 0..n /\ k - 1 \in 0..n
      OBVIOUS
    <2> QED BY <2>1, <1>5, <1>8 DEF Turned0
  <1>10. \A x : PushStep(h, E, x) = [k \in 0..n |-> IF k = 0 THEN h ELSE T(k, x[k - 1])]
    BY <1>1 DEF PushStep, T
  <1>11. f = PushStep(h, E, f)
    <2>1. \A k \in 0..n : f[k] = IF k = 0 THEN h ELSE T(k, f[k - 1])
      <3>1. \A k \in 0..n : k = 0 \/ k \in 1..n
        OBVIOUS
      <3> QED BY <3>1, <1>8, <1>9 DEF Turned0
    <2>2. f = [k \in 0..n |-> f[k]]
      BY <1>8 DEF Turned0
    <2>3. f = [k \in 0..n |-> IF k = 0 THEN h ELSE T(k, f[k - 1])]
      BY <2>1, <2>2
    <2> QED BY <2>3, <1>10
  <1>12. PICK g : g = Pushes(h, E)
    OBVIOUS
  <1>13. g = PushStep(h, E, g)
    BY <1>11, <1>12 DEF Pushes
  <1>14. g[0] = h /\ \A k \in 1..n : g[k] = T(k, g[k - 1])
    <2>1. 0 \in 0..n /\ \A k \in 1..n : k \in 0..n /\ k # 0
      OBVIOUS
    <2> QED BY <2>1, <1>10, <1>13
  <1>15. g[n] \in W[n]
    <2>1. g[0] \in W[0]
      BY <1>3, <1>14
    <2>2. \A k \in 1..n : g[k - 1] \in W[k - 1] => g[k] \in W[k]
      BY <1>4, <1>14
    <2>3. \A k \in 0..n : g[k] \in W[k]
      BY <2>1, <2>2, LoopStays
    <2> QED BY <2>3
  <1>16. HeapOf(X \cup ToSet(E), g[Len(E)])
    BY <1>1, <1>6, <1>15
  <1> QED BY <1>12, <1>16

-----------------------------------------------------------------------------
\* What element e of the heap stands for: a node and an object waiting in its box
\* for all nodes below, an object at its own distance for itself.  A node and an
\* object may come out of the heap as the first, an object once more as the second.
Tokens(t, e) ==
  IF e.object /\ ~ e.rect THEN {<<e.item, 2>>} ELSE Desc(t, e.item) \X {1, 2}

Left(t, E) == UNION {Tokens(t, e) : e \in E}

\* No object below e is nearer than the rank of e.
Queueable(t, A, p, e) ==
  /\ e \in QueueNodes /\ e.item \in A /\ (e.object <=> IsData(e.item))
  /\ e.object => e.rank <= DistanceTo(p, e.item) /\ (~ e.rect => e.rank = DistanceTo(p, e.item))
  /\ ~ e.object => \A x \in ToSet(Items(t, e.item)) : e.rank <= MinDist(p, Bound(t, x))

\* What is in the heap and what has been handed out are different parts of the tree,
\* and the nearer one has been handed out.
Streams(t, A, p, E, out) ==
  /\ \A e \in E : Queueable(t, A, p, e)
  /\ \A e, f \in E : e # f => Tokens(t, e) \cap Tokens(t, f) = {}
  /\ out \in Seq(Int) /\ IsInjective(out)
  /\ ToSet(out) = {o \in A : IsData(o) /\ <<o, 2>> \notin Left(t, E)}
  /\ \A i, j \in 1..Len(out) : i < j => DistanceTo(p, out[i]) <= DistanceTo(p, out[j])
  /\ \A o \in ToSet(out), e \in E : DistanceTo(p, o) <= e.rank

\* Less is left.
Fewer(t, E, F) == Left(t, F) \subseteq Left(t, E) /\ Left(t, F) # Left(t, E)

EntryOf(t, p, n, x) == QueueNode(MinDist(p, Bound(t, x)), x, Leaf(t, n), Leaf(t, n))

ChildEntries(t, p, n) == {EntryOf(t, p, n, x) : x \in ToSet(Items(t, n))}

\* Object e, at its own distance.
Itself(p, e) == QueueNode(DistanceTo(p, e.item), e.item, TRUE, FALSE)

LEMMA DataDesc ==
  ASSUME NEW t, NEW A, NEW lv, NEW c, Asked(t, A, lv, c), NEW o \in A, IsData(o)
  PROVE  Desc(t, o) = {o}
  <1>1. t \in Trees /\ Linked(t) /\ o \in Names(t) /\ Items(t, o) = <<>>
    BY AskedIs DEF Kinds
  <1>2. ToSet(Items(t, o)) = {}
    BY <1>1 DEF ToSet
  <1> QED BY <1>1, <1>2, DescUnion

LEMMA TokensAre ==
  ASSUME NEW t, NEW A, NEW lv, NEW c, Asked(t, A, lv, c), NEW e, e.item \in A
  PROVE  Tokens(t, e) \subseteq A \X {1, 2} /\ <<e.item, 2>> \in Tokens(t, e)
  <1>1. PICK n : n = e.item
    OBVIOUS
  <1>2. t \in Trees /\ Linked(t) /\ n \in Names(t) /\ n \in A /\ Shape(t, A, lv, {t.root}, c)
    BY <1>1, AskedIs
  <1>3. Desc(t, n) \subseteq A /\ n \in Desc(t, n)
    BY <1>2, DescIs, DescLevels
  <1> QED BY <1>1, <1>2, <1>3 DEF Tokens

LEMMA DistanceToIs ==
  ASSUME NEW t, NEW A, NEW lv, NEW c, Asked(t, A, lv, c), NEW p \in [Axes -> Int], NEW o \in A, IsData(o)
  PROVE  /\ DistanceTo(p, o) \in Nat /\ MinDist(p, Bound(t, o)) \in Nat
         /\ MinDist(p, Bound(t, o)) <= DistanceTo(p, o)
  BY PlaceInBox DEF Asked, DistanceTo

\* An entry and the node it is an entry of.
LEMMA EntryIs ==
  ASSUME NEW t, NEW A, NEW lv, NEW c, Asked(t, A, lv, c), NEW p \in [Axes -> Int], NEW n \in A,
         NEW x \in ToSet(Items(t, n))
  PROVE  /\ x \in A /\ x # t.root /\ lv[x] = lv[n] + 1 /\ (IsData(x) <=> Leaf(t, n)) /\ x \in Int
         /\ Desc(t, x) \subseteq Desc(t, n) /\ n \notin Desc(t, x)
         /\ MinDist(p, Bound(t, x)) \in Nat
         /\ MinDist(p, Bound(t, n)) <= MinDist(p, Bound(t, x))
  <1>1. /\ t \in Trees /\ Linked(t) /\ Shape(t, A, lv, {t.root}, c) /\ Snug(t, A, {}) /\ A \subseteq Names(t)
        /\ Downward(t, A, lv, {t.root}) /\ Levels(t, A, lv, {t.root}) /\ Names(t) \subseteq Int /\ ~ t.twin
    BY AskedIs DEF Asked
  <1>2. x \in A /\ x # t.root /\ lv[x] = lv[n] + 1 /\ (IsData(x) <=> Leaf(t, n)) /\ x \in Int
    BY <1>1 DEF Downward
  <1>3. x \in Desc(t, n)
    <2>1. n \in Desc(t, n) /\ Closed(t, Desc(t, n))
      BY <1>1, DescIs
    <2> QED BY <2>1 DEF Closed
  <1>4. Desc(t, x) \subseteq Desc(t, n)
    BY <1>1, <1>3, DescClosed
  <1>5. n \notin Desc(t, x)
    <2>1. \A y \in Desc(t, x) : lv[y] >= lv[x]
      BY <1>1, <1>2, DescLevels
    <2>2. lv[n] \in Nat
      BY <1>1 DEF Levels
    <2> QED BY <2>1, <2>2, <1>2
  <1>6. Within(Bound(t, x), Bound(t, n))
    BY <1>1, <1>3, DescWithin
  <1>7. Proper(Bound(t, x)) /\ Bound(t, n) \in BoxSet
    BY <1>1, <1>2, BoxesProper, NodeIs
  <1>8. MinDist(p, Bound(t, x)) \in Nat /\ MinDist(p, Bound(t, n)) <= MinDist(p, Bound(t, x))
    BY <1>6, <1>7, MinDistWithin
  <1> QED BY <1>2, <1>4, <1>5, <1>8

LEMMA EntryOfIs ==
  ASSUME NEW t, NEW A, NEW lv, NEW c, Asked(t, A, lv, c), NEW p \in [Axes -> Int], NEW n \in A, ~ IsData(n),
         NEW x \in ToSet(Items(t, n)), NEW g, g = EntryOf(t, p, n, x)
  PROVE  /\ Queueable(t, A, p, g) /\ Tokens(t, g) = Desc(t, x) \X {1, 2}
         /\ g.item = x /\ g.rank = MinDist(p, Bound(t, x)) /\ g \in QueueNodes
  <1>1. /\ x \in A /\ (IsData(x) <=> Leaf(t, n)) /\ x \in Int /\ MinDist(p, Bound(t, x)) \in Nat
    BY EntryIs
  <1>2. Leaf(t, n) \in BOOLEAN
    BY AskedIs, NodeIs DEF Leaf
  <1>3. PICK r : r = MinDist(p, Bound(t, x))
    OBVIOUS
  <1>4. g \in QueueNodes /\ g.rank = r /\ g.item = x /\ g.object = Leaf(t, n) /\ g.rect = Leaf(t, n)
    <2>1. r \in Int
      BY <1>1, <1>3
    <2>2. g = QueueNode(r, x, Leaf(t, n), Leaf(t, n))
      BY <1>3 DEF EntryOf
    <2> QED BY <2>1, <2>2, <1>1, <1>2, QueueNodeIs
  <1>5. Tokens(t, g) = Desc(t, x) \X {1, 2}
    BY <1>4 DEF Tokens
  <1>6. IsData(x) => r <= DistanceTo(p, x)
    BY <1>1, <1>3, DistanceToIs
  <1>7. \A y \in ToSet(Items(t, x)) : r <= MinDist(p, Bound(t, y))
    BY <1>1, <1>3, EntryIs
  <1>8. Queueable(t, A, p, g)
    BY <1>1, <1>4, <1>6, <1>7 DEF Queueable
  <1> QED BY <1>3, <1>4, <1>5, <1>8

-----------------------------------------------------------------------------
\* The root alone, before anything has been handed out.
LEMMA StreamStarts ==
  ASSUME NEW t, NEW A, NEW lv, NEW c, Asked(t, A, lv, c), NEW p \in [Axes -> Int], NEW e, e = QueueNode(0, t.root, FALSE, FALSE),
         Desc(t, t.root) = A
  PROVE  Streams(t, A, p, {e}, <<>>) /\ e \in QueueNodes /\ Left(t, {e}) = A \X {1, 2}
  <1>1. /\ t \in Trees /\ t.root \in A /\ ~ IsData(t.root) /\ A \subseteq Names(t) /\ Names(t) \subseteq Int
    BY AskedIs
  <1>2. e \in QueueNodes /\ e.rank = 0 /\ e.item = t.root /\ e.object = FALSE /\ e.rect = FALSE
    <2>1. t.root \in Int
      BY <1>1
    <2> QED BY <2>1 DEF QueueNode, QueueNodes
  <1>3. \A x \in ToSet(Items(t, t.root)) : MinDist(p, Bound(t, x)) \in Nat
    BY <1>1, EntryIs
  <1>4. Queueable(t, A, p, e)
    <2>1. \A x \in ToSet(Items(t, e.item)) : e.rank <= MinDist(p, Bound(t, x))
      <3>1. \A m \in Nat : 0 <= m
        OBVIOUS
      <3> QED BY <3>1, <1>2, <1>3, Zenon
    <2> QED BY <2>1, <1>1, <1>2 DEF Queueable
  <1>5. Tokens(t, e) = A \X {1, 2}
    BY <1>2 DEF Tokens
  <1>6. Left(t, {e}) = A \X {1, 2}
    BY <1>5 DEF Left
  <1>7. <<>> \in Seq(Int) /\ IsInjective(<<>>) /\ ToSet(<<>>) = {} /\ Len(<<>>) = 0
    BY DEF IsInjective, ToSet
  <1>8. ToSet(<<>>) = {o \in A : IsData(o) /\ <<o, 2>> \notin Left(t, {e})}
    BY <1>6, <1>7
  <1>9. PICK out : out = <<>>
    OBVIOUS
  <1>10. /\ out \in Seq(Int) /\ IsInjective(out) /\ ToSet(out) = {} /\ 1..Len(out) = {}
         /\ ToSet(out) = {o \in A : IsData(o) /\ <<o, 2>> \notin Left(t, {e})}
    <2>1. Len(<<>>) = 0 /\ 1..0 = {}
      OBVIOUS
    <2> QED BY <2>1, <1>7, <1>8, <1>9, Zenon
  <1>11. Streams(t, A, p, {e}, out)
    BY <1>4, <1>10 DEF Streams
  <1> QED BY <1>2, <1>6, <1>9, <1>11

\* A node comes out of the heap: its entries go in.
LEMMA StreamNode ==
  ASSUME NEW t, NEW A, NEW lv, NEW c, Asked(t, A, lv, c), NEW p \in [Axes -> Int], NEW E, NEW out, Streams(t, A, p, E, out),
         NEW e \in E, ~ e.object
  PROVE  /\ Streams(t, A, p, (E \ {e}) \cup ChildEntries(t, p, e.item), out)
         /\ Fewer(t, E, (E \ {e}) \cup ChildEntries(t, p, e.item))
         /\ ChildEntries(t, p, e.item) \subseteq QueueNodes /\ ChildEntries(t, p, e.item) \cap (E \ {e}) = {}
  <1>0. PICK X : X = ChildEntries(t, p, e.item)
    OBVIOUS
  <1>1. PICK n, s, F : /\ n = e.item /\ s = ToSet(Items(t, n)) /\ F = (E \ {e}) \cup X
                       /\ X = {EntryOf(t, p, n, x) : x \in s}
    BY <1>0 DEF ChildEntries
  <1>2. /\ n \in A /\ ~ IsData(n) /\ Queueable(t, A, p, e) /\ t \in Trees /\ Linked(t) /\ n \in Names(t)
        /\ Shape(t, A, lv, {t.root}, c) /\ Owned(t, A) /\ ~ t.twin
    BY <1>1, AskedIs DEF Streams, Queueable, Asked
  <1>3. \A x \in s : /\ x \in A /\ Desc(t, x) \subseteq Desc(t, n) /\ n \notin Desc(t, x) /\ lv[x] = lv[n] + 1
                     /\ MinDist(p, Bound(t, x)) \in Nat
    BY <1>1, <1>2, EntryIs
  <1>4. ASSUME NEW g \in X
        PROVE  \E x \in s : /\ Queueable(t, A, p, g) /\ Tokens(t, g) = Desc(t, x) \X {1, 2} /\ g \in QueueNodes
                            /\ g.item = x /\ g.rank = MinDist(p, Bound(t, x)) /\ g = EntryOf(t, p, n, x)
    <2>1. PICK x \in s : g = EntryOf(t, p, n, x)
      BY <1>1
    <2> QED BY <2>1, <1>1, <1>2, EntryOfIs
  <1>5. Tokens(t, e) = Desc(t, n) \X {1, 2}
    BY <1>1 DEF Tokens
  <1>6. \A g \in X : Tokens(t, g) \subseteq Tokens(t, e) \ {<<n, 1>>, <<n, 2>>}
    <2> SUFFICES ASSUME NEW g \in X PROVE Tokens(t, g) \subseteq Tokens(t, e) \ {<<n, 1>>, <<n, 2>>}
      OBVIOUS
    <2>1. PICK x \in s : Tokens(t, g) = Desc(t, x) \X {1, 2}
      BY <1>4
    <2>2. Desc(t, x) \subseteq Desc(t, n) \ {n}
      BY <1>3
    <2> QED BY <2>1, <2>2, <1>5
  <1>7. \A g \in X : Tokens(t, g) # {}
    <2> SUFFICES ASSUME NEW g \in X PROVE Tokens(t, g) # {}
      OBVIOUS
    <2>1. g.item \in A
      BY <1>3, <1>4
    <2> QED BY <2>1, TokensAre
  <1>8. \A f, g \in E : f # g => Tokens(t, f) \cap Tokens(t, g) = {}
    BY DEF Streams
  <1>9. \A f \in E \ {e} : \A g \in X : Tokens(t, f) \cap Tokens(t, g) = {}
    BY <1>6, <1>8
  <1>10. X \cap (E \ {e}) = {}
    <2> SUFFICES ASSUME NEW g \in X, g \in E \ {e} PROVE FALSE
      OBVIOUS
    <2>1. Tokens(t, g) \cap Tokens(t, g) = {}
      BY <1>9
    <2> QED BY <2>1, <1>7
  <1>11. ASSUME NEW f \in X, NEW g \in X, f # g
         PROVE  Tokens(t, f) \cap Tokens(t, g) = {}
    <2>1. PICK x \in s : Tokens(t, f) = Desc(t, x) \X {1, 2} /\ f = EntryOf(t, p, n, x)
      BY <1>4
    <2>2. PICK y \in s : Tokens(t, g) = Desc(t, y) \X {1, 2} /\ g = EntryOf(t, p, n, y)
      BY <1>4
    <2>3. x # y /\ x \in A /\ y \in A /\ lv[x] = lv[y]
      BY <2>1, <2>2, <1>3, <1>11
    <2>4. Desc(t, x) \cap Desc(t, y) = {}
      BY <2>3, <1>2, DescApart
    <2> QED BY <2>1, <2>2, <2>4
  <1>12. \A f, g \in F : f # g => Tokens(t, f) \cap Tokens(t, g) = {}
    <2> SUFFICES ASSUME NEW f \in F, NEW g \in F, f # g PROVE Tokens(t, f) \cap Tokens(t, g) = {}
      OBVIOUS
    <2>1. CASE f \in X /\ g \in X
      BY <2>1, <1>11
    <2>2. CASE f \in X /\ g \in E \ {e}
      BY <2>2, <1>9
    <2>3. CASE f \in E \ {e} /\ g \in X
      BY <2>3, <1>9
    <2>4. CASE f \in E \ {e} /\ g \in E \ {e}
      BY <2>4, <1>8
    <2> QED BY <2>1, <2>2, <2>3, <2>4, <1>1
  <1>13. Left(t, F) \subseteq Left(t, E)
    <2> SUFFICES ASSUME NEW z \in Left(t, F) PROVE z \in Left(t, E)
      OBVIOUS
    <2>1. PICK f \in F : z \in Tokens(t, f)
      BY DEF Left
    <2>2. f \in E \/ (f \in X /\ z \in Tokens(t, e))
      BY <2>1, <1>1, <1>6
    <2> QED BY <2>1, <2>2 DEF Left
  <1>14. \A z \in Left(t, E) : z \in Left(t, F) \/ z = <<n, 1>> \/ z = <<n, 2>>
    <2> SUFFICES ASSUME NEW z \in Left(t, E), z # <<n, 1>>, z # <<n, 2>> PROVE z \in Left(t, F)
      OBVIOUS
    <2>1. PICK f \in E : z \in Tokens(t, f)
      BY DEF Left
    <2>2. CASE f # e
      BY <2>1, <2>2, <1>1 DEF Left
    <2>3. CASE f = e
      <3>1. PICK y \in Desc(t, n), i \in {1, 2} : z = <<y, i>>
        BY <2>1, <2>3, <1>5
      <3>2. y # n
        BY <3>1
      <3>3. Desc(t, n) = {n} \cup UNION {Desc(t, x) : x \in s}
        BY <1>1, <1>2, DescUnion
      <3>4. PICK x \in s : y \in Desc(t, x)
        BY <3>1, <3>2, <3>3
      <3>5. PICK g : g = EntryOf(t, p, n, x)
        OBVIOUS
      <3>6. g \in X /\ g \in F
        BY <3>5, <1>1
      <3>7. Tokens(t, g) = Desc(t, x) \X {1, 2}
        BY <3>5, <1>1, <1>2, EntryOfIs
      <3>8. z \in Tokens(t, g)
        BY <3>1, <3>4, <3>7
      <3> QED BY <3>6, <3>8 DEF Left
    <2> QED BY <2>2, <2>3
  <1>15. <<n, 1>> \in Left(t, E) /\ <<n, 1>> \notin Left(t, F)
    <2>1. n \in Desc(t, n)
      BY <1>2, DescIs
    <2>2. <<n, 1>> \in Tokens(t, e)
      BY <2>1, <1>5
    <2>3. \A f \in F : <<n, 1>> \notin Tokens(t, f)
      BY <2>2, <1>1, <1>6, <1>8
    <2> QED BY <2>2, <2>3 DEF Left
  <1>16. ToSet(out) = {o \in A : IsData(o) /\ <<o, 2>> \notin Left(t, F)}
    <2>1. ToSet(out) = {o \in A : IsData(o) /\ <<o, 2>> \notin Left(t, E)}
      BY DEF Streams
    <2>2. ASSUME NEW o \in A, IsData(o)
          PROVE  <<o, 2>> \in Left(t, E) <=> <<o, 2>> \in Left(t, F)
      <3>1. <<o, 2>> # <<n, 1>> /\ <<o, 2>> # <<n, 2>>
        BY <2>2, <1>2
      <3> QED BY <3>1, <1>13, <1>14
    <2> QED BY <2>1, <2>2
  <1>17. ASSUME NEW o \in ToSet(out), NEW f \in F
         PROVE  DistanceTo(p, o) <= f.rank
    <2>1. CASE f \in E
      BY <2>1 DEF Streams
    <2>2. CASE f \in X
      <3>1. PICK x \in s : f.rank = MinDist(p, Bound(t, x))
        BY <2>2, <1>4
      <3>2. DistanceTo(p, o) <= e.rank /\ e.rank <= MinDist(p, Bound(t, x)) /\ e.rank \in Int
        BY <1>1, <1>2 DEF Streams, Queueable, QueueNodes
      <3>3. o \in A /\ IsData(o)
        BY DEF Streams
      <3>4. DistanceTo(p, o) \in Nat /\ MinDist(p, Bound(t, x)) \in Nat
        BY <3>3, <1>3, DistanceToIs
      <3> QED BY <3>1, <3>2, <3>4
    <2> QED BY <2>1, <2>2, <1>1
  <1>18. \A f \in F : Queueable(t, A, p, f)
    BY <1>1, <1>4 DEF Streams
  <1>19. Streams(t, A, p, F, out)
    BY <1>12, <1>16, <1>17, <1>18 DEF Streams
  <1>20. Fewer(t, E, F)
    BY <1>13, <1>15 DEF Fewer
  <1> QED BY <1>0, <1>1, <1>4, <1>10, <1>19, <1>20

-----------------------------------------------------------------------------
LEMMA PairOfOne ==
  ASSUME NEW o
  PROVE  {o} \X {1, 2} = {<<o, 1>>, <<o, 2>>} /\ <<o, 1>> # <<o, 2>>
  <1>1. \A z \in {o} \X {1, 2} : z = <<o, 1>> \/ z = <<o, 2>>
    OBVIOUS
  <1>2. <<o, 1>> \in {o} \X {1, 2} /\ <<o, 2>> \in {o} \X {1, 2}
    OBVIOUS
  <1>3. <<o, 1>> # <<o, 2>>
    OBVIOUS
  <1> QED BY <1>1, <1>2, <1>3

\* An object comes out of the heap at its box and goes in again at its own distance.
LEMMA StreamAgain ==
  ASSUME NEW t, NEW A, NEW lv, NEW c, Asked(t, A, lv, c), NEW p \in [Axes -> Int], NEW E, NEW out, Streams(t, A, p, E, out),
         NEW e \in E, e.object, e.rect
  PROVE  /\ Streams(t, A, p, (E \ {e}) \cup {Itself(p, e)}, out) /\ Fewer(t, E, (E \ {e}) \cup {Itself(p, e)})
         /\ Itself(p, e) \in QueueNodes /\ Itself(p, e) \notin E \ {e}
  <1>0. PICK g : g = Itself(p, e)
    OBVIOUS
  <1>1. PICK o, F : o = e.item /\ F = (E \ {e}) \cup {g}
    OBVIOUS
  <1>2. Queueable(t, A, p, e) /\ o \in A /\ IsData(o) /\ o \in Int /\ e.rank \in Int
    BY <1>1 DEF Streams, Queueable, QueueNodes
  <1>3. DistanceTo(p, o) \in Nat /\ e.rank <= DistanceTo(p, o)
    BY <1>1, <1>2, DistanceToIs DEF Queueable
  <1>4. PICK d : d = DistanceTo(p, o)
    OBVIOUS
  <1>5. g \in QueueNodes /\ g.rank = d /\ g.item = o /\ g.object = TRUE /\ g.rect = FALSE
    BY <1>0, <1>1, <1>2, <1>3, <1>4 DEF Itself, QueueNode, QueueNodes
  <1>6. Queueable(t, A, p, g)
    <2>1. DistanceTo(p, g.item) = d /\ d \in Nat /\ g.rank <= DistanceTo(p, g.item)
      <3>1. d \in Nat /\ d <= d
        BY <1>3, <1>4
      <3> QED BY <3>1, <1>4, <1>5, Zenon
    <2> QED BY <2>1, <1>2, <1>5 DEF Queueable
  <1>7. Tokens(t, e) = {<<o, 1>>, <<o, 2>>} /\ Tokens(t, g) = {<<o, 2>>}
    <2>1. Tokens(t, g) = {<<o, 2>>}
      BY <1>5 DEF Tokens
    <2>2. Tokens(t, e) = {o} \X {1, 2}
      BY <1>1, <1>2, DataDesc DEF Tokens
    <2>3. {o} \X {1, 2} = {<<o, 1>>, <<o, 2>>}
      BY PairOfOne
    <2> QED BY <2>1, <2>2, <2>3
  <1>8. \A f, h \in E : f # h => Tokens(t, f) \cap Tokens(t, h) = {}
    BY DEF Streams
  <1>9. \A f \in E \ {e} : Tokens(t, f) \cap Tokens(t, g) = {} /\ <<o, 1>> \notin Tokens(t, f)
    BY <1>7, <1>8
  <1>10. g \notin E \ {e}
    <2>1. Tokens(t, g) \cap Tokens(t, g) # {}
      BY <1>7
    <2> QED BY <2>1, <1>9
  <1>11. \A f, h \in F : f # h => Tokens(t, f) \cap Tokens(t, h) = {}
    <2> SUFFICES ASSUME NEW f \in F, NEW h \in F, f # h PROVE Tokens(t, f) \cap Tokens(t, h) = {}
      OBVIOUS
    <2>1. CASE f = g /\ h \in E \ {e}
      BY <2>1, <1>9
    <2>2. CASE f \in E \ {e} /\ h = g
      BY <2>2, <1>9
    <2>3. CASE f \in E \ {e} /\ h \in E \ {e}
      BY <2>3, <1>8
    <2>4. (f = g \/ f \in E \ {e}) /\ (h = g \/ h \in E \ {e})
      BY <1>1
    <2> QED BY <2>1, <2>2, <2>3, <2>4
  <1>12. Left(t, F) \subseteq Left(t, E)
    <2> SUFFICES ASSUME NEW z \in Left(t, F) PROVE z \in Left(t, E)
      OBVIOUS
    <2>1. PICK f \in F : z \in Tokens(t, f)
      BY DEF Left
    <2>2. f \in E \/ z \in Tokens(t, e)
      BY <2>1, <1>1, <1>7
    <2> QED BY <2>1, <2>2 DEF Left
  <1>13. \A z \in Left(t, E) : z \in Left(t, F) \/ z = <<o, 1>>
    <2> SUFFICES ASSUME NEW z \in Left(t, E), z # <<o, 1>> PROVE z \in Left(t, F)
      OBVIOUS
    <2>1. PICK f \in E : z \in Tokens(t, f)
      BY DEF Left
    <2>2. f # e \/ z \in Tokens(t, g)
      BY <2>1, <1>7
    <2> QED BY <2>1, <2>2, <1>1 DEF Left
  <1>14. <<o, 1>> \in Left(t, E) /\ <<o, 1>> \notin Left(t, F)
    <2>1. <<o, 1>> \in Tokens(t, e) /\ <<o, 1>> \notin Tokens(t, g)
      BY <1>7, PairOfOne
    <2>2. \A f \in F : <<o, 1>> \notin Tokens(t, f)
      BY <2>1, <1>1, <1>9
    <2> QED BY <2>1, <2>2 DEF Left
  <1>15. ToSet(out) = {x \in A : IsData(x) /\ <<x, 2>> \notin Left(t, F)}
    <2>1. ToSet(out) = {x \in A : IsData(x) /\ <<x, 2>> \notin Left(t, E)}
      BY DEF Streams
    <2>2. \A x \in A : <<x, 2>> # <<o, 1>>
      OBVIOUS
    <2>3. \A x \in A : <<x, 2>> \in Left(t, E) <=> <<x, 2>> \in Left(t, F)
      BY <2>2, <1>12, <1>13
    <2> QED BY <2>1, <2>3
  <1>16. ASSUME NEW x \in ToSet(out), NEW f \in F
         PROVE  DistanceTo(p, x) <= f.rank
    <2>1. DistanceTo(p, x) <= e.rank
      BY DEF Streams
    <2>2. CASE f \in E
      BY <2>2 DEF Streams
    <2>3. CASE f = g
      <3>1. x \in A /\ IsData(x)
        BY DEF Streams
      <3>2. DistanceTo(p, x) \in Nat
        BY <3>1, DistanceToIs
      <3>3. PICK a, b \in Int : a = DistanceTo(p, x) /\ b = e.rank
        BY <3>2, <1>2
      <3>4. a <= b /\ b <= d /\ d \in Int /\ f.rank = d
        <4>1. d \in Nat /\ f.rank = d /\ a <= b
          BY <2>1, <2>3, <3>3, <1>3, <1>4, <1>5, Zenon
        <4>2. b <= d
          BY <3>3, <1>3, <1>4, Zenon
        <4> QED BY <4>1, <4>2
      <3> QED BY <3>3, <3>4
    <2> QED BY <2>2, <2>3, <1>1
  <1>17. Streams(t, A, p, F, out)
    BY <1>1, <1>6, <1>11, <1>15, <1>16 DEF Streams
  <1>18. Fewer(t, E, F)
    BY <1>12, <1>14 DEF Fewer
  <1> QED BY <1>0, <1>1, <1>5, <1>10, <1>17, <1>18

\* An object is handed out when nothing in the heap can be nearer.
LEMMA StreamHanded ==
  ASSUME NEW t, NEW A, NEW lv, NEW c, Asked(t, A, lv, c), NEW p \in [Axes -> Int], NEW E, NEW out, Streams(t, A, p, E, out),
         NEW e \in E, e.object, \A f \in E \ {e} : DistanceTo(p, e.item) <= f.rank
  PROVE  Streams(t, A, p, E \ {e}, Append(out, e.item)) /\ Fewer(t, E, E \ {e})
  <1>1. PICK o, F, r : o = e.item /\ F = E \ {e} /\ r = Append(out, o)
    OBVIOUS
  <1>2. Queueable(t, A, p, e) /\ o \in A /\ IsData(o) /\ o \in Int /\ e.rank \in Int
    BY <1>1 DEF Streams, Queueable, QueueNodes
  <1>3. DistanceTo(p, o) \in Nat /\ e.rank <= DistanceTo(p, o)
    BY <1>1, <1>2, DistanceToIs DEF Queueable
  <1>4. <<o, 2>> \in Tokens(t, e) /\ \A x \in A : x # o => <<x, 2>> \notin Tokens(t, e)
    BY <1>1, <1>2, DataDesc DEF Tokens
  <1>5. \A f, h \in E : f # h => Tokens(t, f) \cap Tokens(t, h) = {}
    BY DEF Streams
  <1>6. Left(t, F) \subseteq Left(t, E) /\ \A z \in Left(t, E) : z \in Left(t, F) \/ z \in Tokens(t, e)
    BY <1>1 DEF Left
  <1>7. <<o, 2>> \in Left(t, E) /\ <<o, 2>> \notin Left(t, F)
    BY <1>1, <1>4, <1>5 DEF Left
  <1>8. /\ out \in Seq(Int) /\ IsInjective(out)
        /\ ToSet(out) = {x \in A : IsData(x) /\ <<x, 2>> \notin Left(t, E)}
        /\ \A i, j \in 1..Len(out) : i < j => DistanceTo(p, out[i]) <= DistanceTo(p, out[j])
        /\ \A x \in ToSet(out), f \in E : DistanceTo(p, x) <= f.rank
    BY DEF Streams
  <1>9. o \notin ToSet(out)
    BY <1>7, <1>8
  <1>10. /\ r \in Seq(Int) /\ Len(r) = Len(out) + 1 /\ ToSet(r) = ToSet(out) \cup {o} /\ IsInjective(r)
         /\ (\A i \in 1..Len(out) : r[i] = out[i]) /\ r[Len(out) + 1] = o
    BY <1>1, <1>2, <1>8, <1>9, AppendSet
  <1>11. ToSet(r) = {x \in A : IsData(x) /\ <<x, 2>> \notin Left(t, F)}
    <2>1. ASSUME NEW x \in A, IsData(x), x # o
          PROVE  <<x, 2>> \in Left(t, E) <=> <<x, 2>> \in Left(t, F)
      BY <2>1, <1>4, <1>6
    <2> QED BY <2>1, <1>2, <1>7, <1>8, <1>10
  <1>12. \A x \in ToSet(out) : DistanceTo(p, x) \in Nat /\ DistanceTo(p, x) <= DistanceTo(p, o)
    <2> SUFFICES ASSUME NEW x \in ToSet(out)
                 PROVE  DistanceTo(p, x) \in Nat /\ DistanceTo(p, x) <= DistanceTo(p, o)
      OBVIOUS
    <2>1. x \in A /\ IsData(x) /\ DistanceTo(p, x) <= e.rank
      BY <1>8
    <2>2. DistanceTo(p, x) \in Nat
      BY <2>1, DistanceToIs
    <2> QED BY <2>1, <2>2, <1>2, <1>3
  <1>13. ASSUME NEW i \in 1..Len(r), NEW j \in 1..Len(r), i < j
         PROVE  DistanceTo(p, r[i]) <= DistanceTo(p, r[j])
    <2>1. PICK n \in Nat : n = Len(out)
      BY <1>8, SeqIs
    <2>2. i \in 1..n /\ r[i] = out[i] /\ out[i] \in ToSet(out)
      <3>1. i \in 1..n
        BY <2>1, <1>10, <1>13
      <3>2. out[i] \in ToSet(out)
        BY <3>1, <2>1, <1>8, SeqIs
      <3> QED BY <3>1, <3>2, <2>1, <1>10
    <2>3. CASE j \in 1..n
      BY <2>1, <2>2, <2>3, <1>8, <1>10, <1>13
    <2>4. CASE j = n + 1
      BY <2>1, <2>2, <2>4, <1>10, <1>12
    <2> QED BY <2>1, <2>3, <2>4, <1>10
  <1>14. \A x \in ToSet(r), f \in F : DistanceTo(p, x) <= f.rank
    BY <1>1, <1>8, <1>10
  <1>15. \A f \in F : Queueable(t, A, p, f)
    BY <1>1 DEF Streams
  <1>16. \A f, h \in F : f # h => Tokens(t, f) \cap Tokens(t, h) = {}
    BY <1>1, <1>5
  <1>17. Streams(t, A, p, F, r)
    BY <1>10, <1>11, <1>13, <1>14, <1>15, <1>16 DEF Streams
  <1>18. Fewer(t, E, F)
    BY <1>6, <1>7 DEF Fewer
  <1> QED BY <1>1, <1>17, <1>18

\* What one element that comes out of the heap leads to.
LEMMA HandedIs ==
  ASSUME NEW t, NEW A, NEW lv, NEW c, Asked(t, A, lv, c), NEW p \in [Axes -> Int], NEW E, NEW h, HeapOf(E, h), h # <<>>,
         NEW out, Streams(t, A, p, E, out), NEW r, r = Handed(t, p, Head(h), HeapRest(h), out)
  PROVE  /\ r = [heap |-> r.heap, out |-> r.out]
         /\ \E F : HeapOf(F, r.heap) /\ Streams(t, A, p, F, r.out) /\ Fewer(t, E, F)
  <1>1. PICK e, g, H : e = Head(h) /\ g = HeapRest(h) /\ H = E \ {e}
    OBVIOUS
  <1>2. HeapOf(H, g) /\ e \in E /\ E \subseteq QueueNodes /\ \A f \in E : e.rank <= f.rank
    BY <1>1, HeapPopped
  <1>3. Queueable(t, A, p, e)
    BY <1>2 DEF Streams
  <1>4. PICK n, s, d : n = e.item /\ s = Items(t, n) /\ d = DistanceTo(p, n)
    OBVIOUS
  <1>5. n \in A /\ t \in Trees /\ n \in Names(t) /\ s \in Seq(Int) /\ e.object \in BOOLEAN /\ e.rect \in BOOLEAN
    <2>1. n \in A /\ e \in QueueNodes
      BY <1>3, <1>4 DEF Queueable
    <2>2. t \in Trees /\ n \in Names(t)
      BY <2>1, AskedIs
    <2> QED BY <2>1, <2>2, <1>4, NodeIs DEF QueueNodes
  <1>6. CASE ~ e.object
    <2> DEFINE K == [i \in 1..Len(s) |-> EntryOf(t, p, n, s[i])]
               X == {EntryOf(t, p, n, x) : x \in ToSet(s)}
    <2>1. Len(s) \in Nat /\ DOMAIN s = 1..Len(s) /\ ToSet(s) = {s[i] : i \in 1..Len(s)}
      BY <1>5, SeqIs
    <2>2. ~ IsData(n)
      BY <1>3, <1>4, <1>6 DEF Queueable
    <2>3. \A x \in ToSet(s) : EntryOf(t, p, n, x) \in QueueNodes /\ EntryOf(t, p, n, x).item = x
      <3> SUFFICES ASSUME NEW x \in ToSet(s) PROVE EntryOf(t, p, n, x) \in QueueNodes /\ EntryOf(t, p, n, x).item = x
        OBVIOUS
      <3>1. PICK y : y = EntryOf(t, p, n, x)
        OBVIOUS
      <3>2. y \in QueueNodes /\ y.item = x
        BY <3>1, <2>2, <1>4, <1>5, EntryOfIs
      <3> QED BY <3>1, <3>2
    <2>4. K \in Seq(QueueNodes) /\ Len(K) = Len(s) /\ ToSet(K) = X /\ IsInjective(K)
      <3>1. \A i \in 1..Len(s) : s[i] \in ToSet(s) /\ K[i] = EntryOf(t, p, n, s[i])
        BY <2>1
      <3>2. \A i \in 1..Len(s) : K[i] \in QueueNodes /\ K[i].item = s[i]
        BY <3>1, <2>3
      <3>3. K \in [1..Len(s) -> QueueNodes]
        BY <3>2
      <3>4. K \in Seq(QueueNodes) /\ Len(K) = Len(s) /\ DOMAIN K = 1..Len(s)
        BY <3>3, <2>1
      <3>5. \A i, j \in 1..Len(s) : s[i] = s[j] => i = j
        <4>1. IsInjective(s)
          BY <1>4, <1>5, AskedIs DEF Kinds
        <4> QED BY <4>1, <2>1 DEF IsInjective
      <3>6. \A i, j \in 1..Len(s) : K[i] = K[j] => i = j
        BY <3>2, <3>5
      <3>7. IsInjective(K)
        BY <3>4, <3>6 DEF IsInjective
      <3>8. ToSet(K) = {K[i] : i \in 1..Len(s)}
        BY <3>4 DEF ToSet
      <3>9. ToSet(K) = X
        BY <3>1, <3>8, <2>1
      <3> QED BY <3>4, <3>7, <3>9
    <2>5. /\ Streams(t, A, p, H \cup X, out) /\ Fewer(t, E, H \cup X) /\ X \cap H = {}
      <3>1. X = ChildEntries(t, p, e.item)
        BY <1>4 DEF ChildEntries
      <3> HIDE DEF X
      <3>2. /\ Streams(t, A, p, (E \ {e}) \cup ChildEntries(t, p, e.item), out)
            /\ Fewer(t, E, (E \ {e}) \cup ChildEntries(t, p, e.item))
            /\ ChildEntries(t, p, e.item) \cap (E \ {e}) = {}
        BY <1>2, <1>6, StreamNode
      <3> QED BY <3>1, <3>2, <1>1
    <2>6. \A f : PushStep(g, K, f) = [k \in 0..Len(s) |-> IF k = 0 THEN g ELSE HeapInsert(f[k - 1], EntryOf(t, p, n, s[k]))]
      <3> SUFFICES ASSUME NEW f
                   PROVE  PushStep(g, K, f) = [k \in 0..Len(s) |-> IF k = 0 THEN g ELSE HeapInsert(f[k - 1], EntryOf(t, p, n, s[k]))]
        OBVIOUS
      <3>1. \A k \in 0..Len(s) : k # 0 => K[k] = EntryOf(t, p, n, s[k])
        BY <2>1
      <3>2. Len(K) = Len(s)
        BY <2>4
      <3> HIDE DEF K
      <3> QED BY <3>1, <3>2 DEF PushStep
    <2> HIDE DEF K, X
    <2>7. PICK F : F = Pushes(g, K)
      OBVIOUS
    <2>8. HeapOf(H \cup X, F[Len(s)])
      <3>1. ToSet(K) \cap H = {}
        BY <2>4, <2>5
      <3>2. HeapOf(H \cup ToSet(K), Pushes(g, K)[Len(K)])
        BY <3>1, <2>4, <1>2, PushedIs
      <3> QED BY <3>2, <2>4, <2>7
    <2>9. F = CHOOSE f : f = [k \in 0..Len(s) |-> IF k = 0 THEN g ELSE HeapInsert(f[k - 1], EntryOf(t, p, n, s[k]))]
      BY <2>6, <2>7 DEF Pushes
    <2>10. r = [heap |-> F[Len(s)], out |-> out]
      BY <2>9, <1>1, <1>4, <1>6, ZenonT(60) DEF Handed, EntryOf, Leaf
    <2>11. r.heap = F[Len(s)] /\ r.out = out
      BY <2>10
    <2> QED BY <2>5, <2>8, <2>10, <2>11
  <1>7. CASE e.object /\ e.rect /\ g # <<>> /\ d > Head(g).rank
    <2>1. PICK q : q = QueueNode(d, n, TRUE, FALSE)
      OBVIOUS
    <2>2. Streams(t, A, p, H \cup {q}, out) /\ Fewer(t, E, H \cup {q}) /\ q \in QueueNodes /\ q \notin H
      <3>1. q = Itself(p, e)
        BY <2>1, <1>4 DEF Itself
      <3>2. /\ Streams(t, A, p, (E \ {e}) \cup {Itself(p, e)}, out) /\ Fewer(t, E, (E \ {e}) \cup {Itself(p, e)})
            /\ Itself(p, e) \in QueueNodes /\ Itself(p, e) \notin E \ {e}
        BY <1>2, <1>7, StreamAgain
      <3> QED BY <3>1, <3>2, <1>1
    <2>3. HeapOf(H \cup {q}, HeapInsert(g, q))
      BY <2>2, <1>2, HeapInserted
    <2>4. r = [heap |-> HeapInsert(g, q), out |-> out]
      BY <2>1, <1>1, <1>4, <1>7 DEF Handed
    <2>5. r.heap = HeapInsert(g, q) /\ r.out = out
      BY <2>4
    <2> QED BY <2>2, <2>3, <2>4, <2>5
  <1>8. CASE e.object /\ ~ (e.rect /\ g # <<>> /\ d > Head(g).rank)
    <2>1. d \in Nat
      BY <1>3, <1>4, <1>8, DistanceToIs DEF Queueable
    <2>2. \A f \in H : d <= f.rank
      <3> SUFFICES ASSUME NEW f \in H PROVE d <= f.rank
        OBVIOUS
      <3>1. f \in QueueNodes /\ f.rank \in Int /\ e.rank <= f.rank
        BY <1>1, <1>2 DEF QueueNodes
      <3>2. CASE ~ e.rect
        BY <3>1, <3>2, <1>3, <1>4, <1>8 DEF Queueable
      <3>3. CASE e.rect
        <4>1. g # <<>>
          BY <1>2, HeapEmpty
        <4>2. Head(g) \in H /\ Head(g).rank <= f.rank /\ H \subseteq QueueNodes
          BY <4>1, <1>2, HeapPopped
        <4>3. Head(g).rank \in Int
          BY <4>2 DEF QueueNodes
        <4>4. d <= Head(g).rank
          BY <3>3, <4>1, <4>3, <2>1, <1>8
        <4> QED BY <4>2, <4>3, <4>4, <3>1, <2>1
      <3> QED BY <3>2, <3>3
    <2>3. Streams(t, A, p, H, Append(out, n)) /\ Fewer(t, E, H)
      BY <2>2, <1>1, <1>2, <1>4, <1>8, StreamHanded
    <2>4. r = [heap |-> g, out |-> Append(out, n)]
      BY <1>1, <1>4, <1>8 DEF Handed
    <2>5. r.heap = g /\ r.out = Append(out, n)
      BY <2>4
    <2> QED BY <2>3, <2>4, <2>5, <1>2
  <1> QED BY <1>5, <1>6, <1>7, <1>8

-----------------------------------------------------------------------------
\* The stream s of all the objects of A, nearest first.
Ranked(A, p, s) ==
  /\ s \in Seq(Int) /\ IsInjective(s) /\ ToSet(s) = {o \in A : IsData(o)}
  /\ \A i, j \in 1..Len(s) : i < j => DistanceTo(p, s[i]) <= DistanceTo(p, s[j])

\* After k of N turns: what is left to come out of the heap shrinks with every turn.
Narrowed(t, A, p, N, k, s) ==
  /\ s \in [heap : Seq(QueueNodes), out : Seq(Int)]
  /\ \E E : /\ HeapOf(E, s.heap) /\ Streams(t, A, p, E, s.out)
            /\ s.heap # <<>> => Cardinality(Left(t, E)) + k <= N

NeighboursStep(t, p, f) ==
  [k \in 0..(2 * Cardinality(DOMAIN t.node)) |->
     IF k = 0 THEN [heap |-> <<QueueNode(0, t.root, FALSE, FALSE)>>, out |-> <<>>]
     ELSE HandedNext(t, p, f[k - 1])]

LEMMA LeftIs ==
  ASSUME NEW t, NEW A, NEW lv, NEW c, Asked(t, A, lv, c), NEW p, NEW E, NEW out, Streams(t, A, p, E, out)
  PROVE  /\ Left(t, E) \subseteq A \X {1, 2} /\ IsFiniteSet(Left(t, E)) /\ Cardinality(Left(t, E)) \in Nat
         /\ E # {} => Left(t, E) # {} /\ Cardinality(Left(t, E)) # 0
         /\ Cardinality(A \X {1, 2}) <= 2 * Cardinality(Names(t)) /\ Cardinality(Names(t)) \in Nat
         /\ Cardinality(A \X {1, 2}) \in Nat
  <1>1. \A e \in E : Tokens(t, e) \subseteq A \X {1, 2} /\ Tokens(t, e) # {}
    <2> SUFFICES ASSUME NEW e \in E
                 PROVE  Tokens(t, e) \subseteq A \X {1, 2} /\ Tokens(t, e) # {}
      OBVIOUS
    <2>1. e.item \in A
      BY DEF Streams, Queueable
    <2> QED BY <2>1, TokensAre
  <1>2. Left(t, E) \subseteq A \X {1, 2}
    BY <1>1 DEF Left
  <1>3. E # {} => Left(t, E) # {}
    BY <1>1 DEF Left
  <1>4. A \subseteq Names(t) /\ IsFiniteSet(Names(t))
    BY AskedIs, TreeIs
  <1>5. IsFiniteSet(A) /\ Cardinality(A) <= Cardinality(Names(t)) /\ Cardinality(A) \in Nat /\ Cardinality(Names(t)) \in Nat
    BY <1>4, FS_Subset, FS_CardinalityType
  <1>6. IsFiniteSet({1, 2}) /\ Cardinality({1, 2}) = 2
    <2>1. IsFiniteSet({1}) /\ Cardinality({1}) = 1
      BY FS_Singleton
    <2>2. {1} \cup {2} = {1, 2} /\ 2 \notin {1}
      OBVIOUS
    <2>3. IsFiniteSet({1} \cup {2}) /\ Cardinality({1} \cup {2}) = 1 + 1
      BY <2>1, <2>2, FS_AddElement
    <2> QED BY <2>2, <2>3
  <1>7. IsFiniteSet(A \X {1, 2}) /\ Cardinality(A \X {1, 2}) = Cardinality(A) * 2
    <2>1. IsFiniteSet(A \X {1, 2}) /\ Cardinality(A \X {1, 2}) = Cardinality(A) * Cardinality({1, 2})
      BY <1>5, <1>6, FS_Product
    <2> QED BY <2>1, <1>6
  <1>8. IsFiniteSet(Left(t, E)) /\ Cardinality(Left(t, E)) \in Nat
    BY <1>2, <1>7, FS_Subset, FS_CardinalityType
  <1>9. E # {} => Cardinality(Left(t, E)) # 0
    BY <1>3, <1>8, FS_EmptySet
  <1>10. Cardinality(A \X {1, 2}) <= 2 * Cardinality(Names(t)) /\ Cardinality(A \X {1, 2}) \in Nat
    BY <1>5, <1>7
  <1> QED BY <1>2, <1>3, <1>5, <1>8, <1>9, <1>10

LEMMA FewerLeft ==
  ASSUME NEW t, NEW E, NEW F, Fewer(t, E, F), IsFiniteSet(Left(t, E))
  PROVE  /\ Cardinality(Left(t, F)) + 1 <= Cardinality(Left(t, E))
         /\ Cardinality(Left(t, F)) \in Nat /\ Cardinality(Left(t, E)) \in Nat
  <1>1. Left(t, F) \subseteq Left(t, E) /\ Left(t, F) # Left(t, E)
    BY DEF Fewer
  <1>2. IsFiniteSet(Left(t, F)) /\ Cardinality(Left(t, F)) <= Cardinality(Left(t, E))
        /\ (Cardinality(Left(t, F)) = Cardinality(Left(t, E)) => Left(t, F) = Left(t, E))
    BY <1>1, FS_Subset
  <1>3. Cardinality(Left(t, F)) \in Nat /\ Cardinality(Left(t, E)) \in Nat
    BY <1>2, FS_CardinalityType
  <1> QED BY <1>1, <1>2, <1>3

LEMMA HandedNextIs ==
  ASSUME NEW t, NEW A, NEW lv, NEW c, Asked(t, A, lv, c), NEW p \in [Axes -> Int],
         NEW N \in Nat, NEW k \in Nat \ {0}, NEW s, Narrowed(t, A, p, N, k - 1, s)
  PROVE  Narrowed(t, A, p, N, k, HandedNext(t, p, s))
  <1>1. PICK E : /\ HeapOf(E, s.heap) /\ Streams(t, A, p, E, s.out)
                 /\ s.heap # <<>> => Cardinality(Left(t, E)) + (k - 1) <= N
    BY DEF Narrowed
  <1>2. CASE s.heap = <<>>
    BY <1>1, <1>2 DEF HandedNext, Narrowed
  <1>3. CASE s.heap # <<>>
    <2>1. PICK r : r = HandedNext(t, p, s)
      OBVIOUS
    <2>2. r = Handed(t, p, Head(s.heap), HeapRest(s.heap), s.out)
      BY <2>1, <1>3 DEF HandedNext
    <2>3. /\ r = [heap |-> r.heap, out |-> r.out]
          /\ \E F : HeapOf(F, r.heap) /\ Streams(t, A, p, F, r.out) /\ Fewer(t, E, F)
      BY <2>2, <1>1, <1>3, HandedIs
    <2>4. PICK F : HeapOf(F, r.heap) /\ Streams(t, A, p, F, r.out) /\ Fewer(t, E, F)
      BY <2>3
    <2>5. r.heap \in Seq(QueueNodes) /\ r.out \in Seq(Int)
      BY <2>4 DEF HeapOf, Streams
    <2>6. r \in [heap : Seq(QueueNodes), out : Seq(Int)]
      <3>1. PICK x \in Seq(QueueNodes), y \in Seq(Int) : x = r.heap /\ y = r.out
        BY <2>5
      <3>2. r = [heap |-> x, out |-> y]
        BY <2>3, <3>1
      <3> QED BY <3>2
    <2>7. IsFiniteSet(Left(t, E))
      BY <1>1, LeftIs
    <2>8. /\ Cardinality(Left(t, F)) + 1 <= Cardinality(Left(t, E))
          /\ Cardinality(Left(t, F)) \in Nat /\ Cardinality(Left(t, E)) \in Nat
      BY <2>4, <2>7, FewerLeft
    <2>9. Cardinality(Left(t, F)) + k <= N
      BY <2>8, <1>1, <1>3
    <2> QED BY <2>1, <2>4, <2>6, <2>9 DEF Narrowed
  <1> QED BY <1>2, <1>3

LEMMA HeapOfOne ==
  ASSUME NEW e \in QueueNodes
  PROVE  HeapOf({e}, <<e>>)
  <1>1. <<e>> \in Seq(QueueNodes) /\ Len(<<e>>) = 1 /\ DOMAIN <<e>> = 1..1 /\ <<e>>[1] = e
    OBVIOUS
  <1>2. ToSet(<<e>>) = {e}
    <2>1. {<<e>>[i] : i \in 1..1} = {e}
      BY <1>1
    <2> QED BY <2>1, <1>1 DEF ToSet
  <1>3. IsInjective(<<e>>)
    BY <1>1 DEF IsInjective
  <1>4. Heaped(<<e>>)
    BY <1>1 DEF Heaped
  <1> QED BY <1>1, <1>2, <1>3, <1>4 DEF HeapOf

LEMMA NeighboursAre ==
  ASSUME NEW t, NEW A, NEW lv, NEW c, Asked(t, A, lv, c), NEW p \in [Axes -> Int], Desc(t, t.root) = A
  PROVE  Ranked(A, p, Neighbours(t, p))
  <1> DEFINE V == [heap : Seq(QueueNodes), out : Seq(Int)]
             n == 2 * Cardinality(DOMAIN t.node)
             Good(k) == {s \in V : Narrowed(t, A, p, n, k, s)}
             W == [k \in 0..n |-> Good(k)]
             T(s) == HandedNext(t, p, s)
             G == [ks \in (1..n) \X V |-> T(ks[2])]
             base == [heap |-> <<QueueNode(0, t.root, FALSE, FALSE)>>, out |-> <<>>]
  <1>1. n \in Nat
    <2>1. IsFiniteSet(Names(t))
      BY AskedIs, TreeIs
    <2>2. Cardinality(Names(t)) \in Nat
      BY <2>1, FS_CardinalityType
    <2> QED BY <2>2 DEF Names
  <1>2. base \in V /\ Narrowed(t, A, p, n, 0, base)
    <2>1. PICK e : e = QueueNode(0, t.root, FALSE, FALSE)
      OBVIOUS
    <2>2. Streams(t, A, p, {e}, <<>>) /\ e \in QueueNodes /\ Left(t, {e}) = A \X {1, 2}
      BY <2>1, StreamStarts
    <2>3. HeapOf({e}, <<e>>)
      BY <2>2, HeapOfOne
    <2>4. base = [heap |-> <<e>>, out |-> <<>>]
      BY <2>1
    <2>5. base \in V /\ base.heap = <<e>> /\ base.out = <<>>
      <3>1. PICK x, y : x = <<e>> /\ y = <<>> /\ x \in Seq(QueueNodes) /\ y \in Seq(Int)
        <4>1. <<e>> \in Seq(QueueNodes)
          BY <2>2
        <4>2. <<>> \in Seq(Int)
          OBVIOUS
        <4> QED BY <4>1, <4>2, Zenon
      <3>2. base = [heap |-> x, out |-> y]
        BY <2>4, <3>1
      <3> QED BY <3>1, <3>2
    <2>6. Cardinality(A \X {1, 2}) <= 2 * Cardinality(Names(t)) /\ Cardinality(A \X {1, 2}) \in Nat
      BY <2>2, LeftIs
    <2>7. Cardinality(Left(t, {e})) + 0 <= n
      <3>1. PICK m \in Nat : m = Cardinality(Left(t, {e})) /\ m <= 2 * Cardinality(Names(t))
        BY <2>2, <2>6
      <3>2. n = 2 * Cardinality(Names(t))
        BY DEF Names
      <3> QED BY <3>1, <3>2, <1>1
    <2> HIDE DEF base, n
    <2> QED BY <2>2, <2>3, <2>5, <2>7 DEF Narrowed
  <1> HIDE DEF n, base
  <1>3. base \in W[0]
    <2>1. 0 \in 0..n
      BY <1>1
    <2> QED BY <2>1, <1>2
  <1>4. ASSUME NEW k \in 1..n, NEW s \in W[k - 1]
        PROVE  s \in V /\ T(s) \in W[k]
    <2>1. k - 1 \in 0..n /\ k \in 0..n /\ k \in Nat \ {0}
      BY <1>1
    <2>2. s \in V /\ Narrowed(t, A, p, n, k - 1, s)
      BY <2>1
    <2>3. Narrowed(t, A, p, n, k, T(s))
      BY <2>1, <2>2, <1>1, HandedNextIs
    <2>4. T(s) \in V
      BY <2>3 DEF Narrowed
    <2> HIDE DEF T
    <2> QED BY <2>1, <2>2, <2>3, <2>4
  <1>5. \A k \in 1..n : \A s \in W[k - 1] : G[<<k, s>>] = T(s)
    <2> SUFFICES ASSUME NEW k \in 1..n, NEW s \in W[k - 1]
                 PROVE  G[<<k, s>>] = T(s)
      OBVIOUS
    <2>1. s \in V
      BY <1>4
    <2> HIDE DEF W, T, V
    <2> QED BY <2>1
  <1>6. ASSUME NEW s \in W[n]
        PROVE  Ranked(A, p, s.out)
    <2>1. n \in 0..n
      BY <1>1
    <2>2. Narrowed(t, A, p, n, n, s)
      BY <2>1
    <2>3. PICK E : /\ HeapOf(E, s.heap) /\ Streams(t, A, p, E, s.out)
                   /\ s.heap # <<>> => Cardinality(Left(t, E)) + n <= n
      BY <2>2 DEF Narrowed
    <2>4. Cardinality(Left(t, E)) \in Nat /\ (E # {} => Cardinality(Left(t, E)) # 0)
      BY <2>3, LeftIs
    <2>5. s.heap = <<>> /\ E = {}
      BY <2>3, <2>4, <1>1, HeapEmpty
    <2>6. Left(t, E) = {}
      BY <2>5 DEF Left
    <2> QED BY <2>3, <2>6 DEF Streams, Ranked
  <1> HIDE DEF W, G, T, Good
  <1>7. Turns0(n, W, base, G)
    BY <1>3, <1>4, <1>5 DEF Turns0
  <1>8. PICK f : Turned0(f, n, W, base, G)
    BY <1>1, <1>7, LoopExists
  <1>9. \A k \in 1..n : f[k] = T(f[k - 1])
    <2>1. \A k \in 1..n : k \in 0..n /\ k - 1 \in 0..n
      BY <1>1
    <2> QED BY <2>1, <1>5, <1>8 DEF Turned0
  <1>10. \A x : NeighboursStep(t, p, x) = [k \in 0..n |-> IF k = 0 THEN base ELSE T(x[k - 1])]
    BY DEF NeighboursStep, T, n, base
  <1>11. f = NeighboursStep(t, p, f)
    <2>1. \A k \in 0..n : f[k] = IF k = 0 THEN base ELSE T(f[k - 1])
      <3>1. \A k \in 0..n : k = 0 \/ k \in 1..n
        BY <1>1
      <3> QED BY <3>1, <1>8, <1>9 DEF Turned0
    <2>2. f = [k \in 0..n |-> f[k]]
      BY <1>8 DEF Turned0
    <2>3. f = [k \in 0..n |-> IF k = 0 THEN base ELSE T(f[k - 1])]
      BY <2>1, <2>2
    <2> QED BY <2>3, <1>10
  <1>12. PICK g : g = CHOOSE x : x = NeighboursStep(t, p, x)
    OBVIOUS
  <1>13. g = NeighboursStep(t, p, g)
    BY <1>11, <1>12
  <1>14. g[0] = base /\ \A k \in 1..n : g[k] = T(g[k - 1])
    <2>1. 0 \in 0..n /\ \A k \in 1..n : k \in 0..n /\ k # 0
      BY <1>1
    <2> QED BY <2>1, <1>10, <1>13, ZenonT(60)
  <1>15. g[n] \in W[n]
    <2>1. g[0] \in W[0]
      BY <1>3, <1>14
    <2>2. \A k \in 1..n : g[k - 1] \in W[k - 1] => g[k] \in W[k]
      BY <1>4, <1>14
    <2>3. \A k \in 0..n : g[k] \in W[k]
      BY <1>1, <2>1, <2>2, LoopStays
    <2> QED BY <2>3, <1>1
  <1>16. Neighbours(t, p) = g[n].out
    BY <1>12 DEF Neighbours, NeighboursStep, n
  <1> QED BY <1>6, <1>15, <1>16

-----------------------------------------------------------------------------
(* The k nearest *)

LEMMA LesserIs ==
  ASSUME NEW a \in Int, NEW b \in Int
  PROVE  Min({a, b}) = (IF a <= b THEN a ELSE b) /\ Max({a, b}) = (IF a <= b THEN b ELSE a)
  <1>1. {a, b} \in SUBSET Int /\ {a, b} # {} /\ IsFiniteSet({a, b})
    <2>1. IsFiniteSet({a})
      BY FS_Singleton
    <2>2. {a} \cup {b} = {a, b}
      OBVIOUS
    <2>3. IsFiniteSet({a} \cup {b})
      BY <2>1, FS_AddElement
    <2> QED BY <2>2, <2>3
  <1>2. Min({a, b}) \in {a, b} /\ \A y \in {a, b} : Min({a, b}) <= y
    BY <1>1, MinIs
  <1>3. Max({a, b}) \in {a, b} /\ \A y \in {a, b} : y <= Max({a, b})
    BY <1>1, MaxIs
  <1>4. PICK x, y : x = Min({a, b}) /\ y = Max({a, b})
    OBVIOUS
  <1>5. (x = a \/ x = b) /\ x <= a /\ x <= b
    BY <1>2, <1>4
  <1>6. (y = a \/ y = b) /\ a <= y /\ b <= y
    BY <1>3, <1>4
  <1> QED BY <1>4, <1>5, <1>6

\* Sequence r is s from place a to place b.
Piece(X, s, a, b, r) ==
  /\ r \in Seq(X) /\ Len(r) = b + 1 - a
  /\ \A i \in 1..(b + 1 - a) : r[i] = s[a + i - 1] /\ a + i - 1 \in 1..Len(s)
  /\ ToSet(r) \subseteq ToSet(s) /\ (IsInjective(s) => IsInjective(r))
  /\ \A j \in a..b : s[j] \in ToSet(r)

LEMMA PieceIs ==
  ASSUME NEW X, NEW s \in Seq(X), NEW a \in Nat \ {0}, NEW b \in Nat, b <= Len(s), a <= b + 1
  PROVE  Piece(X, s, a, b, SubSeq(s, a, b))
  <1>0. PICK r : r = SubSeq(s, a, b)
    OBVIOUS
  <1>1. PICK n \in Nat : n = Len(s)
    BY SeqIs
  <1>2. DOMAIN s = 1..n /\ (\A i \in 1..n : s[i] \in X) /\ ToSet(s) = {s[i] : i \in 1..n}
    BY <1>1, SeqIs
  <1>3. \A i \in a..b : s[i] \in X
    BY <1>1, <1>2
  <1>4. /\ SubSeq(s, a, b) \in Seq(X) /\ Len(SubSeq(s, a, b)) = IF a <= b THEN b - a + 1 ELSE 0
        /\ \A i \in 1..(b - a + 1) : SubSeq(s, a, b)[i] = s[a + i - 1]
    BY <1>3, SubSeqProperties
  <1>5. PICK m \in Nat : m = b + 1 - a
    OBVIOUS
  <1>6. r \in Seq(X) /\ Len(r) = m /\ \A i \in 1..m : r[i] = s[a + i - 1] /\ a + i - 1 \in 1..n
    <2>1. r \in Seq(X)
      BY <1>0, <1>4
    <2>2. Len(r) = m
      BY <1>0, <1>4, <1>5
    <2>3. \A i \in 1..m : r[i] = s[a + i - 1]
      BY <1>0, <1>4, <1>5
    <2>4. \A i \in 1..m : a + i - 1 \in 1..n
      BY <1>1, <1>5
    <2> QED BY <2>1, <2>2, <2>3, <2>4
  <1>7. DOMAIN r = 1..m /\ ToSet(r) = {r[i] : i \in 1..m}
    BY <1>6, SeqIs
  <1>8. ToSet(r) \subseteq ToSet(s)
    BY <1>2, <1>6, <1>7
  <1>9. ASSUME IsInjective(s)
        PROVE  IsInjective(r)
    <2>1. \A i, j \in 1..n : s[i] = s[j] => i = j
      BY <1>2, <1>9 DEF IsInjective
    <2>2. \A i, j \in 1..m : r[i] = r[j] => i = j
      <3> SUFFICES ASSUME NEW i \in 1..m, NEW j \in 1..m, r[i] = r[j]
                   PROVE  i = j
        OBVIOUS
      <3>1. s[a + i - 1] = s[a + j - 1] /\ a + i - 1 \in 1..n /\ a + j - 1 \in 1..n
        BY <1>6
      <3>2. a + i - 1 = a + j - 1
        BY <3>1, <2>1
      <3> QED BY <3>2
    <2> QED BY <2>2, <1>7 DEF IsInjective
  <1>10. \A j \in a..b : s[j] \in ToSet(r)
    <2> SUFFICES ASSUME NEW j \in a..b
                 PROVE  s[j] \in ToSet(r)
      OBVIOUS
    <2>1. PICK i : i = j + 1 - a
      OBVIOUS
    <2>2. i \in 1..m /\ a + i - 1 = j
      BY <2>1, <1>5
    <2>3. r[i] = s[j]
      BY <2>2, <1>6
    <2> QED BY <2>2, <2>3, <1>7
  <1> QED BY <1>0, <1>1, <1>5, <1>6, <1>8, <1>9, <1>10 DEF Piece

\* Sequence r is the first m of the ranked stream s.
Foremost(p, s, m, r) ==
  /\ r \in Seq(Int) /\ Len(r) = m /\ IsInjective(r) /\ ToSet(r) \subseteq ToSet(s)
  /\ \A i \in 1..m : r[i] = s[i]
  /\ \A i, j \in 1..m : i < j => DistanceTo(p, r[i]) <= DistanceTo(p, r[j])
  /\ \A i \in 1..m, o \in ToSet(s) \ ToSet(r) : DistanceTo(p, r[i]) <= DistanceTo(p, o)

LEMMA FirstRanked ==
  ASSUME NEW A, NEW p, NEW s, Ranked(A, p, s), NEW m \in Nat, m <= Len(s)
  PROVE  Foremost(p, s, m, SubSeq(s, 1, m))
  <1>0. PICK r : r = SubSeq(s, 1, m)
    OBVIOUS
  <1>1. s \in Seq(Int) /\ IsInjective(s) /\ \A i, j \in 1..Len(s) : i < j => DistanceTo(p, s[i]) <= DistanceTo(p, s[j])
    BY DEF Ranked
  <1>2. PICK n \in Nat : n = Len(s)
    BY <1>1, SeqIs
  <1>3. Piece(Int, s, 1, m, r)
    <2>1. 1 \in Nat \ {0} /\ 1 <= m + 1
      OBVIOUS
    <2> QED BY <2>1, <1>0, <1>1, PieceIs
  <1>4. /\ r \in Seq(Int) /\ Len(r) = m /\ (\A i \in 1..m : r[i] = s[i])
        /\ ToSet(r) \subseteq ToSet(s) /\ IsInjective(r) /\ \A j \in 1..m : s[j] \in ToSet(r)
    <2>1. m + 1 - 1 = m /\ \A i \in 1..m : 1 + i - 1 = i
      OBVIOUS
    <2>2. Len(r) = m + 1 - 1 /\ \A i \in 1..(m + 1 - 1) : r[i] = s[1 + i - 1]
      BY <1>3 DEF Piece
    <2>3. Len(r) = m /\ \A i \in 1..m : r[i] = s[i]
      BY <2>1, <2>2
    <2> QED BY <2>3, <1>1, <1>3 DEF Piece
  <1>5. \A i, j \in 1..m : i < j => DistanceTo(p, r[i]) <= DistanceTo(p, r[j])
    <2>1. \A i \in 1..m : i \in 1..n
      BY <1>2
    <2> QED BY <2>1, <1>1, <1>2, <1>4
  <1>6. ASSUME NEW i \in 1..m, NEW o \in ToSet(s) \ ToSet(r)
        PROVE  DistanceTo(p, r[i]) <= DistanceTo(p, o)
    <2>1. PICK j \in 1..n : s[j] = o
      BY <1>1, <1>2, SetIndex
    <2>2. j \notin 1..m
      BY <2>1, <1>4
    <2>3. i < j /\ i \in 1..n
      BY <2>1, <2>2, <1>2
    <2> QED BY <2>1, <2>3, <1>1, <1>2, <1>4
  <1> QED BY <1>0, <1>4, <1>5, <1>6 DEF Foremost

LEMMA CountIs ==
  ASSUME NEW A, NEW p, NEW s, Ranked(A, p, s), NEW P, P = {o \in A : IsData(o)}
  PROVE  Len(s) = Cardinality(P) /\ Len(s) \in Nat /\ ToSet(s) = P
  <1>1. s \in Seq(Int) /\ IsInjective(s) /\ ToSet(s) = P
    BY DEF Ranked
  <1> QED BY <1>1, LenSet, SeqIs

\* What NearestNeighboursPQ answers.
Nearest(P, p, k, s, all) ==
  /\ Len(s) = Min({k, Cardinality(P)})
  /\ IsInjective(s) /\ ToSet(s) \subseteq P
  /\ \A i, j \in DOMAIN s : i < j => DistanceTo(p, s[i]) <= DistanceTo(p, s[j])
  /\ \A i \in DOMAIN s, o \in P \ ToSet(s) : DistanceTo(p, s[i]) <= DistanceTo(p, o)
  /\ s # <<>> => Head(all) = s[1]

LEMMA NearestIs ==
  ASSUME NEW t, NEW A, NEW p, Ranked(A, p, Neighbours(t, p)), NEW P, P = {o \in A : IsData(o)},
         t.size = Cardinality(P), NEW k \in Nat \ {0}
  PROVE  Nearest(P, p, k, NearestNeighboursPQ(t, k, p), Neighbours(t, p))
  <1>1. PICK s, r : s = Neighbours(t, p) /\ r = NearestNeighboursPQ(t, k, p)
    OBVIOUS
  <1>2. PICK c \in Nat : c = Cardinality(P) /\ Len(s) = c
    BY <1>1, CountIs
  <1>3. PICK h : h = (IF c > k THEN k ELSE c)
    OBVIOUS
  <1>4. PICK n : n = Max({1, h})
    OBVIOUS
  <1>5. PICK m : m = Min({n, c})
    OBVIOUS
  <1>6. r = SubSeq(s, 1, m)
    BY <1>1, <1>2, <1>3, <1>4, <1>5 DEF NearestNeighboursPQ
  <1>7. h \in Nat /\ n = (IF 1 <= h THEN h ELSE 1)
    <2>1. h \in Nat
      BY <1>3
    <2>2. Max({1, h}) = (IF 1 <= h THEN h ELSE 1)
      <3>1. 1 \in Int /\ h \in Int
        BY <2>1
      <3> QED BY <3>1, LesserIs
    <2> QED BY <2>1, <2>2, <1>4
  <1>8. m = (IF n <= c THEN n ELSE c)
    BY <1>5, <1>7, LesserIs
  <1>9. Min({k, c}) = (IF k <= c THEN k ELSE c)
    BY LesserIs
  <1>10. m = Min({k, c}) /\ m \in Nat /\ m <= c
    BY <1>3, <1>7, <1>8, <1>9
  <1>11. /\ r \in Seq(Int) /\ Len(r) = m /\ IsInjective(r) /\ ToSet(r) \subseteq ToSet(s)
         /\ (\A i \in 1..m : r[i] = s[i])
         /\ (\A i, j \in 1..m : i < j => DistanceTo(p, r[i]) <= DistanceTo(p, r[j]))
         /\ \A i \in 1..m, o \in ToSet(s) \ ToSet(r) : DistanceTo(p, r[i]) <= DistanceTo(p, o)
    <2>1. Ranked(A, p, s) /\ m <= Len(s) /\ m \in Nat
      BY <1>1, <1>2, <1>10
    <2>2. Foremost(p, s, m, r)
      BY <2>1, <1>6, FirstRanked
    <2> QED BY <2>2 DEF Foremost
  <1>12. ToSet(s) = P /\ DOMAIN r = 1..m /\ s \in Seq(Int)
    <2>1. ToSet(s) = P
      BY <1>1, CountIs
    <2>2. DOMAIN r = 1..m
      BY <1>11, SeqIs
    <2> QED BY <2>1, <2>2, <1>1 DEF Ranked
  <1>13. r # <<>> => Head(s) = r[1]
    <2> SUFFICES ASSUME r # <<>>
                 PROVE  Head(s) = r[1]
      OBVIOUS
    <2>1. m # 0
      BY <1>11, SeqIs
    <2>2. 1 \in 1..m
      BY <2>1, <1>10
    <2>3. Head(s) = s[1]
      BY <1>12 DEF Head
    <2> QED BY <2>2, <2>3, <1>11
  <1> QED BY <1>1, <1>2, <1>10, <1>11, <1>12, <1>13 DEF Nearest

(* The place nearest among those around *)

AroundBox(p) == [a \in Axes |-> <<p[a] - Span, p[a] + Span>>]

LEMMA AroundBoxIs ==
  ASSUME NEW p \in [Axes -> Int]
  PROVE  AroundBox(p) \in BoxSet
  <1>1. Span \in Int
    BY QueryAssumption
  <1>2. \A a \in Axes : p[a] - Span \in Int /\ p[a] + Span \in Int
    BY <1>1
  <1> QED BY <1>2 DEF AroundBox, BoxSet

\* The distance to a boundary is one of the distances to its sides.
LEMMA DistanceToOsmWayIs ==
  ASSUME NEW t, NEW A, NEW lv, NEW c, Asked(t, A, lv, c), NEW p \in Points, NEW o \in A, IsData(o)
  PROVE  DistanceToOsmWay(p, o) \in Nat
  <1>1. p \in [Axes -> Int] /\ map \in Maps /\ o \in DOMAIN map
    BY QueryAssumption DEF Asked
  <1>2. PICK line \in Seq([Axes -> Int]) : line = map[o].line
    BY <1>1, QueryAssumption
  <1>3. PICK n \in Nat : n = Len(line) /\ DOMAIN line = 1..n
    BY SeqIs
  <1>4. CASE line = <<>>
    <2>1. DistanceTo(p, o) \in Nat
      BY <1>1, DistanceToIs
    <2> QED BY <2>1, <1>2, <1>4 DEF DistanceToOsmWay
  <1>5. CASE line # <<>>
    <2>1. PICK d : d = [i \in 1..n |-> Distance(p, Foot(line, i, p))]
      OBVIOUS
    <2>2. PICK D : D = {d[i] : i \in 1..n}
      OBVIOUS
    <2>3. \A i \in 1..n : d[i] \in Nat
      <3> SUFFICES ASSUME NEW i \in 1..n
                   PROVE  Distance(p, Foot(line, i, p)) \in Nat
        BY <2>1
      <3>1. Foot(line, i, p) \in [Axes -> Int]
        BY <1>1, <1>2, <1>3, QueryAssumption
      <3> QED BY <3>1, <1>1, DistanceIs
    <2>4. n # 0
      BY <1>3, <1>5
    <2>5. D \in SUBSET Nat /\ D # {}
      BY <2>2, <2>3, <2>4
    <2>6. PICK m \in D : \A x \in D : m <= x
      BY <2>5, LeastNat
    <2>7. Min(D) \in D
      BY <2>6 DEF Min
    <2>8. D = {Distance(p, Foot(line, i, p)) : i \in DOMAIN line}
      BY <2>1, <2>2, <1>3
    <2> QED BY <2>5, <2>7, <2>8, <1>2, <1>5 DEF DistanceToOsmWay
  <1> QED BY <1>4, <1>5

LEMMA ReverseIs ==
  ASSUME NEW t, NEW A, NEW lv, NEW c, Asked(t, A, lv, c), NEW p \in Points, Desc(t, t.root) = A,
         NEW S, S = {o \in A : IsData(o) /\ Overlaps(Bound(t, o), AroundBox(p))}
  PROVE  IF S = {} THEN ReverseGeocoding(t, p) = Nil
         ELSE /\ ReverseGeocoding(t, p) \in S
              /\ \A x \in S : DistanceToOsmWay(p, ReverseGeocoding(t, p)) <= DistanceToOsmWay(p, x)
  <1>1. PICK b : b = AroundBox(p)
    OBVIOUS
  <1>2. b \in BoxSet
    BY <1>1, AroundBoxIs, QueryAssumption
  <1>3. PICK s : s = Search(t, b)
    OBVIOUS
  <1>4. Settled(t, A, lv, c) /\ ~ t.twin
    BY DEF Asked
  <1>5. Sees(t, b, t.root, s) /\ s \in Seq(Int)
    BY <1>2, <1>3, <1>4, SearchIs
  <1>6. ToSet(s) = S
    BY <1>1, <1>5 DEF Sees
  <1>7. PICK n \in Nat : n = Len(s)
    BY <1>5, SeqIs
  <1>8. DOMAIN s = 1..n /\ ToSet(s) = {s[i] : i \in 1..n} /\ (s = <<>> <=> n = 0) /\ (ToSet(s) = {} <=> n = 0)
    BY <1>5, <1>7, SeqIs
  <1>9. PICK v : v = [i \in 1..n |-> DistanceToOsmWay(p, s[i])]
    OBVIOUS
  <1>10. v \in [1..n -> Int]
    <2>1. \A i \in 1..n : DistanceToOsmWay(p, s[i]) \in Int
      <3> SUFFICES ASSUME NEW i \in 1..n
                   PROVE  DistanceToOsmWay(p, s[i]) \in Int
        OBVIOUS
      <3>1. s[i] \in A /\ IsData(s[i])
        BY <1>6, <1>8
      <3>2. DistanceToOsmWay(p, s[i]) \in Nat
        BY <3>1, DistanceToOsmWayIs
      <3> QED BY <3>2
    <2> QED BY <2>1, <1>9
  <1>11. PICK I : I = {i \in 1..n : \A j \in 1..n : v[i] <= v[j]}
    OBVIOUS
  <1>12. I = {i \in DOMAIN s : \A j \in DOMAIN s : DistanceToOsmWay(p, s[i]) <= DistanceToOsmWay(p, s[j])}
    BY <1>8, <1>9, <1>11
  <1>13. ReverseGeocoding(t, p) = IF s = <<>> THEN Nil ELSE s[Min(I)]
    BY <1>1, <1>3, <1>12 DEF ReverseGeocoding, AroundBox
  <1>14. CASE n = 0
    BY <1>6, <1>8, <1>13, <1>14
  <1>15. CASE n # 0
    <2>1. n \in Nat \ {0}
      BY <1>15
    <2>2. Min(I) \in I
      BY <2>1, <1>10, <1>11, FirstSmallest
    <2>3. PICK i \in 1..n : i = Min(I) /\ \A j \in 1..n : v[i] <= v[j]
      BY <2>2, <1>11
    <2>4. ReverseGeocoding(t, p) = s[i] /\ s[i] \in S /\ S # {}
      BY <2>3, <1>6, <1>8, <1>13, <1>15
    <2>5. \A x \in S : DistanceToOsmWay(p, s[i]) <= DistanceToOsmWay(p, x)
      <3> SUFFICES ASSUME NEW x \in S
                   PROVE  DistanceToOsmWay(p, s[i]) <= DistanceToOsmWay(p, x)
        OBVIOUS
      <3>1. PICK j \in 1..n : s[j] = x
        BY <1>6, <1>8
      <3>2. v[i] <= v[j] /\ v[i] = DistanceToOsmWay(p, s[i]) /\ v[j] = DistanceToOsmWay(p, s[j])
        BY <2>3, <1>9
      <3> QED BY <3>1, <3>2
    <2> QED BY <2>4, <2>5
  <1> QED BY <1>14, <1>15

LEMMA RInvAsked ==
  ASSUME RInv, Sound, ~ IsData(tree.root)
  PROVE  \E A, lv, c : /\ Asked(tree, A, lv, c) /\ Desc(tree, tree.root) = A
                       /\ present = {o \in A : IsData(o)} /\ tree.size = Cardinality(present)
  <1>1. ~ tree.twin /\ ~ tree.tied /\ ~ tree.lopped
    BY DEF Sound
  <1>2. PICK A, lv, c : Holding(tree, map, present, A, lv, c)
    BY DEF RInv, Lone, Holds
  <1>3. /\ Settled(tree, A, lv, c) /\ {o \in A : IsData(o)} = present /\ tree.size = Cardinality(present)
        /\ \A o \in A : IsData(o) => o \in DOMAIN map /\ Bound(tree, o) = map[o].box
    BY <1>1, <1>2 DEF Holding
  <1>4. Desc(tree, tree.root) = A
    BY <1>1, <1>3, DescRoot DEF Settled, Whole
  <1>5. Asked(tree, A, lv, c)
    BY <1>1, <1>3 DEF Asked, RInv, MapInv
  <1> QED BY <1>3, <1>4, <1>5

LEMMA RInvNearestExact ==
  ASSUME RInv
  PROVE  NearestExact
  <1> SUFFICES ASSUME Sound, ~ IsData(tree.root), NEW p \in Points, NEW k \in 1..MaxCount
               PROVE  LET s == NearestNeighboursPQ(tree, k, p)
                      IN  /\ Len(s) = Min({k, Cardinality(present)})
                          /\ IsInjective(s) /\ ToSet(s) \subseteq present
                          /\ \A i, j \in DOMAIN s : i < j => DistanceTo(p, s[i]) <= DistanceTo(p, s[j])
                          /\ \A i \in DOMAIN s, o \in present \ ToSet(s) :
                               DistanceTo(p, s[i]) <= DistanceTo(p, o)
                          /\ s # <<>> => DistanceTo(p, ImprovedNearestNeighbor(tree, p)) = DistanceTo(p, s[1])
                          /\ LET o == ReverseGeocoding(tree, p)
                             IN  IF Around(p) = {} THEN o = Nil
                                 ELSE /\ o \in Around(p)
                                      /\ \A x \in Around(p) : DistanceToOsmWay(p, o) <= DistanceToOsmWay(p, x)
    BY DEF NearestExact
  <1>1. p \in [Axes -> Int] /\ k \in Nat \ {0}
    BY QueryAssumption
  <1>2. PICK A, lv, c : /\ Asked(tree, A, lv, c) /\ Desc(tree, tree.root) = A
                        /\ present = {o \in A : IsData(o)} /\ tree.size = Cardinality(present)
    BY RInvAsked
  <1>3. Ranked(A, p, Neighbours(tree, p))
    BY <1>1, <1>2, NeighboursAre
  <1>4. PICK s, all, g : s = NearestNeighboursPQ(tree, k, p) /\ all = Neighbours(tree, p) /\ g = ReverseGeocoding(tree, p)
    OBVIOUS
  <1>5. Nearest(present, p, k, s, all)
    BY <1>1, <1>2, <1>3, <1>4, NearestIs
  <1>6. ImprovedNearestNeighbor(tree, p) = Head(all)
    BY <1>4 DEF ImprovedNearestNeighbor
  <1>7. PICK S : S = {o \in A : IsData(o) /\ Overlaps(Bound(tree, o), AroundBox(p))}
    OBVIOUS
  <1>8. S = Around(p)
    BY <1>2, <1>7 DEF Around, AroundBox, Asked
  <1>9. IF S = {} THEN g = Nil ELSE g \in S /\ \A x \in S : DistanceToOsmWay(p, g) <= DistanceToOsmWay(p, x)
    BY <1>1, <1>2, <1>4, <1>7, ReverseIs
  <1>10. /\ Len(s) = Min({k, Cardinality(present)})
         /\ IsInjective(s) /\ ToSet(s) \subseteq present
         /\ (\A i, j \in DOMAIN s : i < j => DistanceTo(p, s[i]) <= DistanceTo(p, s[j]))
         /\ (\A i \in DOMAIN s, o \in present \ ToSet(s) : DistanceTo(p, s[i]) <= DistanceTo(p, o))
         /\ (s # <<>> => Head(all) = s[1])
    BY <1>5 DEF Nearest
  <1>11. s # <<>> => DistanceTo(p, ImprovedNearestNeighbor(tree, p)) = DistanceTo(p, s[1])
    BY <1>6, <1>10
  <1>12. IF Around(p) = {} THEN g = Nil
         ELSE g \in Around(p) /\ \A x \in Around(p) : DistanceToOsmWay(p, g) <= DistanceToOsmWay(p, x)
    BY <1>8, <1>9
  <1> QED BY <1>4, <1>10, <1>11, <1>12

-----------------------------------------------------------------------------
(* Pages of a sequence *)

LEMMA PieceEqual ==
  ASSUME NEW X, NEW s \in Seq(X), NEW a \in Nat \ {0}, NEW b \in Nat, b <= Len(s), a <= b + 1,
         NEW x \in Seq(X), Len(x) = b + 1 - a, \A i \in 1..(b + 1 - a) : x[i] = s[a + i - 1]
  PROVE  x = SubSeq(s, a, b)
  <1>1. PICK r : r = SubSeq(s, a, b)
    OBVIOUS
  <1>2. Piece(X, s, a, b, r)
    BY <1>1, PieceIs
  <1>3. r \in Seq(X) /\ Len(r) = Len(x) /\ \A i \in 1..Len(x) : x[i] = r[i]
    BY <1>2 DEF Piece
  <1>4. x = r
    BY <1>3, SeqEqual
  <1> QED BY <1>1, <1>4

LEMMA PieceJoined ==
  ASSUME NEW X, NEW s \in Seq(X), NEW a \in Nat, NEW b \in Nat, a <= b, b <= Len(s)
  PROVE  SubSeq(s, 1, a) \o SubSeq(s, a + 1, b) = SubSeq(s, 1, b)
  <1>1. PICK q, r : q = SubSeq(s, 1, a) /\ r = SubSeq(s, a + 1, b)
    OBVIOUS
  <1>2. PICK n \in Nat : n = Len(s)
    BY SeqIs
  <1>3. Piece(X, s, 1, a, q)
    <2>1. 1 \in Nat \ {0} /\ 1 <= a + 1 /\ a <= Len(s)
      BY <1>2
    <2> QED BY <2>1, <1>1, PieceIs
  <1>4. Piece(X, s, a + 1, b, r)
    <2>1. a + 1 \in Nat \ {0} /\ a + 1 <= b + 1
      OBVIOUS
    <2> QED BY <2>1, <1>1, PieceIs
  <1>5. q \in Seq(X) /\ Len(q) = a /\ \A i \in 1..a : q[i] = s[i]
    <2>1. a + 1 - 1 = a /\ \A i \in 1..a : 1 + i - 1 = i
      OBVIOUS
    <2>2. q \in Seq(X) /\ Len(q) = a + 1 - 1 /\ \A i \in 1..(a + 1 - 1) : q[i] = s[1 + i - 1]
      BY <1>3 DEF Piece
    <2> QED BY <2>1, <2>2
  <1>6. r \in Seq(X) /\ Len(r) = b - a /\ \A i \in 1..(b - a) : r[i] = s[a + i]
    <2>1. b + 1 - (a + 1) = b - a /\ \A i \in 1..(b - a) : a + 1 + i - 1 = a + i
      OBVIOUS
    <2>2. r \in Seq(X) /\ Len(r) = b + 1 - (a + 1) /\ \A i \in 1..(b + 1 - (a + 1)) : r[i] = s[a + 1 + i - 1]
      BY <1>4 DEF Piece
    <2> QED BY <2>1, <2>2
  <1>7. PICK x : x = q \o r
    OBVIOUS
  <1>8. x \in Seq(X) /\ Len(x) = a + (b - a) /\ \A i \in 1..(a + (b - a)) : x[i] = IF i <= a THEN q[i] ELSE r[i - a]
    <2>1. /\ q \o r \in Seq(X) /\ Len(q \o r) = Len(q) + Len(r)
          /\ \A i \in 1..(Len(q) + Len(r)) : (q \o r)[i] = IF i <= Len(q) THEN q[i] ELSE r[i - Len(q)]
      BY <1>5, <1>6, ConcatProperties, ZenonT(60)
    <2>2. /\ x \in Seq(X) /\ Len(x) = Len(q) + Len(r)
          /\ \A i \in 1..(Len(q) + Len(r)) : x[i] = IF i <= Len(q) THEN q[i] ELSE r[i - Len(q)]
      BY <2>1, <1>7
    <2>3. Len(q) = a /\ Len(r) = b - a
      BY <1>5, <1>6
    <2> QED BY <2>2, <2>3
  <1>9. \A i \in 1..b : x[i] = s[i]
    <2> SUFFICES ASSUME NEW i \in 1..b
                 PROVE  x[i] = s[i]
      OBVIOUS
    <2>1. i \in 1..(a + (b - a))
      OBVIOUS
    <2>2. CASE i <= a
      <3>1. i \in 1..a
        BY <2>2
      <3> QED BY <3>1, <2>1, <2>2, <1>5, <1>8
    <2>3. CASE ~ (i <= a)
      <3>1. i - a \in 1..(b - a) /\ a + (i - a) = i
        BY <2>3
      <3> QED BY <3>1, <2>1, <2>3, <1>6, <1>8
    <2> QED BY <2>2, <2>3
  <1>10. Len(x) = b + 1 - 1 /\ \A i \in 1..(b + 1 - 1) : x[i] = s[1 + i - 1]
    <2>1. a + (b - a) = b /\ b + 1 - 1 = b /\ \A i \in 1..b : 1 + i - 1 = i
      OBVIOUS
    <2> QED BY <2>1, <1>8, <1>9
  <1>11. x = SubSeq(s, 1, b)
    <2>1. 1 \in Nat \ {0} /\ 1 <= b + 1
      OBVIOUS
    <2> QED BY <2>1, <1>8, <1>10, PieceEqual
  <1> QED BY <1>1, <1>7, <1>11

\* The first m of what follows place a.
LEMMA PieceAfter ==
  ASSUME NEW X, NEW s \in Seq(X), NEW a \in Nat, NEW m \in Nat, a + m <= Len(s)
  PROVE  SubSeq(SubSeq(s, a + 1, Len(s)), 1, m) = SubSeq(s, a + 1, a + m)
  <1>1. PICK n \in Nat : n = Len(s)
    BY SeqIs
  <1>2. PICK q : q = SubSeq(s, a + 1, n)
    OBVIOUS
  <1>3. PICK x : x = SubSeq(q, 1, m)
    OBVIOUS
  <1>4. Piece(X, s, a + 1, n, q)
    <2>1. a + 1 \in Nat \ {0} /\ a + 1 <= n + 1 /\ n <= Len(s)
      BY <1>1
    <2> QED BY <2>1, <1>2, PieceIs
  <1>5. q \in Seq(X) /\ Len(q) = n - a /\ \A i \in 1..(n - a) : q[i] = s[a + i]
    <2>1. n + 1 - (a + 1) = n - a /\ \A i \in 1..(n - a) : a + 1 + i - 1 = a + i
      OBVIOUS
    <2>2. q \in Seq(X) /\ Len(q) = n + 1 - (a + 1) /\ \A i \in 1..(n + 1 - (a + 1)) : q[i] = s[a + 1 + i - 1]
      BY <1>4 DEF Piece
    <2> QED BY <2>1, <2>2
  <1>6. Piece(X, q, 1, m, x)
    <2>1. 1 \in Nat \ {0} /\ 1 <= m + 1 /\ m <= Len(q)
      BY <1>1, <1>5
    <2> QED BY <2>1, <1>3, <1>5, PieceIs
  <1>7. x \in Seq(X) /\ Len(x) = m /\ \A i \in 1..m : x[i] = q[i]
    <2>1. m + 1 - 1 = m /\ \A i \in 1..m : 1 + i - 1 = i
      OBVIOUS
    <2>2. x \in Seq(X) /\ Len(x) = m + 1 - 1 /\ \A i \in 1..(m + 1 - 1) : x[i] = q[1 + i - 1]
      BY <1>6 DEF Piece
    <2> QED BY <2>1, <2>2
  <1>8. \A i \in 1..m : x[i] = s[a + i]
    <2>1. \A i \in 1..m : i \in 1..(n - a)
      BY <1>1
    <2> QED BY <2>1, <1>5, <1>7
  <1>9. Len(x) = (a + m) + 1 - (a + 1) /\ \A i \in 1..((a + m) + 1 - (a + 1)) : x[i] = s[(a + 1) + i - 1]
    <2>1. (a + m) + 1 - (a + 1) = m /\ \A i \in 1..m : (a + 1) + i - 1 = a + i
      OBVIOUS
    <2> QED BY <2>1, <1>7, <1>8
  <1>10. x = SubSeq(s, a + 1, a + m)
    <2>1. a + 1 \in Nat \ {0} /\ a + m \in Nat /\ a + 1 <= (a + m) + 1
      OBVIOUS
    <2> QED BY <2>1, <1>7, <1>9, PieceEqual
  <1> QED BY <1>1, <1>2, <1>3, <1>10

\* acc is what the first of the sequences ss give put together.
Sums(ss, l, acc) ==
  /\ Len(ss) = l /\ acc[1] = ss[1] /\ acc = [k \in 1..l |-> acc[k]]
  /\ \A k \in 2..l : acc[k] = acc[k - 1] \o ss[k]

LEMMA FlattenAlong ==
  ASSUME NEW l \in Nat \ {0}, NEW ss, NEW acc, Sums(ss, l, acc)
  PROVE  FlattenSeq(ss) = acc[l]
  <1>0. /\ Len(ss) = l /\ acc[1] = ss[1] /\ acc = [k \in 1..l |-> acc[k]]
        /\ \A k \in 2..l : acc[k] = acc[k - 1] \o ss[k]
    BY DEF Sums
  <1>1. acc = FlattenStep(ss, acc)
    <2>1. \A k \in 1..l : k = 1 \/ k \in 2..l
      OBVIOUS
    <2>2. \A k \in 1..l : acc[k] = IF k = 1 THEN ss[k] ELSE acc[k - 1] \o ss[k]
      BY <2>1, <1>0
    <2>3. acc = [k \in 1..l |-> IF k = 1 THEN ss[k] ELSE acc[k - 1] \o ss[k]]
      BY <2>2, <1>0
    <2> QED BY <2>3, <1>0 DEF FlattenStep
  <1>2. PICK h : h = Flattened(ss)
    OBVIOUS
  <1>3. h = FlattenStep(ss, h)
    BY <1>1, <1>2 DEF Flattened
  <1>4. \A k \in 1..l : h[k] = IF k = 1 THEN ss[k] ELSE h[k - 1] \o ss[k]
    <2>1. h = [k \in 1..l |-> IF k = 1 THEN ss[k] ELSE h[k - 1] \o ss[k]]
      BY <1>0, <1>3 DEF FlattenStep
    <2> QED BY <2>1
  <1> DEFINE W == [k \in 1..l |-> {acc[k]}]
  <1>5. 1 \in 1..l /\ l \in 1..l /\ \A k \in 2..l : k \in 1..l /\ k - 1 \in 1..l /\ k # 1
    OBVIOUS
  <1>6. h[1] \in W[1]
    BY <1>0, <1>4, <1>5
  <1>7. \A k \in 2..l : h[k - 1] \in W[k - 1] => h[k] \in W[k]
    <2> SUFFICES ASSUME NEW k \in 2..l, h[k - 1] \in W[k - 1]
                 PROVE  h[k] \in W[k]
      OBVIOUS
    <2>1. h[k - 1] = acc[k - 1]
      BY <1>5
    <2>2. h[k] = h[k - 1] \o ss[k] /\ acc[k] = acc[k - 1] \o ss[k]
      BY <1>0, <1>4, <1>5
    <2>3. h[k] = acc[k] /\ k \in 1..l
      BY <2>1, <2>2, <1>5
    <2> QED BY <2>3
  <1>8. h[l] = acc[l]
    <2> HIDE DEF W
    <2>1. \A k \in 1..l : h[k] \in W[k]
      BY <1>6, <1>7, Loop1Stays
    <2> QED BY <2>1, <1>5 DEF W
  <1>9. FlattenSeq(ss) = h[l]
    BY <1>0, <1>2 DEF FlattenSeq, Flattened, FlattenStep
  <1> QED BY <1>8, <1>9

-----------------------------------------------------------------------------
LEMMA DivIs ==
  ASSUME NEW a \in Nat, NEW k \in Nat \ {0}
  PROVE  a \div k \in Nat /\ (a \div k) * k <= a /\ a < (a \div k) * k + k
  OBVIOUS

\* It takes n pages of k to hold c, and no fewer.
Paged(c, k, n) ==
  /\ n \in Nat /\ (c = 0 => n = 0) /\ (c # 0 => n # 0) /\ c <= n * k
  /\ \A i \in 0..(n - 1) : i * k \in Nat /\ i * k < c /\ (i + 1) * k = i * k + k

LEMMA PageCount ==
  ASSUME NEW c \in Nat, NEW k \in Nat \ {0}
  PROVE  Paged(c, k, (c + k - 1) \div k)
  <1>0. PICK n : n = (c + k - 1) \div k
    OBVIOUS
  <1>1. PICK a \in Nat : a = c + k - 1
    OBVIOUS
  <1>2. PICK m \in Nat : m = n * k /\ n \in Nat /\ m <= a /\ a < m + k
    <2>1. n \in Nat /\ n * k <= a /\ a < n * k + k
      BY <1>0, <1>1, DivIs
    <2>2. n * k \in Nat
      BY <2>1
    <2> QED BY <2>1, <2>2
  <1>3. c <= m /\ m <= c + k - 1
    BY <1>1, <1>2
  <1>4. \A i \in Nat : i * k \in Nat /\ (i + 1) * k = i * k + k
    OBVIOUS
  <1>5. n # 0 => k <= m
    <2> SUFFICES ASSUME n # 0
                 PROVE  k <= m
      OBVIOUS
    <2>1. n - 1 \in Nat /\ (n - 1) + 1 = n
      BY <1>2
    <2>2. (n - 1) * k \in Nat /\ n * k = (n - 1) * k + k
      BY <2>1, <1>4
    <2>3. PICK d \in Nat : d = (n - 1) * k
      BY <2>2
    <2> QED BY <2>2, <2>3, <1>2
  <1>6. c = 0 => n = 0
    BY <1>3, <1>5
  <1>7. c # 0 => n # 0
    <2>1. n = 0 => m = 0
      BY <1>2
    <2> QED BY <2>1, <1>3
  <1>8. ASSUME NEW i \in 0..(n - 1)
        PROVE  i * k \in Nat /\ i * k < c /\ (i + 1) * k = i * k + k
    <2>1. i \in Nat /\ i + 1 \in Nat /\ n - (i + 1) \in Nat /\ n = (i + 1) + (n - (i + 1))
      BY <1>2
    <2>2. PICK j, e \in Nat : j = i + 1 /\ e = n - (i + 1)
      BY <2>1
    <2>3. j \in Nat /\ n = j + e
      BY <2>1, <2>2
    <2>4. n * k = j * k + e * k /\ e * k \in Nat /\ j * k \in Nat
      BY <2>3
    <2>5. i * k \in Nat /\ j * k = i * k + k
      BY <2>1, <2>2, <1>4
    <2>6. PICK x \in Nat, y \in Nat : x = i * k /\ y = e * k
      BY <2>4, <2>5
    <2>7. m = x + k + y
      BY <2>4, <2>5, <2>6, <1>2
    <2>8. x < c
      BY <2>7, <1>3
    <2> QED BY <2>1, <2>2, <2>5, <2>6, <2>8
  <1> QED BY <1>0, <1>2, <1>3, <1>6, <1>7, <1>8 DEF Paged

\* The page of k at offset o of a sequence.
PageAt(s, k, o) ==
  LET q == IF Len(s) > o THEN SubSeq(s, o + 1, Len(s)) ELSE s
  IN  SubSeq(q, 1, Min({k, Len(q)}))

PageEnd(s, k, o) == IF o + k <= Len(s) THEN o + k ELSE Len(s)

LEMMA PageIs ==
  ASSUME NEW X, NEW s \in Seq(X), NEW k \in Nat \ {0}, NEW o \in Nat, o < Len(s)
  PROVE  PageAt(s, k, o) = SubSeq(s, o + 1, PageEnd(s, k, o))
  <1>0. PICK e : e = PageEnd(s, k, o)
    OBVIOUS
  <1>1. PICK n \in Nat : n = Len(s)
    BY SeqIs
  <1>2. PICK q : q = SubSeq(s, o + 1, n)
    OBVIOUS
  <1>3. Piece(X, s, o + 1, n, q)
    <2>1. o + 1 \in Nat \ {0} /\ o + 1 <= n + 1 /\ n <= Len(s)
      BY <1>1
    <2> QED BY <2>1, <1>2, PieceIs
  <1>4. Len(q) = n - o
    <2>1. n + 1 - (o + 1) = n - o
      OBVIOUS
    <2> QED BY <2>1, <1>3 DEF Piece
  <1>5. PICK m \in Nat : m = e - o /\ o + m = e /\ o + m <= n /\ m = IF k <= n - o THEN k ELSE n - o
    <2>1. e \in Nat /\ o <= e /\ e <= n /\ e - o = IF k <= n - o THEN k ELSE n - o
      BY <1>0, <1>1 DEF PageEnd
    <2>2. PICK m : m = e - o
      OBVIOUS
    <2>3. m \in Nat /\ o + m = e
      BY <2>1, <2>2
    <2> QED BY <2>1, <2>2, <2>3
  <1>6. Min({k, n - o}) = m
    <2>1. k \in Int /\ n - o \in Int
      OBVIOUS
    <2>2. Min({k, n - o}) = IF k <= n - o THEN k ELSE n - o
      BY <2>1, LesserIs
    <2> QED BY <2>2, <1>5
  <1>7. PageAt(s, k, o) = SubSeq(q, 1, m)
    <2>1. n > o
      BY <1>1
    <2> QED BY <2>1, <1>1, <1>2, <1>4, <1>6 DEF PageAt
  <1>8. SubSeq(q, 1, m) = SubSeq(s, o + 1, o + m)
    <2>1. o + m <= Len(s)
      BY <1>1, <1>5
    <2>2. SubSeq(SubSeq(s, o + 1, Len(s)), 1, m) = SubSeq(s, o + 1, o + m)
      BY <2>1, PieceAfter
    <2>3. q = SubSeq(s, o + 1, Len(s))
      BY <1>1, <1>2
    <2> QED BY <2>2, <2>3
  <1> QED BY <1>0, <1>5, <1>7, <1>8

\* Page after page gives the sequence.
LEMMA PagesAre ==
  ASSUME NEW X, NEW s \in Seq(X), NEW k \in Nat \ {0}, NEW n, n = (Len(s) + k - 1) \div k,
         NEW ss, ss = [i \in 1..n |-> PageAt(s, k, (i - 1) * k)]
  PROVE  FlattenSeq(ss) = s
  <1>1. PICK c \in Nat : c = Len(s)
    BY SeqIs
  <1>2. /\ n \in Nat /\ (c = 0 => n = 0) /\ (c # 0 => n # 0) /\ c <= n * k
        /\ \A i \in 0..(n - 1) : i * k \in Nat /\ i * k < c /\ (i + 1) * k = i * k + k
    BY <1>1, PageCount DEF Paged
  <1>3. Len(ss) = n
    BY <1>2
  <1>4. CASE n = 0
    <2>1. c = 0
      BY <1>2, <1>4
    <2>2. s = <<>>
      BY <2>1, <1>1, SeqIs
    <2>3. ss = <<>>
      <3>1. 1..0 = {}
        OBVIOUS
      <3> QED BY <3>1, <1>4
    <2>4. FlattenSeq(ss) = ss
      BY <1>3, <1>4 DEF FlattenSeq
    <2> QED BY <2>2, <2>3, <2>4
  <1>5. CASE n # 0
    <2> DEFINE up(i) == IF i * k <= c THEN i * k ELSE c
               acc == [i \in 1..n |-> SubSeq(s, 1, up(i))]
    <2>1. n \in Nat \ {0}
      BY <1>2, <1>5
    <2>2. \A i \in 1..n : i - 1 \in 0..(n - 1) /\ (i - 1) + 1 = i
      BY <2>1
    <2>3. \A i \in 1..n : (i - 1) * k \in Nat /\ (i - 1) * k < c /\ i * k = (i - 1) * k + k
      BY <2>2, <1>2
    <2>4. \A i \in 1..n : ss[i] = SubSeq(s, (i - 1) * k + 1, up(i))
      <3> SUFFICES ASSUME NEW i \in 1..n
                   PROVE  ss[i] = SubSeq(s, (i - 1) * k + 1, up(i))
        OBVIOUS
      <3>1. PICK o \in Nat : o = (i - 1) * k /\ o < Len(s) /\ i * k = o + k
        BY <2>3, <1>1
      <3>2. ss[i] = PageAt(s, k, o)
        BY <3>1
      <3>3. up(i) = PageEnd(s, k, o)
        <4>1. up(i) = (IF i * k <= c THEN i * k ELSE c)
          OBVIOUS
        <4> HIDE DEF up
        <4> QED BY <4>1, <3>1, <1>1 DEF PageEnd
      <3> HIDE DEF up
      <3>4. PageAt(s, k, o) = SubSeq(s, o + 1, up(i))
        BY <3>1, <3>3, PageIs
      <3> QED BY <3>1, <3>2, <3>4
    <2>5. acc[1] = ss[1]
      <3>1. 1 \in 1..n /\ (1 - 1) * k + 1 = 1
        BY <2>1
      <3>2. ss[1] = SubSeq(s, (1 - 1) * k + 1, up(1))
        BY <3>1, <2>4
      <3>3. acc[1] = SubSeq(s, 1, up(1))
        BY <3>1
      <3> HIDE DEF acc, up
      <3> QED BY <3>1, <3>2, <3>3
    <2>6. \A i \in 2..n : acc[i] = acc[i - 1] \o ss[i]
      <3> SUFFICES ASSUME NEW i \in 2..n
                   PROVE  acc[i] = acc[i - 1] \o ss[i]
        OBVIOUS
      <3>1. i \in 1..n /\ i - 1 \in 1..n
        BY <2>1
      <3>2. PICK o \in Nat : o = (i - 1) * k /\ o < c /\ i * k = o + k
        BY <3>1, <2>3
      <3>3. PICK b \in Nat : b = up(i) /\ o <= b /\ b <= c /\ up(i - 1) = o
        <4>1. up(i) = (IF o + k <= c THEN o + k ELSE c) /\ up(i - 1) = (IF o <= c THEN o ELSE c)
          BY <3>2
        <4> HIDE DEF up
        <4> QED BY <4>1, <3>2
      <3>4. acc[i] = SubSeq(s, 1, b) /\ acc[i - 1] = SubSeq(s, 1, o)
        BY <3>1, <3>3
      <3> HIDE DEF acc, up
      <3>5. ss[i] = SubSeq(s, o + 1, b)
        BY <3>1, <3>2, <3>3, <2>4
      <3>6. SubSeq(s, 1, o) \o SubSeq(s, o + 1, b) = SubSeq(s, 1, b)
        BY <3>3, <1>1, PieceJoined
      <3> QED BY <3>4, <3>5, <3>6
    <2>7. acc[n] = s
      <3>1. up(n) = c /\ n \in 1..n
        <4>1. PICK m : m = n * k
          OBVIOUS
        <4>2. m \in Nat /\ c <= m
          BY <4>1, <1>2
        <4> QED BY <4>1, <4>2, <2>1
      <3>2. acc[n] = SubSeq(s, 1, c)
        BY <3>1
      <3> QED BY <3>2, <1>1, SubSeqFull
    <2>8. acc = [i \in 1..n |-> acc[i]]
      OBVIOUS
    <2> HIDE DEF acc, up
    <2>9. FlattenSeq(ss) = acc[n]
      <3>1. PICK g : g = acc
        OBVIOUS
      <3>2. Sums(ss, n, g)
        BY <3>1, <2>5, <2>6, <2>8, <1>3 DEF Sums
      <3>3. FlattenSeq(ss) = g[n]
        BY <3>2, <2>1, FlattenAlong
      <3> QED BY <3>1, <3>3
    <2> QED BY <2>7, <2>9
  <1> QED BY <1>4, <1>5

-----------------------------------------------------------------------------
(* The objects within a radius *)

\* The sequence s of the objects of P, nearest first.
NearestFirst(P, p, s) ==
  /\ s \in Seq(Int) /\ IsInjective(s) /\ ToSet(s) = P
  /\ \A i, j \in 1..Len(s) : i < j => DistanceTo(p, s[i]) <= DistanceTo(p, s[j])

\* The places of a stream that are too far, and the one after its end.
TooFar(p, r, s) == {i \in DOMAIN s : DistanceTo(p, s[i]) > r} \cup {Len(s) + 1}

LEMMA TooFarIs ==
  ASSUME NEW s \in Seq(Int), NEW p, NEW r
  PROVE  /\ Min(TooFar(p, r, s)) \in TooFar(p, r, s) /\ \A i \in TooFar(p, r, s) : Min(TooFar(p, r, s)) <= i
         /\ TooFar(p, r, s) \subseteq 1..(Len(s) + 1)
  <1>1. PICK n \in Nat : n = Len(s) /\ DOMAIN s = 1..n
    BY SeqIs
  <1>2. PICK F : F = TooFar(p, r, s)
    OBVIOUS
  <1>3. F \subseteq 1..(n + 1) /\ n + 1 \in F
    BY <1>1, <1>2 DEF TooFar
  <1>4. F \in SUBSET Int /\ F # {}
    BY <1>3
  <1>5. IsFiniteSet(F)
    <2>1. IsFiniteSet(1..(n + 1))
      BY FS_Interval
    <2> QED BY <2>1, <1>3, FS_Subset
  <1>6. Min(F) \in F /\ \A i \in F : Min(F) <= i
    BY <1>4, <1>5, MinIs
  <1> QED BY <1>1, <1>2, <1>3, <1>6

\* The stream up to the first object too far.
LEMMA NearIs ==
  ASSUME NEW A, NEW p, NEW s, Ranked(A, p, s), \A o \in ToSet(s) : DistanceTo(p, o) \in Int, NEW r \in Int
  PROVE  NearestFirst({o \in ToSet(s) : DistanceTo(p, o) <= r}, p, SubSeq(s, 1, Min(TooFar(p, r, s)) - 1))
  <1>1. s \in Seq(Int) /\ IsInjective(s) /\ \A i, j \in 1..Len(s) : i < j => DistanceTo(p, s[i]) <= DistanceTo(p, s[j])
    BY DEF Ranked
  <1>2. PICK n \in Nat : n = Len(s) /\ DOMAIN s = 1..n /\ ToSet(s) = {s[i] : i \in 1..n}
    BY <1>1, SeqIs
  <1>3. PICK F : F = TooFar(p, r, s)
    OBVIOUS
  <1>4. PICK f : f = Min(F)
    OBVIOUS
  <1>5. f \in F /\ (\A i \in F : f <= i) /\ F \subseteq 1..(n + 1)
    BY <1>1, <1>2, <1>3, <1>4, TooFarIs
  <1>6. \A i \in 1..n : i \in F <=> DistanceTo(p, s[i]) > r
    <2>1. \A i \in 1..n : i # n + 1
      OBVIOUS
    <2> QED BY <2>1, <1>2, <1>3 DEF TooFar
  <1>7. PICK m \in Nat : m = f - 1 /\ m <= n /\ f = m + 1
    BY <1>5
  <1>8. PICK q : q = SubSeq(s, 1, m)
    OBVIOUS
  <1>9. Foremost(p, s, m, q)
    BY <1>2, <1>7, <1>8, FirstRanked
  <1>10. /\ q \in Seq(Int) /\ Len(q) = m /\ IsInjective(q) /\ ToSet(q) \subseteq ToSet(s)
         /\ \A i \in 1..m : q[i] = s[i]
         /\ \A i, j \in 1..m : i < j => DistanceTo(p, q[i]) <= DistanceTo(p, q[j])
    BY <1>9 DEF Foremost
  <1>11. ToSet(q) = {q[i] : i \in 1..m}
    BY <1>10, SeqIs
  <1>12. \A i \in 1..n : DistanceTo(p, s[i]) \in Int /\ s[i] \in ToSet(s)
    BY <1>2
  <1>13. ASSUME NEW o \in ToSet(q)
         PROVE  o \in ToSet(s) /\ DistanceTo(p, o) <= r
    <2>1. PICK i \in 1..m : o = q[i]
      BY <1>11
    <2>2. i \in 1..n /\ ~ (f <= i)
      BY <1>7
    <2>3. i \notin F
      BY <2>2, <1>5
    <2>4. ~ (DistanceTo(p, s[i]) > r) /\ DistanceTo(p, s[i]) \in Int
      BY <2>2, <2>3, <1>6, <1>12
    <2>5. DistanceTo(p, s[i]) <= r
      BY <2>4
    <2>6. o = s[i]
      BY <2>1, <1>10
    <2> QED BY <2>5, <2>6, <2>2, <1>12
  <1>14. ASSUME NEW o \in ToSet(s), DistanceTo(p, o) <= r
         PROVE  o \in ToSet(q)
    <2>1. PICK j \in 1..n : o = s[j]
      BY <1>2
    <2>2. CASE j <= m
      <3>1. j \in 1..m
        BY <2>2
      <3> QED BY <3>1, <2>1, <1>10, <1>11
    <2>3. CASE ~ (j <= m)
      <3>1. f \in 1..n /\ f <= j
        BY <2>3, <1>7
      <3>2. DistanceTo(p, s[f]) > r
        BY <3>1, <1>5, <1>6
      <3>3. DistanceTo(p, s[f]) <= DistanceTo(p, s[j])
        <4>1. CASE f = j
          <5>1. DistanceTo(p, s[j]) \in Int
            BY <1>12
          <5> QED BY <5>1, <4>1
        <4>2. CASE f # j
          <5>1. f < j
            BY <4>2, <3>1
          <5> QED BY <5>1, <3>1, <1>1, <1>2
        <4> QED BY <4>1, <4>2
      <3>4. DistanceTo(p, s[f]) \in Int /\ DistanceTo(p, s[j]) \in Int
        BY <3>1, <1>12
      <3>5. FALSE
        BY <3>2, <3>3, <3>4, <2>1, <1>14
      <3> QED BY <3>5
    <2> QED BY <2>2, <2>3
  <1>15. ToSet(q) = {o \in ToSet(s) : DistanceTo(p, o) <= r}
    BY <1>13, <1>14
  <1> QED BY <1>3, <1>4, <1>7, <1>8, <1>10, <1>15 DEF NearestFirst

\* A part of a sequence keeps its order.
LEMMA AmongNearest ==
  ASSUME NEW P, NEW p, NEW s, NearestFirst(P, p, s), NEW set
  PROVE  NearestFirst(P \cap set, p, Among(s, set))
  <1>1. s \in Seq(Int) /\ IsInjective(s) /\ ToSet(s) = P
        /\ \A i, j \in 1..Len(s) : i < j => DistanceTo(p, s[i]) <= DistanceTo(p, s[j])
    BY DEF NearestFirst
  <1>2. PICK q : q = Among(s, set)
    OBVIOUS
  <1>3. q \in Seq(Int) /\ ToSet(q) = P \cap set /\ IsInjective(q)
    BY <1>1, <1>2, AmongIs
  <1>4. PICK ix : Picks(s, set, q, ix, Len(s))
    BY <1>1, <1>2, AmongPicks
  <1>5. \A i, j \in 1..Len(q) : i < j => DistanceTo(p, q[i]) <= DistanceTo(p, q[j])
    <2> SUFFICES ASSUME NEW i \in 1..Len(q), NEW j \in 1..Len(q), i < j
                 PROVE  DistanceTo(p, q[i]) <= DistanceTo(p, q[j])
      OBVIOUS
    <2>1. ix[i] \in 1..Len(s) /\ ix[j] \in 1..Len(s) /\ ix[i] < ix[j] /\ q[i] = s[ix[i]] /\ q[j] = s[ix[j]]
      BY <1>4 DEF Picks
    <2>2. DistanceTo(p, s[ix[i]]) <= DistanceTo(p, s[ix[j]])
      BY <2>1, <1>1
    <2> QED BY <2>1, <2>2
  <1> QED BY <1>2, <1>3, <1>5 DEF NearestFirst

\* The objects within radius r that have the feature f.
Matching(P, p, r, f) == {o \in P : DistanceTo(p, o) <= r /\ (f = AnyFeature \/ f \in map[o].tags)}

LEMMA WithinRadiusIs ==
  ASSUME NEW t, NEW A, NEW lv, NEW c, Asked(t, A, lv, c), NEW p \in [Axes -> Int], Desc(t, t.root) = A,
         NEW r \in Int, NEW f, NEW P, P = {o \in A : IsData(o)}
  PROVE  NearestFirst(Matching(P, p, r, f), p, WithinRadius(t, p, r, f))
  <1>1. PICK s : s = Neighbours(t, p)
    OBVIOUS
  <1>2. Ranked(A, p, s)
    BY <1>1, NeighboursAre
  <1>3. s \in Seq(Int) /\ ToSet(s) = P
    BY <1>2 DEF Ranked
  <1>4. \A o \in ToSet(s) : DistanceTo(p, o) \in Int
    <2> SUFFICES ASSUME NEW o \in ToSet(s)
                 PROVE  DistanceTo(p, o) \in Int
      OBVIOUS
    <2>1. o \in A /\ IsData(o)
      BY <1>3
    <2>2. DistanceTo(p, o) \in Nat
      BY <2>1, DistanceToIs
    <2> QED BY <2>2
  <1>5. PICK q : q = SubSeq(s, 1, Min(TooFar(p, r, s)) - 1)
    OBVIOUS
  <1>6. PICK N : N = {o \in ToSet(s) : DistanceTo(p, o) <= r}
    OBVIOUS
  <1>7. NearestFirst(N, p, q)
    BY <1>2, <1>4, <1>5, <1>6, NearIs
  <1>8. PICK S : S = {o \in ToSet(s) : f = AnyFeature \/ f \in map[o].tags}
    OBVIOUS
  <1>9. WithinRadius(t, p, r, f) = Among(q, S)
    BY <1>1, <1>5, <1>8 DEF WithinRadius, TooFar
  <1>10. NearestFirst(N \cap S, p, Among(q, S))
    BY <1>7, AmongNearest
  <1>11. N \cap S = Matching(P, p, r, f)
    BY <1>3, <1>6, <1>8 DEF Matching
  <1> QED BY <1>9, <1>10, <1>11

\* All the pages of k.
AllPages(t, n, k, p, r, f) == FlattenSeq([i \in 1..n |-> NearestNeighboursRadius(t, k, (i - 1) * k, p, r, f)])

LEMMA AllPagesAre ==
  ASSUME NEW M, NEW t, NEW p, NEW r, NEW f, NearestFirst(M, p, WithinRadius(t, p, r, f)), NEW k \in Nat \ {0}
  PROVE  NearestFirst(M, p, AllPages(t, (Cardinality(M) + k - 1) \div k, k, p, r, f))
  <1>1. PICK s : s = WithinRadius(t, p, r, f)
    OBVIOUS
  <1>2. s \in Seq(Int) /\ IsInjective(s) /\ ToSet(s) = M
    BY <1>1 DEF NearestFirst
  <1>3. Len(s) = Cardinality(M)
    BY <1>2, LenSet
  <1>4. PICK n : n = (Cardinality(M) + k - 1) \div k
    OBVIOUS
  <1>5. PICK ss : ss = [i \in 1..n |-> PageAt(s, k, (i - 1) * k)]
    OBVIOUS
  <1>6. FlattenSeq(ss) = s
    BY <1>2, <1>3, <1>4, <1>5, PagesAre
  <1>7. ss = [i \in 1..n |-> NearestNeighboursRadius(t, k, (i - 1) * k, p, r, f)]
    BY <1>1, <1>5 DEF NearestNeighboursRadius, PageAt
  <1> QED BY <1>1, <1>4, <1>6, <1>7 DEF AllPages

LEMMA RInvPagesExact ==
  ASSUME RInv
  PROVE  PagesExact
  <1> SUFFICES ASSUME Sound, ~ IsData(tree.root), NEW p \in Points, NEW r \in Radii, NEW f \in Features,
                      NEW k \in 1..MaxCount
               PROVE  LET match == {o \in present : DistanceTo(p, o) <= r
                                                     /\ (f = AnyFeature \/ f \in map[o].tags)}
                          page(j, i) == NearestNeighboursRadius(tree, j, i * j, p, r, f)
                          n == (Cardinality(match) + k - 1) \div k
                          s == FlattenSeq([i \in 1..n |-> page(k, i - 1)])
                      IN  /\ ToSet(s) = match /\ IsInjective(s)
                          /\ \A i, j \in DOMAIN s : i < j => DistanceTo(p, s[i]) <= DistanceTo(p, s[j])
    BY DEF PagesExact
  <1>1. p \in [Axes -> Int] /\ k \in Nat \ {0} /\ r \in Int
    BY QueryAssumption
  <1>2. PICK A, lv, c : /\ Asked(tree, A, lv, c) /\ Desc(tree, tree.root) = A
                        /\ present = {o \in A : IsData(o)} /\ tree.size = Cardinality(present)
    BY RInvAsked
  <1>3. PICK M : M = Matching(present, p, r, f)
    OBVIOUS
  <1>4. NearestFirst(M, p, WithinRadius(tree, p, r, f))
    BY <1>1, <1>2, <1>3, WithinRadiusIs
  <1>5. PICK s : s = AllPages(tree, (Cardinality(M) + k - 1) \div k, k, p, r, f)
    OBVIOUS
  <1>6. NearestFirst(M, p, s)
    BY <1>1, <1>4, <1>5, AllPagesAre
  <1>7. /\ ToSet(s) = M /\ IsInjective(s) /\ s \in Seq(Int)
        /\ \A i, j \in 1..Len(s) : i < j => DistanceTo(p, s[i]) <= DistanceTo(p, s[j])
    BY <1>6 DEF NearestFirst
  <1>8. DOMAIN s = 1..Len(s)
    BY <1>7, SeqIs
  <1>9. M = {o \in present : DistanceTo(p, o) <= r /\ (f = AnyFeature \/ f \in map[o].tags)}
    BY <1>3 DEF Matching
  <1> QED BY <1>5, <1>7, <1>8, <1>9 DEF AllPages

-----------------------------------------------------------------------------
(* Theorems *)

\* The fields keep their types and no node has more than MaxChildItems entries.
THEOREM TypeCorrect == Spec => []TypeOK
  <1> QED BY AlwaysRInv, RInvTypeOK, PTL

\* Every box is the smallest around its entries, and every entry knows its parent.
THEOREM BoundsAreTight == Spec => []BoundsTight
  <1> QED BY AlwaysRInv, RInvBoundsTight, PTL

\* No node is under-full and all leaves are at one level.
THEOREM TreeIsBalanced == Spec => []Balanced
  <1> QED BY AlwaysRInv, RInvBalanced, PTL

\* The tree holds every object inserted and not deleted, once.
THEOREM PresentIsHeld == Spec => []HoldsPresent
  <1> QED BY AlwaysRInv, RInvHoldsPresent, PTL

\* A deletion takes the object asked for and nothing else.
THEOREM OneIsDeleted == Spec => DeletesOne
  <1> QED BY AlwaysRInv, NextTakesOne, PTL DEF Spec, DeletesOne

\* A box query finds what overlaps the box, each object once.
THEOREM SearchIsExact == Spec => []SearchExact
  <1>1. RInv => SearchExact
    BY RInvSearchExact, QueryAssumption
  <1> QED BY <1>1, AlwaysRInv, PTL

\* NearestNeighboursPQ gives the k nearest objects, nearest first, ImprovedNearestNeighbor a
\* nearest one, and ReverseGeocoding, of those around the point, one with a nearest boundary.
THEOREM NearestIsExact == Spec => []NearestExact
  <1> QED BY AlwaysRInv, RInvNearestExact, PTL

\* NearestNeighboursRadiusFilterOSM, asked for page after page, gives all objects within the
\* radius that have the feature, once, nearest first.
THEOREM PagesAreExact == Spec => []PagesExact
  <1> QED BY AlwaysRInv, RInvPagesExact, PTL
=============================================================================
