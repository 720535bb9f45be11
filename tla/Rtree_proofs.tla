---------------------------- MODULE Rtree_proofs ----------------------------
(***************************************************************************)
(* Lemmas about Rtree's operators: what splitting, inserting and deleting  *)
(* do to a tree, for every tree, every object and every order.             *)
(*                                                                         *)
(* The loops of the code are functions on 0..n in the model: a lemma gives *)
(* every such function a set of states per turn it never leaves            *)
(* (LoopStays).  A tree is described by the set A of its nodes with their  *)
(* levels lv (Shape), its links (Linked, Owned), its sizes (Fits, Full)    *)
(* and its boxes (Snug).  While a split climbs to the root, the boxes on   *)
(* one path are out of date and one node waits for a parent (Climbing);    *)
(* an insertion ends in a tree at rest (Settled).                          *)
(*                                                                         *)
(* A deletion finds a leaf with the object (FindLeaf visits nodes until    *)
(* one Answers), takes the entry out (Erased), climbs to the root cutting  *)
(* under-full nodes off (Condensing), and inserts what they held again     *)
(* (Refilled); in between the tree is at rest but for the entries that     *)
(* wait (Rested).                                                          *)
(***************************************************************************)
EXTENDS Rtree, TLAPS, SequenceTheorems, FiniteSetTheorems, NaturalsInduction, WellFoundedInduction

Fields == [items : Seq(Int), bound : BoxSet, leaf : BOOLEAN, up : Int]
Nodes  == UNION {[D -> Fields] : D \in SUBSET Int}

Trees ==
  {t \in [root : Int, size : Int, height : Nat, node : Nodes,
          twin : BOOLEAN, tied : BOOLEAN, lopped : BOOLEAN, skewed : BOOLEAN] :
     /\ IsFiniteSet(DOMAIN t.node) /\ t.root \in DOMAIN t.node
     /\ -2 \in DOMAIN t.node /\ -1 \notin DOMAIN t.node}

\* The names of a tree.
Names(t) == DOMAIN t.node

LEMMA TreeIs ==
  ASSUME NEW t \in Trees
  PROVE  /\ t.root \in Names(t) /\ t.size \in Int /\ t.height \in Nat
         /\ t.twin \in BOOLEAN /\ t.tied \in BOOLEAN /\ t.lopped \in BOOLEAN /\ t.skewed \in BOOLEAN
         /\ Names(t) \subseteq Int /\ IsFiniteSet(Names(t)) /\ -2 \in Names(t) /\ -1 \notin Names(t)
         /\ t.node \in [Names(t) -> Fields]
  BY DEF Trees, Nodes, Names

LEMMA NodeIs ==
  ASSUME NEW t \in Trees, NEW n \in Names(t)
  PROVE  /\ t.node[n] \in Fields
         /\ Items(t, n) \in Seq(Int) /\ Bound(t, n) \in BoxSet
         /\ t.node[n].leaf \in BOOLEAN /\ t.node[n].up \in Int
  BY TreeIs DEF Fields, Items, Bound

\* Two trees that agree but for their nodes.
SameTop(t, u) ==
  /\ u.root = t.root /\ u.size = t.size /\ u.height = t.height
  /\ u.twin = t.twin /\ u.tied = t.tied /\ u.lopped = t.lopped /\ u.skewed = t.skewed

LEMMA TopIs ==
  ASSUME NEW t \in Trees, NEW F \in Nodes, IsFiniteSet(DOMAIN F), -1 \notin DOMAIN F, -2 \in DOMAIN F,
         t.root \in DOMAIN F
  PROVE  LET u == [t EXCEPT !.node = F]
         IN  u \in Trees /\ Names(u) = DOMAIN F /\ u.node = F /\ SameTop(t, u)
  BY DEF Trees, Names, SameTop

LEMMA SetParentIs ==
  ASSUME NEW t \in Trees, NEW xs, NEW p \in Int
  PROVE  LET u == SetParent(t, xs, p)
         IN  /\ u \in Trees /\ Names(u) = Names(t) /\ SameTop(t, u)
             /\ \A n \in Names(t) : /\ Items(u, n) = Items(t, n) /\ Bound(u, n) = Bound(t, n)
                                    /\ u.node[n].leaf = t.node[n].leaf
                                    /\ u.node[n].up = IF n \in xs THEN p ELSE t.node[n].up
  <1> DEFINE F == [x \in Names(t) |-> IF x \in xs THEN [t.node[x] EXCEPT !.up = p] ELSE t.node[x]]
  <1>3. \A x \in Names(t) : t.node[x] \in Fields
    BY NodeIs
  <1>4. \A x \in Names(t) : /\ F[x] \in Fields /\ F[x].items = t.node[x].items /\ F[x].bound = t.node[x].bound
                            /\ F[x].leaf = t.node[x].leaf /\ F[x].up = IF x \in xs THEN p ELSE t.node[x].up
    BY <1>3 DEF Fields
  <1>5. F \in [Names(t) -> Fields]
    BY <1>4
  <1>6. SetParent(t, xs, p) = [t EXCEPT !.node = F]
    BY DEF SetParent, Names
  <1> HIDE DEF F
  <1>7. Names(t) \in SUBSET Int /\ IsFiniteSet(Names(t)) /\ -1 \notin Names(t) /\ -2 \in Names(t) /\ t.root \in Names(t)
    BY TreeIs
  <1>8. /\ [t EXCEPT !.node = F] \in Trees /\ Names([t EXCEPT !.node = F]) = Names(t)
        /\ [t EXCEPT !.node = F].node = F /\ SameTop(t, [t EXCEPT !.node = F])
    <2>1. F \in Nodes /\ DOMAIN F = Names(t)
      BY <1>5, <1>7 DEF Nodes
    <2> QED BY <2>1, <1>7, TopIs
  <1> QED BY <1>4, <1>6, <1>8 DEF Items, Bound

LEMMA PutIs ==
  ASSUME NEW t \in Trees, NEW n \in Int, n # -1, NEW f \in Fields
  PROVE  LET u == Put(t, n, f)
         IN  /\ u \in Trees /\ Names(u) = {n} \cup Names(t) /\ SameTop(t, u)
             /\ \A x \in Names(u) : u.node[x] = IF x = n THEN f ELSE t.node[x]
  <1> DEFINE D == {n} \cup Names(t)
             F == [x \in D |-> IF x = n THEN f ELSE t.node[x]]
  <1>1. \A x \in Names(t) : t.node[x] \in Fields
    BY NodeIs
  <1>2. F \in [D -> Fields] /\ \A x \in D : F[x] = IF x = n THEN f ELSE t.node[x]
    BY <1>1
  <1>3. Put(t, n, f) = [t EXCEPT !.node = F]
    BY DEF Put, Names
  <1>4. D \in SUBSET Int /\ IsFiniteSet(D) /\ -1 \notin D /\ -2 \in D /\ t.root \in D
    BY TreeIs, FS_AddElement
  <1> HIDE DEF F, D
  <1>8. /\ [t EXCEPT !.node = F] \in Trees /\ Names([t EXCEPT !.node = F]) = D
        /\ [t EXCEPT !.node = F].node = F /\ SameTop(t, [t EXCEPT !.node = F])
    <2>1. F \in Nodes /\ DOMAIN F = D
      BY <1>2, <1>4 DEF Nodes
    <2> QED BY <2>1, <1>4, TopIs
  <1> QED BY <1>2, <1>3, <1>8 DEF D

LEMMA SetItemsIs ==
  ASSUME NEW t \in Trees, NEW n \in Names(t), NEW s \in Seq(Int)
  PROVE  LET u == SetItems(t, n, s)
         IN  /\ u \in Trees /\ Names(u) = Names(t) /\ SameTop(t, u)
             /\ \A x \in Names(t) : /\ Items(u, x) = IF x = n THEN s ELSE Items(t, x)
                                    /\ Bound(u, x) = Bound(t, x)
                                    /\ u.node[x].leaf = t.node[x].leaf /\ u.node[x].up = t.node[x].up
  <1>1. n \in Int /\ n # -1 /\ {n} \cup Names(t) = Names(t)
    BY TreeIs
  <1>2. t.node[n] \in Fields
    BY NodeIs
  <1>3. PICK f : f = [t.node[n] EXCEPT !.items = s]
    OBVIOUS
  <1>4. f \in Fields /\ f.items = s /\ f.bound = t.node[n].bound /\ f.leaf = t.node[n].leaf /\ f.up = t.node[n].up
    BY <1>2, <1>3 DEF Fields
  <1>5. SetItems(t, n, s) = Put(t, n, f)
    BY <1>3 DEF SetItems
  <1>6. PICK u : u = Put(t, n, f)
    OBVIOUS
  <1>7. /\ u \in Trees /\ Names(u) = Names(t) /\ SameTop(t, u)
        /\ \A x \in Names(t) : u.node[x] = IF x = n THEN f ELSE t.node[x]
    <2>1. f \in Fields
      BY <1>4
    <2>2. /\ u \in Trees /\ Names(u) = {n} \cup Names(t) /\ SameTop(t, u)
          /\ \A x \in Names(u) : u.node[x] = IF x = n THEN f ELSE t.node[x]
      BY <1>1, <2>1, <1>6, PutIs
    <2> QED BY <2>2, <1>1
  <1> QED BY <1>4, <1>5, <1>6, <1>7 DEF Items, Bound

LEMMA SetBoxIs ==
  ASSUME NEW t \in Trees, NEW n \in Names(t), NEW b \in BoxSet
  PROVE  LET u == SetBox(t, n, b)
         IN  /\ u \in Trees /\ Names(u) = Names(t) /\ SameTop(t, u)
             /\ \A x \in Names(t) : /\ Items(u, x) = Items(t, x)
                                    /\ Bound(u, x) = IF x = n THEN b ELSE Bound(t, x)
                                    /\ u.node[x].leaf = t.node[x].leaf /\ u.node[x].up = t.node[x].up
  <1>1. n \in Int /\ n # -1 /\ {n} \cup Names(t) = Names(t)
    BY TreeIs
  <1>2. t.node[n] \in Fields
    BY NodeIs
  <1>3. PICK f : f = [t.node[n] EXCEPT !.bound = b]
    OBVIOUS
  <1>4. f \in Fields /\ f.items = t.node[n].items /\ f.bound = b /\ f.leaf = t.node[n].leaf /\ f.up = t.node[n].up
    BY <1>2, <1>3 DEF Fields
  <1>5. SetBox(t, n, b) = Put(t, n, f)
    BY <1>3 DEF SetBox
  <1>6. PICK u : u = Put(t, n, f)
    OBVIOUS
  <1>7. /\ u \in Trees /\ Names(u) = Names(t) /\ SameTop(t, u)
        /\ \A x \in Names(t) : u.node[x] = IF x = n THEN f ELSE t.node[x]
    <2>1. f \in Fields
      BY <1>4
    <2>2. /\ u \in Trees /\ Names(u) = {n} \cup Names(t) /\ SameTop(t, u)
          /\ \A x \in Names(u) : u.node[x] = IF x = n THEN f ELSE t.node[x]
      BY <1>1, <2>1, <1>6, PutIs
    <2> QED BY <2>2, <1>1
  <1> QED BY <1>4, <1>5, <1>6, <1>7 DEF Items, Bound

-----------------------------------------------------------------------------
(* Induction and loops *)

LEMMA LeastNat ==
  ASSUME NEW S \in SUBSET Nat, S # {}
  PROVE  \E n \in S : \A m \in S : n <= m
  <1>1. PICK n \in S : \A m \in S : ~ (<<m, n>> \in OpToRel(<, Nat))
    BY NatLessThanWellFounded, WFMin
  <1>2. \A m \in S : ~ (m < n)
    BY <1>1 DEF OpToRel
  <1>3. \A m \in S : m \in Nat
    OBVIOUS
  <1> QED BY <1>2, <1>3

\* Induction over the numbers, for the set of those a statement holds of.
LEMMA NatSet ==
  ASSUME NEW T, 0 \in T, \A n \in Nat : n \in T => n + 1 \in T
  PROVE  Nat \subseteq T
  <1> SUFFICES ASSUME Nat \ T # {}
               PROVE  FALSE
    OBVIOUS
  <1>1. PICK n \in Nat \ T : \A m \in Nat \ T : n <= m
    BY LeastNat
  <1>2. n # 0 /\ n - 1 \in Nat
    BY <1>1
  <1>3. n - 1 \in T
    BY <1>1, <1>2
  <1> QED BY <1>1, <1>2, <1>3

\* What holds of 0 and goes on to the next number holds up to n.
LEMMA UpToSet ==
  ASSUME NEW n \in Nat, NEW T, 0 \in T, \A k \in 0..(n - 1) : k \in T => k + 1 \in T
  PROVE  \A k \in 0..n : k \in T
  <1> DEFINE U == {k \in Nat : k <= n => k \in T}
  <1>1. 0 \in U
    OBVIOUS
  <1>2. ASSUME NEW k \in Nat, k \in U
        PROVE  k + 1 \in U
    <2> SUFFICES ASSUME k + 1 <= n
                 PROVE  k + 1 \in T
      OBVIOUS
    <2>1. k \in 0..(n - 1) /\ k \in T
      BY <1>2
    <2> QED BY <2>1
  <1> HIDE DEF U
  <1>3. Nat \subseteq U
    BY <1>1, <1>2, NatSet
  <1> QED BY <1>3 DEF U

\* The values a loop goes through from the a-th to the n-th, when the k-th turn leads from v
\* to G[<<k, v>>], and all of them are in W.
Turned(f, a, n, W, base, G) ==
  /\ f = [k \in a..n |-> f[k]] /\ f[a] = base
  /\ \A k \in (a + 1)..n : f[k] = G[<<k, f[k - 1]>>]
  /\ \A k \in a..n : f[k] \in W[k]

Turns(a, n, W, base, G) ==
  base \in W[a] /\ \A k \in (a + 1)..n : \A v \in W[k - 1] : G[<<k, v>>] \in W[k]

\* A loop whose k-th turn leads from one of the values W[k - 1] to one of W[k] has
\* values to go through.
LEMMA LoopFromExists ==
  ASSUME NEW a \in Nat, NEW n \in Nat, a <= n, NEW W, NEW base, NEW G, Turns(a, n, W, base, G)
  PROVE  \E f : Turned(f, a, n, W, base, G)
  <1> USE DEF Turns
  <1> DEFINE Runs(f, m) == /\ f[a] = base
                           /\ \A k \in (a + 1)..m : f[k] = G[<<k, f[k - 1]>>]
                           /\ \A k \in a..m : f[k] \in W[k]
             T == {m \in Nat : a + m <= n => \E f : Runs(f, a + m)}
  <1>1. 0 \in T
    <2>1. PICK f : f = [k \in {a} |-> base]
      OBVIOUS
    <2>2. Runs(f, a + 0)
      BY <2>1
    <2> QED BY <2>2
  <1>2. ASSUME NEW m \in Nat, m \in T
        PROVE  m + 1 \in T
    <2> SUFFICES ASSUME a + (m + 1) <= n
                 PROVE  \E f : Runs(f, a + (m + 1))
      OBVIOUS
    <2> DEFINE c == a + m
    <2>0. c \in Nat /\ a <= c /\ c + 1 = a + (m + 1) /\ c + 1 <= n
      OBVIOUS
    <2>1. PICK f : Runs(f, c)
      BY <1>2
    <2> HIDE DEF c
    <2>2. PICK g : g = [k \in a..(c + 1) |-> IF k = c + 1 THEN G[<<c + 1, f[c]>>] ELSE f[k]]
      OBVIOUS
    <2>3. (\A k \in a..c : g[k] = f[k]) /\ g[c + 1] = G[<<c + 1, f[c]>>]
      BY <2>0, <2>2
    <2>4. c + 1 \in (a + 1)..n /\ (c + 1) - 1 = c /\ c \in a..c
      BY <2>0
    <2>5. f[c] \in W[c]
      BY <2>1, <2>4
    <2>6. g[c + 1] \in W[c + 1]
      BY <2>3, <2>4, <2>5
    <2>7. g[a] = base
      <3>1. a \in a..c
        BY <2>0
      <3> QED BY <3>1, <2>1, <2>3
    <2>8. ASSUME NEW k \in (a + 1)..(c + 1)
          PROVE  g[k] = G[<<k, g[k - 1]>>]
      <3>1. CASE k = c + 1
        <4>1. g[k - 1] = f[c]
          BY <3>1, <2>3, <2>4
        <4> QED BY <3>1, <4>1, <2>3
      <3>2. CASE k \in (a + 1)..c
        <4>1. k - 1 \in a..c /\ k \in a..c
          BY <2>0, <3>2
        <4>2. f[k] = G[<<k, f[k - 1]>>]
          BY <3>2, <2>1
        <4> QED BY <4>1, <4>2, <2>3
      <3> QED BY <2>0, <3>1, <3>2
    <2>9. ASSUME NEW k \in a..(c + 1)
          PROVE  g[k] \in W[k]
      <3>1. CASE k = c + 1
        BY <3>1, <2>6
      <3>2. CASE k \in a..c
        BY <3>2, <2>1, <2>3
      <3> QED BY <2>0, <3>1, <3>2
    <2> QED BY <2>0, <2>7, <2>8, <2>9
  <1> HIDE DEF T
  <1>3. n - a \in Nat /\ a + (n - a) = n
    OBVIOUS
  <1>4. PICK f : Runs(f, n)
    <2>1. n - a \in T
      BY <1>1, <1>2, <1>3, NatSet
    <2> QED BY <2>1, <1>3 DEF T
  <1>5. PICK g : g = [k \in a..n |-> f[k]]
    OBVIOUS
  <1>6. \A k \in a..n : g[k] = f[k]
    BY <1>5
  <1>7. g = [k \in a..n |-> g[k]]
    BY <1>5
  <1>8. g[a] = base
    BY <1>6, <1>4
  <1>9. ASSUME NEW k \in (a + 1)..n
        PROVE  g[k] = G[<<k, g[k - 1]>>]
    <2>1. k - 1 \in a..n /\ k \in a..n
      OBVIOUS
    <2> QED BY <2>1, <1>4, <1>6
  <1> QED BY <1>4, <1>6, <1>7, <1>8, <1>9 DEF Turned

\* What the first value has and every turn keeps, every value has.
LEMMA LoopFromStays ==
  ASSUME NEW a \in Nat, NEW n \in Nat, a <= n, NEW W, NEW f, f[a] \in W[a],
         \A k \in (a + 1)..n : f[k - 1] \in W[k - 1] => f[k] \in W[k]
  PROVE  \A k \in a..n : f[k] \in W[k]
  <1> DEFINE T == {k \in 0..(n - a) : f[a + k] \in W[a + k]}
  <1>0. n - a \in Nat
    OBVIOUS
  <1>1. 0 \in T
    OBVIOUS
  <1>2. ASSUME NEW k \in 0..((n - a) - 1), k \in T
        PROVE  k + 1 \in T
    <2>1. a + (k + 1) \in (a + 1)..n /\ (a + (k + 1)) - 1 = a + k /\ k + 1 \in 0..(n - a)
      OBVIOUS
    <2>2. f[a + k] \in W[a + k]
      BY <1>2
    <2>3. f[a + (k + 1)] \in W[a + (k + 1)]
      BY <2>1, <2>2
    <2> QED BY <2>1, <2>3
  <1> HIDE DEF T
  <1>3. \A k \in 0..(n - a) : k \in T
    BY <1>0, <1>1, <1>2, UpToSet
  <1>4. ASSUME NEW k \in a..n
        PROVE  f[k] \in W[k]
    <2>1. k - a \in 0..(n - a) /\ a + (k - a) = k
      OBVIOUS
    <2>2. k - a \in T
      BY <2>1, <1>3
    <2> QED BY <2>1, <2>2 DEF T
  <1> QED BY <1>4

\* The same for loops that count from 0, and from 1.
Turns0(n, W, base, G) ==
  base \in W[0] /\ \A k \in 1..n : \A v \in W[k - 1] : G[<<k, v>>] \in W[k]

Turned0(f, n, W, base, G) ==
  /\ f = [k \in 0..n |-> f[k]] /\ f[0] = base
  /\ \A k \in 1..n : f[k] = G[<<k, f[k - 1]>>]
  /\ \A k \in 0..n : f[k] \in W[k]

Turns1(n, W, base, G) ==
  base \in W[1] /\ \A k \in 2..n : \A v \in W[k - 1] : G[<<k, v>>] \in W[k]

Turned1(f, n, W, base, G) ==
  /\ f = [k \in 1..n |-> f[k]] /\ f[1] = base
  /\ \A k \in 2..n : f[k] = G[<<k, f[k - 1]>>]
  /\ \A k \in 1..n : f[k] \in W[k]

LEMMA LoopExists ==
  ASSUME NEW n \in Nat, NEW W, NEW base, NEW G, Turns0(n, W, base, G)
  PROVE  \E f : Turned0(f, n, W, base, G)
  <1>1. PICK a \in Nat : a = 0
    OBVIOUS
  <1>2. a <= n /\ (a + 1)..n = 1..n /\ a..n = 0..n
    BY <1>1
  <1>3. Turns(a, n, W, base, G)
    BY <1>1, <1>2 DEF Turns, Turns0
  <1>4. PICK f : Turned(f, a, n, W, base, G)
    BY <1>2, <1>3, LoopFromExists
  <1> QED BY <1>1, <1>2, <1>4 DEF Turned, Turned0

LEMMA LoopStays ==
  ASSUME NEW n \in Nat, NEW W, NEW f, f[0] \in W[0],
         \A k \in 1..n : f[k - 1] \in W[k - 1] => f[k] \in W[k]
  PROVE  \A k \in 0..n : f[k] \in W[k]
  <1>1. PICK a \in Nat : a = 0
    OBVIOUS
  <1>2. a <= n /\ (a + 1)..n = 1..n /\ a..n = 0..n
    BY <1>1
  <1>3. f[a] \in W[a] /\ \A k \in (a + 1)..n : f[k - 1] \in W[k - 1] => f[k] \in W[k]
    BY <1>1, <1>2
  <1>4. \A k \in a..n : f[k] \in W[k]
    BY <1>2, <1>3, LoopFromStays, Zenon
  <1> QED BY <1>2, <1>4

LEMMA Loop1Exists ==
  ASSUME NEW n \in Nat \ {0}, NEW W, NEW base, NEW G, Turns1(n, W, base, G)
  PROVE  \E f : Turned1(f, n, W, base, G)
  <1>1. PICK a \in Nat : a = 1
    OBVIOUS
  <1>2. a <= n /\ (a + 1)..n = 2..n /\ a..n = 1..n
    BY <1>1
  <1>3. Turns(a, n, W, base, G)
    BY <1>1, <1>2 DEF Turns, Turns1
  <1>4. PICK f : Turned(f, a, n, W, base, G)
    BY <1>2, <1>3, LoopFromExists
  <1> QED BY <1>1, <1>2, <1>4 DEF Turned, Turned1

LEMMA Loop1Stays ==
  ASSUME NEW n \in Nat \ {0}, NEW W, NEW f, f[1] \in W[1],
         \A k \in 2..n : f[k - 1] \in W[k - 1] => f[k] \in W[k]
  PROVE  \A k \in 1..n : f[k] \in W[k]
  <1>1. PICK a \in Nat : a = 1
    OBVIOUS
  <1>2. a <= n /\ (a + 1)..n = 2..n /\ a..n = 1..n
    BY <1>1
  <1>3. f[a] \in W[a] /\ \A k \in (a + 1)..n : f[k - 1] \in W[k - 1] => f[k] \in W[k]
    BY <1>1, <1>2
  <1>4. \A k \in a..n : f[k] \in W[k]
    BY <1>2, <1>3, LoopFromStays, Zenon
  <1> QED BY <1>2, <1>4

-----------------------------------------------------------------------------
(* Sequences *)

LEMMA SeqIs ==
  ASSUME NEW X, NEW s \in Seq(X)
  PROVE  /\ Len(s) \in Nat /\ DOMAIN s = 1..Len(s) /\ (\A i \in 1..Len(s) : s[i] \in X)
         /\ ToSet(s) \subseteq X /\ (s = <<>> <=> Len(s) = 0) /\ (ToSet(s) = {} <=> Len(s) = 0)
         /\ ToSet(s) = {s[i] : i \in 1..Len(s)}
  <1>1. Len(s) \in Nat /\ DOMAIN s = 1..Len(s) /\ \A i \in 1..Len(s) : s[i] \in X
    BY LenProperties, ElementOfSeq
  <1>2. ToSet(s) = {s[i] : i \in 1..Len(s)}
    BY <1>1 DEF ToSet
  <1>3. ToSet(s) \subseteq X
    BY <1>1, <1>2
  <1>4. s = <<>> <=> Len(s) = 0
    BY EmptySeq
  <1>5. CASE Len(s) = 0
    BY <1>1, <1>2, <1>3, <1>4, <1>5
  <1>6. CASE Len(s) # 0
    <2>1. 1 \in 1..Len(s)
      BY <1>1, <1>6
    <2>2. s[1] \in ToSet(s)
      BY <2>1, <1>2
    <2> QED BY <2>2, <1>1, <1>2, <1>3, <1>4, <1>6
  <1> QED BY <1>5, <1>6

LEMMA SetIndex ==
  ASSUME NEW X, NEW s \in Seq(X), NEW x \in ToSet(s)
  PROVE  \E i \in 1..Len(s) : s[i] = x
  BY SeqIs

LEMMA AppendSet ==
  ASSUME NEW X, NEW s \in Seq(X), NEW x \in X
  PROVE  /\ Append(s, x) \in Seq(X)
         /\ Len(Append(s, x)) = Len(s) + 1
         /\ ToSet(Append(s, x)) = ToSet(s) \cup {x}
         /\ IsInjective(s) /\ x \notin ToSet(s) => IsInjective(Append(s, x))
         /\ (\A i \in 1..Len(s) : Append(s, x)[i] = s[i]) /\ Append(s, x)[Len(s) + 1] = x
  <1>1. /\ Append(s, x) \in Seq(X) /\ Len(Append(s, x)) = Len(s) + 1
        /\ \A i \in 1..Len(s) : Append(s, x)[i] = s[i]
        /\ Append(s, x)[Len(s) + 1] = x
    BY AppendProperties
  <1>2. Len(s) \in Nat /\ DOMAIN s = 1..Len(s) /\ DOMAIN Append(s, x) = 1..(Len(s) + 1)
    BY <1>1, LenProperties
  <1>3. 1..(Len(s) + 1) = 1..Len(s) \cup {Len(s) + 1}
    BY <1>2
  <1>4. ToSet(Append(s, x)) = ToSet(s) \cup {x}
    BY <1>1, <1>2, <1>3 DEF ToSet
  <1>5. IsInjective(s) /\ x \notin ToSet(s) => IsInjective(Append(s, x))
    <2> SUFFICES ASSUME IsInjective(s), x \notin ToSet(s),
                        NEW i \in 1..(Len(s) + 1), NEW j \in 1..(Len(s) + 1),
                        Append(s, x)[i] = Append(s, x)[j]
                 PROVE  i = j
      BY <1>2 DEF IsInjective
    <2>1. \A k \in 1..Len(s) : s[k] # x
      BY <1>2 DEF ToSet
    <2>2. CASE i = Len(s) + 1
      <3>1. j \in 1..Len(s) \/ j = Len(s) + 1
        BY <1>3
      <3> QED BY <2>1, <2>2, <3>1, <1>1
    <2>3. CASE i \in 1..Len(s)
      <3>1. j \in 1..Len(s)
        BY <2>1, <2>3, <1>1, <1>3
      <3> QED BY <2>3, <3>1, <1>1, <1>2 DEF IsInjective
    <2> QED BY <2>2, <2>3, <1>3
  <1> QED BY <1>1, <1>4, <1>5

LEMMA SingleSeq ==
  ASSUME NEW X, NEW x \in X
  PROVE  <<x>> \in Seq(X) /\ Len(<<x>>) = 1 /\ ToSet(<<x>>) = {x} /\ IsInjective(<<x>>)
  <1>1. <<x>> \in Seq(X) /\ Len(<<x>>) = 1 /\ <<x>>[1] = x
    OBVIOUS
  <1>2. DOMAIN <<x>> = {1}
    OBVIOUS
  <1> QED BY <1>1, <1>2 DEF ToSet, IsInjective

\* No sequence has more elements than places, and one without repetition has as many.
LEMMA LenSet ==
  ASSUME NEW X, NEW s \in Seq(X)
  PROVE  /\ IsFiniteSet(ToSet(s)) /\ Cardinality(ToSet(s)) \in Nat /\ Cardinality(ToSet(s)) <= Len(s)
         /\ IsInjective(s) => Cardinality(ToSet(s)) = Len(s)
         /\ Cardinality(ToSet(s)) = Len(s) => IsInjective(s)
  <1> DEFINE I == 1..Len(s)
             Y == ToSet(s)
  <1>1. Len(s) \in Nat /\ DOMAIN s = I
    BY SeqIs
  <1>2. IsFiniteSet(I) /\ Cardinality(I) = Len(s)
    BY <1>1, FS_Interval
  <1>3. s \in [I -> Y] /\ \A y \in Y : \E i \in I : s[i] = y
    <2>1. s \in [I -> X] /\ Y = {s[i] : i \in I}
      BY SeqIs, LenProperties
    <2> QED BY <2>1
  <1>4. s \in Surjection(I, Y)
    BY <1>3 DEF Surjection
  <1>5. IsFiniteSet(Y) /\ Cardinality(Y) <= Len(s) /\ Cardinality(Y) \in Nat
    BY <1>2, <1>4, FS_Surjection, FS_CardinalityType
  <1>6. IsInjective(s) => Cardinality(Y) = Len(s)
    <2> SUFFICES ASSUME IsInjective(s)
                 PROVE  Cardinality(Y) = Len(s)
      OBVIOUS
    <2>1. s \in Bijection(I, Y)
      BY <1>1, <1>3, <1>4 DEF Bijection, Injection, IsInjective
    <2>2. ExistsBijection(I, Y)
      BY <2>1 DEF ExistsBijection
    <2> QED BY <1>2, <2>2, FS_Bijection
  <1>7. Cardinality(Y) = Len(s) => IsInjective(s)
    <2> SUFFICES ASSUME Cardinality(Y) = Len(s)
                 PROVE  IsInjective(s)
      OBVIOUS
    <2>1. s \in Injection(I, Y)
      BY <1>2, <1>4, <1>5, FS_SurjSameCardinalityImpliesInj
    <2> QED BY <2>1, <1>1 DEF Injection, IsInjective
  <1> QED BY <1>5, <1>6, <1>7

LEMMA RemoveAtIs ==
  ASSUME NEW X, NEW s \in Seq(X), NEW i \in 1..Len(s)
  PROVE  LET r == RemoveAt(s, i)
         IN  /\ r \in Seq(X) /\ Len(r) = Len(s) - 1
             /\ \A j \in 1..(Len(s) - 1) : r[j] = IF j < i THEN s[j] ELSE s[j + 1]
  <1>1. Len(s) \in Nat /\ i \in Nat /\ i >= 1 /\ i <= Len(s)
    BY SeqIs
  <1>2. PICK a, b : a = SubSeq(s, 1, i - 1) /\ b = SubSeq(s, i + 1, Len(s))
    OBVIOUS
  <1>3. a \in Seq(X) /\ Len(a) = i - 1 /\ \A j \in 1..(i - 1) : a[j] = s[j]
    BY <1>1, <1>2
  <1>4. b \in Seq(X) /\ Len(b) = Len(s) - i /\ \A j \in 1..(Len(s) - i) : b[j] = s[i + j]
    BY <1>1, <1>2
  <1>5. RemoveAt(s, i) = a \o b
    BY <1>2 DEF RemoveAt
  <1>6. /\ a \o b \in Seq(X) /\ Len(a \o b) = Len(a) + Len(b)
        /\ \A j \in 1..(Len(a) + Len(b)) : (a \o b)[j] = IF j <= Len(a) THEN a[j] ELSE b[j - Len(a)]
    BY <1>3, <1>4, ConcatProperties
  <1>7. ASSUME NEW j \in 1..(Len(s) - 1)
        PROVE  (a \o b)[j] = IF j < i THEN s[j] ELSE s[j + 1]
    <2>1. j \in 1..(Len(a) + Len(b)) /\ (j <= Len(a) <=> j < i)
      BY <1>1, <1>3, <1>4
    <2>2. CASE j < i
      BY <2>1, <2>2, <1>1, <1>3, <1>6
    <2>3. CASE ~ (j < i)
      <3>1. j - Len(a) \in 1..(Len(s) - i) /\ i + (j - Len(a)) = j + 1
        BY <2>3, <1>1, <1>3
      <3> QED BY <2>1, <2>3, <3>1, <1>4, <1>6
    <2> QED BY <2>2, <2>3
  <1>8. Len(a) + Len(b) = Len(s) - 1
    BY <1>1, <1>3, <1>4
  <1> QED BY <1>5, <1>6, <1>7, <1>8

LEMMA RemoveAtSet ==
  ASSUME NEW X, NEW s \in Seq(X), NEW i \in 1..Len(s), IsInjective(s)
  PROVE  ToSet(RemoveAt(s, i)) = ToSet(s) \ {s[i]} /\ IsInjective(RemoveAt(s, i))
  <1>1. PICK r : r = RemoveAt(s, i)
    OBVIOUS
  <1>2. /\ r \in Seq(X) /\ Len(r) = Len(s) - 1
        /\ \A j \in 1..(Len(s) - 1) : r[j] = IF j < i THEN s[j] ELSE s[j + 1]
    BY <1>1, RemoveAtIs
  <1>3. /\ Len(s) \in Nat /\ DOMAIN s = 1..Len(s) /\ DOMAIN r = 1..Len(r)
        /\ ToSet(s) = {s[j] : j \in 1..Len(s)} /\ ToSet(r) = {r[j] : j \in 1..Len(r)}
    BY <1>2, SeqIs
  <1>4. \A j, k \in 1..Len(s) : s[j] = s[k] => j = k
    BY <1>3 DEF IsInjective
  <1>5. ASSUME NEW x \in ToSet(r)
        PROVE  x \in ToSet(s) /\ x # s[i]
    <2>1. PICK j \in 1..(Len(s) - 1) : x = r[j]
      BY <1>2, <1>3
    <2>2. PICK k \in 1..Len(s) : k # i /\ x = s[k]
      <3>1. CASE j < i
        BY <3>1, <2>1, <1>2, <1>3
      <3>2. CASE ~ (j < i)
        <4>1. j + 1 \in 1..Len(s) /\ j + 1 # i
          BY <3>2, <1>3
        <4> QED BY <4>1, <3>2, <2>1, <1>2
      <3> QED BY <3>1, <3>2
    <2> QED BY <2>2, <1>3, <1>4
  <1>6. ASSUME NEW x \in ToSet(s), x # s[i]
        PROVE  x \in ToSet(r)
    <2>1. PICK k \in 1..Len(s) : x = s[k]
      BY <1>3
    <2>2. CASE k < i
      <3>1. k \in 1..(Len(s) - 1)
        BY <2>2, <1>3
      <3> QED BY <3>1, <2>1, <2>2, <1>2, <1>3
    <2>3. CASE ~ (k < i)
      <3>1. k - 1 \in 1..(Len(s) - 1) /\ ~ (k - 1 < i) /\ (k - 1) + 1 = k
        BY <2>1, <2>3, <1>3, <1>6
      <3>2. r[k - 1] = s[k]
        BY <3>1, <1>2
      <3> QED BY <3>1, <3>2, <2>1, <1>2, <1>3
    <2> QED BY <2>2, <2>3
  <1>7. ASSUME NEW j \in 1..(Len(s) - 1), NEW k \in 1..(Len(s) - 1), r[j] = r[k]
        PROVE  j = k
    <2> DEFINE up(h) == IF h < i THEN h ELSE h + 1
    <2>1. up(j) \in 1..Len(s) /\ up(k) \in 1..Len(s) /\ r[j] = s[up(j)] /\ r[k] = s[up(k)]
      BY <1>2, <1>3
    <2>2. up(j) = up(k)
      <3> HIDE DEF up
      <3> QED BY <2>1, <1>4, <1>7
    <2> QED BY <2>2, <1>3
  <1> QED BY <1>1, <1>2, <1>3, <1>5, <1>6, <1>7 DEF IsInjective

LEMMA SwapOutIs ==
  ASSUME NEW X, NEW s \in Seq(X), NEW i \in 1..Len(s)
  PROVE  LET r == SwapOut(s, i)
         IN  /\ r \in Seq(X) /\ Len(r) = Len(s) - 1
             /\ \A j \in 1..(Len(s) - 1) : r[j] = IF j = i THEN s[Len(s)] ELSE s[j]
  <1>1. Len(s) \in Nat /\ i \in Nat /\ i >= 1 /\ i <= Len(s) /\ Len(s) \in 1..Len(s)
    BY SeqIs
  <1>2. s[Len(s)] \in X
    BY <1>1, SeqIs
  <1>3. PICK q : q = [s EXCEPT ![i] = s[Len(s)]]
    OBVIOUS
  <1>4. q \in Seq(X) /\ Len(q) = Len(s) /\ \A j \in 1..Len(s) : q[j] = IF j = i THEN s[Len(s)] ELSE s[j]
    BY <1>2, <1>3, ExceptSeq
  <1>5. SwapOut(s, i) = SubSeq(q, 1, Len(q) - 1)
    BY <1>3 DEF SwapOut, Front, ReplaceAt, Last
  <1>6. PICK r : r = SubSeq(q, 1, Len(q) - 1)
    OBVIOUS
  <1>7. r \in Seq(X) /\ Len(r) = Len(s) - 1 /\ \A j \in 1..(Len(s) - 1) : r[j] = q[j]
    BY <1>1, <1>4, <1>6
  <1>8. \A j \in 1..(Len(s) - 1) : r[j] = IF j = i THEN s[Len(s)] ELSE s[j]
    BY <1>1, <1>4, <1>7
  <1> QED BY <1>5, <1>6, <1>7, <1>8

LEMMA SwapOutSet ==
  ASSUME NEW X, NEW s \in Seq(X), NEW i \in 1..Len(s), IsInjective(s)
  PROVE  ToSet(SwapOut(s, i)) = ToSet(s) \ {s[i]} /\ IsInjective(SwapOut(s, i))
  <1>1. PICK r : r = SwapOut(s, i)
    OBVIOUS
  <1>2. /\ r \in Seq(X) /\ Len(r) = Len(s) - 1
        /\ \A j \in 1..(Len(s) - 1) : r[j] = IF j = i THEN s[Len(s)] ELSE s[j]
    BY <1>1, SwapOutIs
  <1>3. /\ Len(s) \in Nat /\ DOMAIN s = 1..Len(s) /\ DOMAIN r = 1..Len(r) /\ Len(s) \in 1..Len(s)
        /\ ToSet(s) = {s[j] : j \in 1..Len(s)} /\ ToSet(r) = {r[j] : j \in 1..Len(r)}
    BY <1>2, SeqIs
  <1>4. \A j, k \in 1..Len(s) : s[j] = s[k] => j = k
    BY <1>3 DEF IsInjective
  <1>5. ASSUME NEW x \in ToSet(r)
        PROVE  x \in ToSet(s) /\ x # s[i]
    <2>1. PICK j \in 1..(Len(s) - 1) : x = r[j]
      BY <1>2, <1>3
    <2>2. PICK k \in 1..Len(s) : k # i /\ x = s[k]
      <3>1. CASE j = i
        BY <3>1, <2>1, <1>2, <1>3
      <3>2. CASE j # i
        BY <3>2, <2>1, <1>2, <1>3
      <3> QED BY <3>1, <3>2
    <2> QED BY <2>2, <1>3, <1>4
  <1>6. ASSUME NEW x \in ToSet(s), x # s[i]
        PROVE  x \in ToSet(r)
    <2>1. PICK k \in 1..Len(s) : x = s[k]
      BY <1>3
    <2>2. CASE k = Len(s)
      <3>1. i \in 1..(Len(s) - 1)
        BY <2>1, <2>2, <1>3, <1>6
      <3> QED BY <3>1, <2>1, <2>2, <1>2, <1>3
    <2>3. CASE k # Len(s)
      <3>0. k # i
        BY <2>1, <1>6
      <3>1. k \in 1..(Len(s) - 1)
        <4>1. Len(s) \in Nat
          BY <1>3
        <4> QED BY <4>1, <2>3
      <3> QED BY <3>0, <3>1, <2>1, <1>2, <1>3
    <2> QED BY <2>2, <2>3
  <1>7. ASSUME NEW j \in 1..(Len(s) - 1), NEW k \in 1..(Len(s) - 1), r[j] = r[k]
        PROVE  j = k
    <2> DEFINE up(h) == IF h = i THEN Len(s) ELSE h
    <2>1. up(j) \in 1..Len(s) /\ up(k) \in 1..Len(s) /\ r[j] = s[up(j)] /\ r[k] = s[up(k)]
      BY <1>2, <1>3
    <2>2. up(j) = up(k)
      <3> HIDE DEF up
      <3> QED BY <2>1, <1>4, <1>7
    <2> QED BY <2>2, <1>3
  <1> QED BY <1>1, <1>2, <1>3, <1>5, <1>6, <1>7 DEF IsInjective

-----------------------------------------------------------------------------
\* The entries of s that are in a set, as Among collects them: ix says where each
\* of them stands in s.
Picks(s, set, r, ix, n) ==
  /\ ix \in [1..Len(r) -> 1..n]
  /\ \A i, j \in 1..Len(r) : i < j => ix[i] < ix[j]
  /\ \A i \in 1..Len(r) : r[i] = s[ix[i]] /\ r[i] \in set
  /\ \A j \in 1..n : s[j] \in set => \E i \in 1..Len(r) : ix[i] = j

AmongStep(s, set, h) ==
  [k \in 0..Len(s) |->
     IF k = 0 THEN <<>> ELSE IF s[k] \in set THEN Append(h[k - 1], s[k]) ELSE h[k - 1]]

Amongs(s, set) == CHOOSE h : h = AmongStep(s, set, h)

LEMMA AmongPicks ==
  ASSUME NEW X, NEW s \in Seq(X), NEW set
  PROVE  /\ Among(s, set) \in Seq(X)
         /\ \E ix : Picks(s, set, Among(s, set), ix, Len(s))
  <1> DEFINE W == [k \in 0..Len(s) |-> {r \in Seq(X) : \E ix : Picks(s, set, r, ix, k)}]
             T(k, r) == IF s[k] \in set THEN Append(r, s[k]) ELSE r
             G == [kr \in (1..Len(s)) \X Seq(X) |-> T(kr[1], kr[2])]
  <1>1. Len(s) \in Nat /\ \A k \in 1..Len(s) : s[k] \in X
    BY SeqIs
  <1>2. ASSUME NEW k \in 1..Len(s), NEW r \in W[k - 1]
        PROVE  T(k, r) \in W[k]
    <2>1. k - 1 \in 0..Len(s) /\ k \in 0..Len(s) /\ s[k] \in X
      BY <1>1
    <2>2. r \in Seq(X)
      BY <2>1
    <2>3. PICK ix : Picks(s, set, r, ix, k - 1)
      BY <2>1
    <2>4. Len(r) \in Nat
      BY <2>2, SeqIs
    <2>5. CASE s[k] \in set
      <3>1. PICK q : q = Append(r, s[k])
        OBVIOUS
      <3>2. /\ q \in Seq(X) /\ Len(q) = Len(r) + 1
            /\ (\A i \in 1..Len(r) : q[i] = r[i]) /\ q[Len(r) + 1] = s[k]
        BY <3>1, <2>1, <2>2, AppendSet
      <3>3. PICK jx : jx = [i \in 1..(Len(r) + 1) |-> IF i = Len(r) + 1 THEN k ELSE ix[i]]
        OBVIOUS
      <3>4. (\A i \in 1..Len(r) : jx[i] = ix[i] /\ ix[i] \in 1..(k - 1)) /\ jx[Len(r) + 1] = k
        BY <3>3, <2>3, <2>4 DEF Picks
      <3>5. jx \in [1..Len(q) -> 1..k]
        <4>0. \A i \in 1..(Len(r) + 1) : i \in 1..Len(r) \/ i = Len(r) + 1
          BY <2>4
        <4>1. \A i \in 1..(Len(r) + 1) : jx[i] \in 1..k
          BY <3>4, <4>0
        <4> QED BY <4>1, <3>2, <3>3
      <3>6. \A i, j \in 1..Len(q) : i < j => jx[i] < jx[j]
        <4> SUFFICES ASSUME NEW i \in 1..Len(q), NEW j \in 1..Len(q), i < j
                     PROVE  jx[i] < jx[j]
          OBVIOUS
        <4>0. i \in 1..(Len(r) + 1) /\ j \in 1..(Len(r) + 1)
          BY <3>2
        <4>1. i \in 1..Len(r) /\ (j \in 1..Len(r) \/ j = Len(r) + 1)
          BY <4>0, <2>4
        <4> QED BY <4>1, <3>4, <2>3 DEF Picks
      <3>7. \A i \in 1..Len(q) : q[i] = s[jx[i]] /\ q[i] \in set
        <4> SUFFICES ASSUME NEW i \in 1..Len(q)
                     PROVE  q[i] = s[jx[i]] /\ q[i] \in set
          OBVIOUS
        <4>1. i \in 1..Len(r) \/ i = Len(r) + 1
          BY <3>2, <2>4
        <4> QED BY <4>1, <3>2, <3>4, <2>3, <2>5 DEF Picks
      <3>8. \A j \in 1..k : s[j] \in set => \E i \in 1..Len(q) : jx[i] = j
        <4> SUFFICES ASSUME NEW j \in 1..k, s[j] \in set
                     PROVE  \E i \in 1..Len(q) : jx[i] = j
          OBVIOUS
        <4>1. CASE j = k
          <5>1. Len(r) + 1 \in 1..Len(q)
            BY <3>2, <2>4
          <5> QED BY <4>1, <5>1, <3>4
        <4>2. CASE j # k
          <5>1. j \in 1..(k - 1)
            BY <4>2
          <5>2. PICK i \in 1..Len(r) : ix[i] = j
            BY <5>1, <2>3 DEF Picks
          <5>3. i \in 1..Len(q)
            BY <3>2, <2>4
          <5> QED BY <5>2, <5>3, <3>4
        <4> QED BY <4>1, <4>2
      <3>9. Picks(s, set, q, jx, k)
        BY <3>5, <3>6, <3>7, <3>8 DEF Picks
      <3> QED BY <3>1, <3>2, <3>9, <2>1, <2>5
    <2>6. CASE s[k] \notin set
      <3>1. Picks(s, set, r, ix, k)
        <4>1. ix \in [1..Len(r) -> 1..k]
          BY <2>3 DEF Picks
        <4>2. \A j \in 1..k : s[j] \in set => j \in 1..(k - 1)
          BY <2>6
        <4> QED BY <4>1, <4>2, <2>3 DEF Picks
      <3> QED BY <3>1, <2>1, <2>2, <2>6
    <2> QED BY <2>5, <2>6
  <1>3. <<>> \in W[0]
    <2>1. PICK ix : ix = [i \in 1..0 |-> 0]
      OBVIOUS
    <2>2. Picks(s, set, <<>>, ix, 0)
      BY <2>1 DEF Picks
    <2> QED BY <2>2, <1>1
  <1>4. \A k \in 1..Len(s) : \A r \in W[k - 1] : r \in Seq(X) /\ G[<<k, r>>] = T(k, r)
    <2> SUFFICES ASSUME NEW k \in 1..Len(s), NEW r \in W[k - 1]
                 PROVE  r \in Seq(X) /\ G[<<k, r>>] = T(k, r)
      OBVIOUS
    <2>1. k - 1 \in 0..Len(s)
      BY <1>1
    <2>2. r \in Seq(X)
      BY <2>1
    <2> QED BY <2>2
  <1>5. Turns0(Len(s), W, <<>>, G)
    BY <1>2, <1>3, <1>4 DEF Turns0
  <1> HIDE DEF W, G
  <1>6. PICK f : Turned0(f, Len(s), W, <<>>, G)
    BY <1>1, <1>5, LoopExists
  <1>7. f = AmongStep(s, set, f)
    <2>1. \A k \in 1..Len(s) : k \in 0..Len(s) /\ k - 1 \in 0..Len(s) /\ k # 0
      BY <1>1
    <2>2. \A k \in 1..Len(s) : f[k] = T(k, f[k - 1])
      BY <2>1, <1>4, <1>6 DEF Turned0
    <2>3. \A k \in 0..Len(s) :
            f[k] = IF k = 0 THEN <<>> ELSE T(k, f[k - 1])
      <3> HIDE DEF T
      <3>1. \A k \in 0..Len(s) : k = 0 \/ k \in 1..Len(s)
        BY <1>1
      <3> QED BY <2>1, <2>2, <3>1, <1>6 DEF Turned0
    <2>4. f = [k \in 0..Len(s) |-> f[k]]
      BY <1>6 DEF Turned0
    <2> QED BY <2>3, <2>4 DEF AmongStep
  <1>8. PICK h : h = Amongs(s, set)
    OBVIOUS
  <1>9. h = AmongStep(s, set, h)
    BY <1>7, <1>8 DEF Amongs
  <1>10. h[0] = <<>> /\ \A k \in 1..Len(s) : h[k] = T(k, h[k - 1])
    <2>1. 0 \in 0..Len(s) /\ \A k \in 1..Len(s) : k \in 0..Len(s) /\ k # 0
      BY <1>1
    <2>2. \A k \in 0..Len(s) : h[k] = IF k = 0 THEN <<>> ELSE T(k, h[k - 1])
      BY <1>9 DEF AmongStep
    <2> QED BY <2>1, <2>2
  <1>11. \A k \in 1..Len(s) : h[k - 1] \in W[k - 1] => h[k] \in W[k]
    <2> HIDE DEF T
    <2> QED BY <1>2, <1>10
  <1>12. h[Len(s)] \in W[Len(s)]
    <2>1. h[0] \in W[0]
      BY <1>3, <1>10
    <2>2. \A k \in 0..Len(s) : h[k] \in W[k]
      BY <1>1, <2>1, <1>11, LoopStays
    <2> QED BY <2>2, <1>1
  <1>13. Among(s, set) = h[Len(s)]
    BY <1>8 DEF Among, Amongs, AmongStep
  <1> QED BY <1>1, <1>12, <1>13 DEF W

LEMMA AmongIs ==
  ASSUME NEW X, NEW s \in Seq(X), NEW set
  PROVE  /\ Among(s, set) \in Seq(X) /\ ToSet(Among(s, set)) = ToSet(s) \cap set
         /\ IsInjective(s) => IsInjective(Among(s, set))
  <1>1. PICK r, ix : r = Among(s, set) /\ r \in Seq(X) /\ Picks(s, set, r, ix, Len(s))
    BY AmongPicks
  <1>2. /\ Len(s) \in Nat /\ Len(r) \in Nat /\ DOMAIN s = 1..Len(s) /\ DOMAIN r = 1..Len(r)
        /\ ToSet(s) = {s[i] : i \in 1..Len(s)} /\ ToSet(r) = {r[i] : i \in 1..Len(r)}
    BY <1>1, SeqIs
  <1>3. ToSet(r) \subseteq ToSet(s) \cap set
    BY <1>1, <1>2 DEF Picks
  <1>4. ToSet(s) \cap set \subseteq ToSet(r)
    BY <1>1, <1>2 DEF Picks
  <1>5. IsInjective(s) => IsInjective(r)
    <2> SUFFICES ASSUME IsInjective(s), NEW i \in 1..Len(r), NEW j \in 1..Len(r), r[i] = r[j]
                 PROVE  i = j
      BY <1>2 DEF IsInjective
    <2>1. ix[i] \in 1..Len(s) /\ ix[j] \in 1..Len(s) /\ s[ix[i]] = s[ix[j]]
      BY <1>1 DEF Picks
    <2>2. ix[i] = ix[j]
      BY <2>1, <1>2 DEF IsInjective
    <2>3. (i < j => ix[i] < ix[j]) /\ (j < i => ix[j] < ix[i])
      BY <1>1 DEF Picks
    <2> QED BY <2>1, <2>2, <2>3, <1>2
  <1> QED BY <1>1, <1>3, <1>4, <1>5

(* Boxes *)

LEMMA LeastInt ==
  ASSUME NEW S \in SUBSET Int, IsFiniteSet(S), S # {}
  PROVE  \E x \in S : \A y \in S : x <= y
  <1> DEFINE Least(R) == \E x \in R : \A y \in R : x <= y
             T == {n \in Nat : \A R \in SUBSET Int :
                                 IsFiniteSet(R) /\ Cardinality(R) = n + 1 => Least(R)}
  <1>1. 0 \in T
    <2> SUFFICES ASSUME NEW R \in SUBSET Int, IsFiniteSet(R), Cardinality(R) = 1
                 PROVE  Least(R)
      OBVIOUS
    <2>1. PICK x : R = {x}
      BY FS_Singleton
    <2> QED BY <2>1
  <1>2. ASSUME NEW n \in Nat, n \in T
        PROVE  n + 1 \in T
    <2> SUFFICES ASSUME NEW R \in SUBSET Int, IsFiniteSet(R), Cardinality(R) = (n + 1) + 1
                 PROVE  Least(R)
      OBVIOUS
    <2>1. R # {}
      BY FS_EmptySet
    <2>2. PICK z \in R : TRUE
      BY <2>1
    <2>3. IsFiniteSet(R \ {z}) /\ Cardinality(R \ {z}) = Cardinality(R) - 1
      BY FS_RemoveElement
    <2>4. R \ {z} \in SUBSET Int /\ Cardinality(R \ {z}) = n + 1
      BY <2>3
    <2>5. Least(R \ {z})
      BY <1>2, <2>3, <2>4
    <2>6. PICK x \in R \ {z} : \A y \in R \ {z} : x <= y
      BY <2>5
    <2>7. CASE x <= z
      BY <2>6, <2>7
    <2>8. CASE ~ (x <= z)
      <3>1. \A y \in R : z <= y
        BY <2>6, <2>8
      <3> QED BY <3>1
    <2> QED BY <2>7, <2>8
  <1> HIDE DEF T
  <1>3. Cardinality(S) \in Nat /\ Cardinality(S) # 0
    BY FS_CardinalityType, FS_EmptySet
  <1>4. PICK n \in Nat : Cardinality(S) = n + 1
    <2>1. Cardinality(S) - 1 \in Nat
      BY <1>3
    <2> QED BY <2>1, <1>3
  <1>5. n \in T
    BY <1>1, <1>2, NatSet
  <1> QED BY <1>4, <1>5 DEF T

LEMMA MinIs ==
  ASSUME NEW S \in SUBSET Int, IsFiniteSet(S), S # {}
  PROVE  Min(S) \in S /\ \A y \in S : Min(S) <= y
  BY LeastInt DEF Min

LEMMA MaxIs ==
  ASSUME NEW S \in SUBSET Int, IsFiniteSet(S), S # {}
  PROVE  Max(S) \in S /\ \A y \in S : y <= Max(S)
  <1> DEFINE N == {0 - x : x \in S}
  <1>1. N \in SUBSET Int /\ N # {}
    <2>1. \A x \in S : 0 - x \in Int
      OBVIOUS
    <2> QED BY <2>1
  <1>2. IsFiniteSet(N)
    <2> DEFINE f == [x \in S |-> 0 - x]
    <2>1. f \in Surjection(S, N)
      BY DEF Surjection
    <2> QED BY <2>1, FS_Surjection
  <1>3. PICK x \in N : \A y \in N : x <= y
    BY <1>1, <1>2, LeastInt
  <1>4. PICK m \in S : x = 0 - m
    OBVIOUS
  <1>5. ASSUME NEW y \in S
        PROVE  m >= y
    <2>1. 0 - y \in N
      OBVIOUS
    <2>2. x <= 0 - y
      BY <2>1, <1>3
    <2> QED BY <2>2, <1>4
  <1>6. \E z \in S : \A y \in S : z >= y
    BY <1>5
  <1>7. Max(S) \in S /\ \A y \in S : Max(S) >= y
    BY <1>6 DEF Max
  <1> QED BY <1>7

LEMMA PairLeast ==
  ASSUME NEW x \in Int, NEW y \in Int
  PROVE  /\ Min({x, y}) = IF x <= y THEN x ELSE y
         /\ Max({x, y}) = IF x <= y THEN y ELSE x
  <1>1. IsFiniteSet({x, y}) /\ {x, y} \in SUBSET Int /\ {x, y} # {}
    <2>1. IsFiniteSet({x}) /\ {x} \cup {y} = {x, y}
      BY FS_Singleton
    <2> QED BY <2>1, FS_AddElement
  <1>2. Min({x, y}) \in {x, y} /\ \A z \in {x, y} : Min({x, y}) <= z
    BY <1>1, MinIs
  <1>3. Max({x, y}) \in {x, y} /\ \A z \in {x, y} : z <= Max({x, y})
    BY <1>1, MaxIs
  <1> QED BY <1>2, <1>3

LEMMA BoxIs ==
  ASSUME NEW b \in BoxSet, NEW a \in Axes
  PROVE  b[a][1] \in Int /\ b[a][2] \in Int /\ b[a] = <<b[a][1], b[a][2]>> /\ Side(b, a) \in Int
  BY DEF BoxSet, Axes, Side

LEMMA AreaIs ==
  ASSUME NEW b \in BoxSet
  PROVE  Area(b) \in Int
  <1>1. Side(b, 1) \in Int /\ Side(b, 2) \in Int
    BY BoxIs DEF Axes
  <1> QED BY <1>1 DEF Area

LEMMA UnionIs ==
  ASSUME NEW b \in BoxSet, NEW c \in BoxSet
  PROVE  Union(b, c) \in BoxSet
  <1>1. \A a \in Axes : /\ Min({b[a][1], c[a][1]}) \in Int
                        /\ Max({b[a][2], c[a][2]}) \in Int
    BY BoxIs, PairLeast
  <1> QED BY <1>1 DEF Union, BoxSet

LEMMA EnlargementIs ==
  ASSUME NEW b \in BoxSet, NEW c \in BoxSet
  PROVE  Enlargement(b, c) \in Int
  <1>1. Area(Union(b, c)) \in Int /\ Area(b) \in Int
    BY UnionIs, AreaIs
  <1> QED BY <1>1 DEF Enlargement

\* The smallest box around a sequence of entries, and around each of them.
LEMMA ComputeBBIs ==
  ASSUME NEW t \in Trees, NEW s \in Seq(Int), ToSet(s) \subseteq Names(t), s # <<>>
  PROVE  /\ ComputeBB(t, s) \in BoxSet
         /\ \A x \in ToSet(s), a \in Axes : /\ ComputeBB(t, s)[a][1] <= Bound(t, x)[a][1]
                                            /\ Bound(t, x)[a][2] <= ComputeBB(t, s)[a][2]
         /\ \A a \in Axes : /\ \E x \in ToSet(s) : ComputeBB(t, s)[a][1] = Bound(t, x)[a][1]
                            /\ \E x \in ToSet(s) : ComputeBB(t, s)[a][2] = Bound(t, x)[a][2]
  <1> DEFINE Lo(a) == {Bound(t, x)[a][1] : x \in ToSet(s)}
             Hi(a) == {Bound(t, x)[a][2] : x \in ToSet(s)}
  <1>1. IsFiniteSet(ToSet(s)) /\ ToSet(s) # {}
    BY LenSet, SeqIs
  <1>2. \A x \in ToSet(s), a \in Axes : Bound(t, x)[a][1] \in Int /\ Bound(t, x)[a][2] \in Int
    BY NodeIs, BoxIs
  <1>3. ASSUME NEW a \in Axes
        PROVE  /\ Lo(a) \in SUBSET Int /\ IsFiniteSet(Lo(a)) /\ Lo(a) # {}
               /\ Hi(a) \in SUBSET Int /\ IsFiniteSet(Hi(a)) /\ Hi(a) # {}
    <2> DEFINE f == [x \in ToSet(s) |-> Bound(t, x)[a][1]]
               g == [x \in ToSet(s) |-> Bound(t, x)[a][2]]
    <2>1. f \in Surjection(ToSet(s), Lo(a)) /\ g \in Surjection(ToSet(s), Hi(a))
      BY DEF Surjection
    <2>2. IsFiniteSet(Lo(a)) /\ IsFiniteSet(Hi(a))
      <3> HIDE DEF f, g, Lo, Hi
      <3> QED BY <1>1, <2>1, FS_Surjection
    <2> QED BY <1>1, <1>2, <2>2
  <1>4. ASSUME NEW a \in Axes
        PROVE  /\ Min(Lo(a)) \in Lo(a) /\ \A y \in Lo(a) : Min(Lo(a)) <= y
               /\ Max(Hi(a)) \in Hi(a) /\ \A y \in Hi(a) : y <= Max(Hi(a))
    <2> HIDE DEF Lo, Hi
    <2> QED BY <1>3, MinIs, MaxIs
  <1>5. PICK b : b = ComputeBB(t, s)
    OBVIOUS
  <1>6. b = [a \in Axes |-> <<Min(Lo(a)), Max(Hi(a))>>]
    BY <1>5 DEF ComputeBB
  <1>7. \A a \in Axes : b[a] = <<Min(Lo(a)), Max(Hi(a))>>
    <2> HIDE DEF Lo, Hi
    <2> QED BY <1>6
  <1>8. \A a \in Axes : b[a][1] = Min(Lo(a)) /\ b[a][2] = Max(Hi(a))
    <2> HIDE DEF Lo, Hi
    <2> QED BY <1>7
  <1>9. b \in BoxSet
    <2>1. \A a \in Axes : Min(Lo(a)) \in Int /\ Max(Hi(a)) \in Int
      BY <1>3, <1>4
    <2> HIDE DEF Lo, Hi
    <2> QED BY <1>6, <2>1 DEF BoxSet
  <1>10. \A x \in ToSet(s), a \in Axes : b[a][1] <= Bound(t, x)[a][1] /\ Bound(t, x)[a][2] <= b[a][2]
    <2> SUFFICES ASSUME NEW x \in ToSet(s), NEW a \in Axes
                 PROVE  b[a][1] <= Bound(t, x)[a][1] /\ Bound(t, x)[a][2] <= b[a][2]
      OBVIOUS
    <2>1. Bound(t, x)[a][1] \in Lo(a) /\ Bound(t, x)[a][2] \in Hi(a)
      OBVIOUS
    <2> HIDE DEF Lo, Hi
    <2> QED BY <2>1, <1>4, <1>8
  <1>11. ASSUME NEW a \in Axes
         PROVE  /\ \E x \in ToSet(s) : b[a][1] = Bound(t, x)[a][1]
                /\ \E x \in ToSet(s) : b[a][2] = Bound(t, x)[a][2]
    <2>1. b[a][1] \in Lo(a) /\ b[a][2] \in Hi(a)
      <3> HIDE DEF Lo, Hi
      <3> QED BY <1>4, <1>8
    <2> QED BY <2>1
  <1> QED BY <1>5, <1>9, <1>10, <1>11

\* It depends on the boxes of the entries alone, not on their order.
LEMMA ComputeBBSame ==
  ASSUME NEW t \in Trees, NEW u \in Trees, NEW s, NEW r, ToSet(s) = ToSet(r),
         \A x \in ToSet(s) : Bound(t, x) = Bound(u, x)
  PROVE  ComputeBB(t, s) = ComputeBB(u, r)
  <1>1. \A a \in Axes : /\ {Bound(t, x)[a][1] : x \in ToSet(s)} = {Bound(u, x)[a][1] : x \in ToSet(r)}
                        /\ {Bound(t, x)[a][2] : x \in ToSet(s)} = {Bound(u, x)[a][2] : x \in ToSet(r)}
    OBVIOUS
  <1> QED BY <1>1 DEF ComputeBB

-----------------------------------------------------------------------------
(* Splitting *)

LEMMA FreshIs ==
  ASSUME NEW t \in Trees
  PROVE  /\ FreshNode(t) \in Int /\ FreshNode(t) < -2 /\ FreshNode(t) \notin Names(t)
         /\ \A x \in Names(t) : FreshNode(t) < x
  <1>1. Names(t) \in SUBSET Int /\ IsFiniteSet(Names(t)) /\ -2 \in Names(t)
    BY TreeIs
  <1>2. PICK m : m = Min(Names(t))
    OBVIOUS
  <1>3. m \in Int /\ \A y \in Names(t) : m <= y
    BY <1>1, <1>2, MinIs
  <1>4. FreshNode(t) = m - 1
    BY <1>2 DEF FreshNode, Names
  <1> QED BY <1>1, <1>3, <1>4

\* The first place at which a value is largest, and smallest.
LEMMA FirstLargest ==
  ASSUME NEW n \in Nat \ {0}, NEW v \in [1..n -> Int]
  PROVE  Min({i \in 1..n : \A j \in 1..n : v[j] <= v[i]}) \in {i \in 1..n : \A j \in 1..n : v[j] <= v[i]}
  <1> DEFINE V == {v[i] : i \in 1..n}
             I == {i \in 1..n : \A j \in 1..n : v[j] <= v[i]}
  <1>1. IsFiniteSet(1..n)
    BY FS_Interval
  <1>2. IsFiniteSet(V) /\ V \in SUBSET Int /\ V # {}
    <2>1. v \in Surjection(1..n, V)
      BY DEF Surjection
    <2>2. v[1] \in V
      OBVIOUS
    <2> QED BY <1>1, <2>1, <2>2, FS_Surjection
  <1>3. PICK m : m = Max(V)
    OBVIOUS
  <1>4. m \in V /\ \A y \in V : y <= m
    <2> HIDE DEF V
    <2> QED BY <1>2, <1>3, MaxIs
  <1>5. PICK i \in 1..n : v[i] = m
    BY <1>4
  <1>6. i \in I
    BY <1>4, <1>5
  <1>7. I \in SUBSET Int /\ IsFiniteSet(I)
    BY <1>1, FS_Subset
  <1> HIDE DEF I
  <1> QED BY <1>6, <1>7, MinIs DEF I

LEMMA FirstSmallest ==
  ASSUME NEW n \in Nat \ {0}, NEW v \in [1..n -> Int]
  PROVE  Min({i \in 1..n : \A j \in 1..n : v[i] <= v[j]}) \in {i \in 1..n : \A j \in 1..n : v[i] <= v[j]}
  <1> DEFINE V == {v[i] : i \in 1..n}
             I == {i \in 1..n : \A j \in 1..n : v[i] <= v[j]}
  <1>1. IsFiniteSet(1..n)
    BY FS_Interval
  <1>2. IsFiniteSet(V) /\ V \in SUBSET Int /\ V # {}
    <2>1. v \in Surjection(1..n, V)
      BY DEF Surjection
    <2>2. v[1] \in V
      OBVIOUS
    <2> QED BY <1>1, <2>1, <2>2, FS_Surjection
  <1>3. PICK m : m = Min(V)
    OBVIOUS
  <1>4. m \in V /\ \A y \in V : m <= y
    <2> HIDE DEF V
    <2> QED BY <1>2, <1>3, MinIs
  <1>5. PICK i \in 1..n : v[i] = m
    BY <1>4
  <1>6. i \in I
    BY <1>4, <1>5
  <1>7. I \in SUBSET Int /\ IsFiniteSet(I)
    BY <1>1, FS_Subset
  <1> HIDE DEF I
  <1> QED BY <1>6, <1>7, MinIs DEF I

LEMMA ExtremesIs ==
  ASSUME NEW t \in Trees, NEW s \in Seq(Int), ToSet(s) \subseteq Names(t), s # <<>>, NEW a \in Axes
  PROVE  Extremes(t, s, a).one \in 1..Len(s) /\ Extremes(t, s, a).two \in 1..Len(s)
  <1>1. Len(s) \in Nat \ {0} /\ DOMAIN s = 1..Len(s) /\ \A i \in 1..Len(s) : s[i] \in Names(t)
    BY SeqIs
  <1>2. \A i \in 1..Len(s) : Bound(t, s[i])[a][1] \in Int /\ Bound(t, s[i])[a][2] \in Int
    BY <1>1, NodeIs, BoxIs
  <1>3. PICK lo, hi : /\ lo = [i \in 1..Len(s) |-> Bound(t, s[i])[a][1]]
                      /\ hi = [i \in 1..Len(s) |-> Bound(t, s[i])[a][2]]
    OBVIOUS
  <1>4. lo \in [1..Len(s) -> Int] /\ hi \in [1..Len(s) -> Int]
    BY <1>2, <1>3
  <1>5. /\ {i \in 1..Len(s) : \A j \in 1..Len(s) : Bound(t, s[j])[a][1] <= Bound(t, s[i])[a][1]}
             = {i \in 1..Len(s) : \A j \in 1..Len(s) : lo[j] <= lo[i]}
        /\ {i \in 1..Len(s) : \A j \in 1..Len(s) : Bound(t, s[i])[a][2] <= Bound(t, s[j])[a][2]}
             = {i \in 1..Len(s) : \A j \in 1..Len(s) : hi[i] <= hi[j]}
    BY <1>3
  <1>6. PICK e : e = Extremes(t, s, a)
    OBVIOUS
  <1>7. /\ e.one = Min({i \in 1..Len(s) : \A j \in 1..Len(s) : lo[j] <= lo[i]})
        /\ e.two = Min({i \in 1..Len(s) : \A j \in 1..Len(s) : hi[i] <= hi[j]})
    BY <1>1, <1>5, <1>6 DEF Extremes
  <1>8. e.one \in 1..Len(s)
    BY <1>1, <1>4, <1>7, FirstLargest
  <1>9. e.two \in 1..Len(s)
    BY <1>1, <1>4, <1>7, FirstSmallest
  <1> QED BY <1>6, <1>8, <1>9

LEMMA SeedsAre ==
  ASSUME NEW t \in Trees, NEW s \in Seq(Int), ToSet(s) \subseteq Names(t), Len(s) >= 2
  PROVE  LinearPickSeeds(t, s).one \in 1..Len(s) /\ LinearPickSeeds(t, s).two \in 1..Len(s)
  <1>1. Len(s) \in Nat /\ s # <<>>
    BY SeqIs
  <1>2. PICK p, e, f : p = [one |-> 1, two |-> 2, apart |-> 0, width |-> 0]
                       /\ e = Extremes(t, s, 1) /\ f = Extremes(t, s, 2)
    OBVIOUS
  <1>3. e.one \in 1..Len(s) /\ e.two \in 1..Len(s)
    BY <1>1, <1>2, ExtremesIs DEF Axes
  <1>4. f.one \in 1..Len(s) /\ f.two \in 1..Len(s)
    BY <1>1, <1>2, ExtremesIs DEF Axes
  <1>5. p.one \in 1..Len(s) /\ p.two \in 1..Len(s)
    BY <1>1, <1>2
  <1>6. MoreSeparated(p, e) = p \/ MoreSeparated(p, e) = e
    BY DEF MoreSeparated
  <1>7. PICK q : q = MoreSeparated(p, e)
    OBVIOUS
  <1>8. MoreSeparated(q, f) = q \/ MoreSeparated(q, f) = f
    BY DEF MoreSeparated
  <1>9. LinearPickSeeds(t, s) = MoreSeparated(q, f)
    BY <1>2, <1>7 DEF LinearPickSeeds
  <1> QED BY <1>3, <1>4, <1>5, <1>6, <1>7, <1>8, <1>9

LEMMA PickNextIs ==
  ASSUME NEW t \in Trees, NEW l \in Names(t), NEW s \in Seq(Int), ToSet(s) \subseteq Names(t), s # <<>>
  PROVE  PickNext(t, l, s) \in 1..Len(s)
  <1>1. Len(s) \in Nat \ {0} /\ DOMAIN s = 1..Len(s) /\ \A i \in 1..Len(s) : s[i] \in Names(t)
    BY SeqIs
  <1>2. \A i \in 1..Len(s) : Enlargement(Bound(t, l), Bound(t, s[i])) \in Int
    BY <1>1, NodeIs, EnlargementIs
  <1>3. PICK v : v = [i \in 1..Len(s) |-> Enlargement(Bound(t, l), Bound(t, s[i]))]
    OBVIOUS
  <1>4. v \in [1..Len(s) -> Int]
    BY <1>2, <1>3
  <1>5. {i \in 1..Len(s) : \A j \in 1..Len(s) :
           Enlargement(Bound(t, l), Bound(t, s[j])) <= Enlargement(Bound(t, l), Bound(t, s[i]))}
          = {i \in 1..Len(s) : \A j \in 1..Len(s) : v[j] <= v[i]}
    BY <1>3
  <1>6. PickNext(t, l, s) = Min({i \in 1..Len(s) : \A j \in 1..Len(s) : v[j] <= v[i]})
    BY <1>1, <1>5 DEF PickNext
  <1> QED BY <1>1, <1>4, <1>6, FirstLargest

\* The groups of a split after k of n entries were assigned: all are the entries of the
\* node, and a and b the seeds.
Parts == [one : Seq(Int), two : Seq(Int), rest : Seq(Int)]

Shared(d, all, a, b, n, k) ==
  /\ IsInjective(d.one) /\ IsInjective(d.two) /\ IsInjective(d.rest) /\ Len(d.rest) = n - k
  /\ ToSet(d.one) \subseteq all /\ ToSet(d.two) \subseteq all /\ ToSet(d.rest) \subseteq all
  /\ a \in ToSet(d.one) /\ b \in ToSet(d.two)
  /\ \A x \in ToSet(d.rest) : x \notin ToSet(d.one) /\ x \notin ToSet(d.two)
  /\ a # b => \A x \in ToSet(d.one) : x \notin ToSet(d.two)
  /\ Len(d.one) + Len(d.two) + Len(d.rest) <= n + 2
  /\ Len(d.one) + Len(d.two) + Len(d.rest) = n + 2 =>
       Len(d.one) + Len(d.rest) >= MinChildItems /\ Len(d.two) + Len(d.rest) >= MinChildItems
  /\ all = ToSet(d.one) \cup ToSet(d.two) \cup ToSet(d.rest) =>
       Len(d.one) + Len(d.two) + Len(d.rest) = n + 2

LEMMA GroupForIs ==
  ASSUME NEW t, NEW one, NEW two, NEW rest, NEW x
  PROVE  LET g == GroupFor(t, one, two, rest, x)
         IN  /\ g \in {"one", "two", "neither"}
             /\ Len(one) + Len(rest) <= MinChildItems => g = "one"
             /\ ~ (Len(one) + Len(rest) <= MinChildItems) /\ Len(two) + Len(rest) <= MinChildItems
                  => g = "two"
  <1>1. PICK c, d : c = Cost(t, one, x) /\ d = Cost(t, two, x)
    OBVIOUS
  <1>2. Preferred(t, one, two, x) = Cheaper(c, d)
    BY <1>1 DEF Preferred
  <1>3. Cheaper(c, d) \in {"one", "two", "neither"}
    BY DEF Cheaper
  <1> QED BY <1>2, <1>3 DEF GroupFor

LEMMA AssignShared ==
  ASSUME NEW all, NEW a, NEW b, NEW n \in Nat, NEW k \in 1..n, NEW d \in Parts,
         Shared(d, all, a, b, n, k - 1), NEW i \in 1..Len(d.rest), NEW g \in {"one", "two", "neither"},
         n + 2 >= 2 * MinChildItems,
         Len(d.one) + Len(d.rest) <= MinChildItems => g = "one",
         ~ (Len(d.one) + Len(d.rest) <= MinChildItems) /\ Len(d.two) + Len(d.rest) <= MinChildItems
           => g = "two"
  PROVE  Assign(d, i, g) \in Parts /\ Shared(Assign(d, i, g), all, a, b, n, k)
  <1>1. PICK e : e = Assign(d, i, g)
    OBVIOUS
  <1>2. PICK x : x = d.rest[i]
    OBVIOUS
  <1>3. d.one \in Seq(Int) /\ d.two \in Seq(Int) /\ d.rest \in Seq(Int)
    BY DEF Parts
  <1>4. Len(d.one) \in Nat /\ Len(d.two) \in Nat /\ Len(d.rest) \in Nat /\ x \in ToSet(d.rest) /\ x \in Int
    <2>1. Len(d.one) \in Nat
      BY <1>3, SeqIs
    <2>2. Len(d.two) \in Nat
      BY <1>3, SeqIs
    <2>3. Len(d.rest) \in Nat /\ ToSet(d.rest) = {d.rest[j] : j \in 1..Len(d.rest)} /\ ToSet(d.rest) \subseteq Int
      BY <1>3, SeqIs
    <2> QED BY <2>1, <2>2, <2>3, <1>2
  <1>5. x \notin ToSet(d.one) /\ x \notin ToSet(d.two) /\ x \in all
    BY <1>4 DEF Shared
  <1>6. /\ e.rest \in Seq(Int) /\ Len(e.rest) = Len(d.rest) - 1 /\ IsInjective(e.rest)
        /\ ToSet(e.rest) = ToSet(d.rest) \ {x}
    <2>1. e.rest = RemoveAt(d.rest, i)
      BY <1>1 DEF Assign
    <2>2. IsInjective(d.rest)
      BY DEF Shared
    <2>3. RemoveAt(d.rest, i) \in Seq(Int) /\ Len(RemoveAt(d.rest, i)) = Len(d.rest) - 1
      BY <1>3, RemoveAtIs
    <2>4. IsInjective(RemoveAt(d.rest, i)) /\ ToSet(RemoveAt(d.rest, i)) = ToSet(d.rest) \ {d.rest[i]}
      BY <1>3, <2>2, RemoveAtSet
    <2> QED BY <2>1, <2>3, <2>4, <1>2
  <1>7. PICK p \in Nat, q \in Nat, r \in Nat : p = Len(d.one) /\ q = Len(d.two) /\ r = Len(d.rest)
    BY <1>4
  <1>8. /\ MinChildItems \in Nat /\ r = n - (k - 1) /\ r >= 1
        /\ p + q + r <= n + 2 /\ (p + q + r = n + 2 => p + r >= MinChildItems /\ q + r >= MinChildItems)
        /\ (p + r <= MinChildItems => g = "one")
        /\ (~ (p + r <= MinChildItems) /\ q + r <= MinChildItems => g = "two")
    <2>1. r >= 1
      BY <1>7
    <2>2. MinChildItems \in Nat
      BY RtreeAssumption
    <2> QED BY <2>1, <2>2, <1>7 DEF Shared
  <1>9. all = ToSet(d.one) \cup ToSet(d.two) \cup ToSet(d.rest) => p + q + r = n + 2
    BY <1>7 DEF Shared
  <1>10. Len(e.rest) = r - 1 /\ r - 1 = n - k
    BY <1>6, <1>7, <1>8
  <1>11. CASE g = "one"
    <2>1. e.one = Append(d.one, x) /\ e.two = d.two
      BY <1>1, <1>2, <1>11 DEF Assign
    <2>2. /\ e.one \in Seq(Int) /\ Len(e.one) = p + 1 /\ IsInjective(e.one)
          /\ ToSet(e.one) = ToSet(d.one) \cup {x} /\ Len(e.two) = q
      BY <2>1, <1>3, <1>4, <1>5, <1>7, AppendSet DEF Shared
    <2>3. e \in Parts
      BY <1>1, <1>6, <2>1, <2>2, <1>3 DEF Parts, Assign
    <2>4. /\ (p + 1) + q + (r - 1) = p + q + r
          /\ p + q + r = n + 2 => (p + 1) + (r - 1) >= MinChildItems /\ q + (r - 1) >= MinChildItems
      BY <1>8, <1>11
    <2>5. /\ Len(e.one) + Len(e.two) + Len(e.rest) = p + q + r
          /\ p + q + r = n + 2 =>
               Len(e.one) + Len(e.rest) >= MinChildItems /\ Len(e.two) + Len(e.rest) >= MinChildItems
      BY <1>10, <2>2, <2>4
    <2>6. ToSet(e.one) \cup ToSet(e.two) \cup ToSet(e.rest) = ToSet(d.one) \cup ToSet(d.two) \cup ToSet(d.rest)
      BY <1>4, <1>6, <2>1, <2>2
    <2>7. /\ IsInjective(e.two) /\ ToSet(e.one) \subseteq all /\ ToSet(e.two) \subseteq all
          /\ ToSet(e.rest) \subseteq all /\ a \in ToSet(e.one) /\ b \in ToSet(e.two)
          /\ \A y \in ToSet(e.rest) : y \notin ToSet(e.one) /\ y \notin ToSet(e.two)
          /\ a # b => \A y \in ToSet(e.one) : y \notin ToSet(e.two)
      BY <1>5, <1>6, <2>1, <2>2 DEF Shared
    <2> QED BY <1>1, <1>6, <1>8, <1>9, <1>10, <2>2, <2>3, <2>5, <2>6, <2>7 DEF Shared
  <1>12. CASE g = "two"
    <2>1. e.two = Append(d.two, x) /\ e.one = d.one
      BY <1>1, <1>2, <1>12 DEF Assign
    <2>2. /\ e.two \in Seq(Int) /\ Len(e.two) = q + 1 /\ IsInjective(e.two)
          /\ ToSet(e.two) = ToSet(d.two) \cup {x} /\ Len(e.one) = p
      BY <2>1, <1>3, <1>4, <1>5, <1>7, AppendSet DEF Shared
    <2>3. e \in Parts
      BY <1>1, <1>6, <2>1, <2>2, <1>3 DEF Parts, Assign
    <2>4. /\ p + (q + 1) + (r - 1) = p + q + r
          /\ p + q + r = n + 2 => p + (r - 1) >= MinChildItems /\ (q + 1) + (r - 1) >= MinChildItems
      BY <1>8, <1>12
    <2>5. /\ Len(e.one) + Len(e.two) + Len(e.rest) = p + q + r
          /\ p + q + r = n + 2 =>
               Len(e.one) + Len(e.rest) >= MinChildItems /\ Len(e.two) + Len(e.rest) >= MinChildItems
      BY <1>10, <2>2, <2>4
    <2>6. ToSet(e.one) \cup ToSet(e.two) \cup ToSet(e.rest) = ToSet(d.one) \cup ToSet(d.two) \cup ToSet(d.rest)
      BY <1>4, <1>6, <2>1, <2>2
    <2>7. /\ IsInjective(e.one) /\ ToSet(e.one) \subseteq all /\ ToSet(e.two) \subseteq all
          /\ ToSet(e.rest) \subseteq all /\ a \in ToSet(e.one) /\ b \in ToSet(e.two)
          /\ \A y \in ToSet(e.rest) : y \notin ToSet(e.one) /\ y \notin ToSet(e.two)
          /\ a # b => \A y \in ToSet(e.one) : y \notin ToSet(e.two)
      BY <1>5, <1>6, <2>1, <2>2 DEF Shared
    <2> QED BY <1>1, <1>6, <1>8, <1>9, <1>10, <2>2, <2>3, <2>5, <2>6, <2>7 DEF Shared
  <1>13. CASE g = "neither"
    <2>1. e.two = d.two /\ e.one = d.one
      BY <1>1, <1>2, <1>13 DEF Assign
    <2>2. Len(e.one) = p /\ Len(e.two) = q
      BY <2>1, <1>7
    <2>3. e \in Parts
      BY <1>1, <1>6, <2>1, <1>3 DEF Parts, Assign
    <2>4. p + q + (r - 1) <= n + 2 /\ p + q + (r - 1) # n + 2
      BY <1>8
    <2>5. /\ Len(e.one) + Len(e.two) + Len(e.rest) <= n + 2
          /\ Len(e.one) + Len(e.two) + Len(e.rest) # n + 2
      BY <1>10, <2>2, <2>4
    <2>6. all # ToSet(e.one) \cup ToSet(e.two) \cup ToSet(e.rest)
      BY <1>5, <1>6, <2>1
    <2>7. /\ IsInjective(e.one) /\ IsInjective(e.two) /\ ToSet(e.one) \subseteq all /\ ToSet(e.two) \subseteq all
          /\ ToSet(e.rest) \subseteq all /\ a \in ToSet(e.one) /\ b \in ToSet(e.two)
          /\ \A y \in ToSet(e.rest) : y \notin ToSet(e.one) /\ y \notin ToSet(e.two)
          /\ a # b => \A y \in ToSet(e.one) : y \notin ToSet(e.two)
      BY <1>5, <1>6, <2>1 DEF Shared
    <2> QED BY <1>1, <1>6, <1>10, <2>3, <2>5, <2>6, <2>7 DEF Shared
  <1> QED BY <1>11, <1>12, <1>13

-----------------------------------------------------------------------------
DistributeStep(t, l, one, two, rest, h) ==
  [k \in 0..Len(rest) |->
     IF k = 0 THEN [one |-> <<one>>, two |-> <<two>>, rest |-> rest]
     ELSE AssignPicked(t, h[k - 1], PickNext(t, l, h[k - 1].rest))]

Distributes(t, l, one, two, rest) == CHOOSE h : h = DistributeStep(t, l, one, two, rest, h)

LEMMA DistributeIs ==
  ASSUME NEW t \in Trees, NEW l \in Names(t), NEW all \in SUBSET Names(t), NEW a \in all, NEW b \in all,
         NEW rest \in Seq(Int), IsInjective(rest), ToSet(rest) = all \ {a, b},
         Len(rest) + 2 >= 2 * MinChildItems
  PROVE  /\ Distribute(t, l, a, b, rest) \in Parts
         /\ Shared(Distribute(t, l, a, b, rest), all, a, b, Len(rest), Len(rest))
  <1> DEFINE n == Len(rest)
             W == [k \in 0..n |-> {d \in Parts : Shared(d, all, a, b, n, k)}]
             T(d) == AssignPicked(t, d, PickNext(t, l, d.rest))
             G == [kd \in (1..n) \X Parts |-> T(kd[2])]
             base == [one |-> <<a>>, two |-> <<b>>, rest |-> rest]
  <1>1. n \in Nat /\ a \in Int /\ b \in Int
    BY SeqIs, TreeIs
  <1>2. base \in W[0]
    <2>1. <<a>> \in Seq(Int) /\ Len(<<a>>) = 1 /\ ToSet(<<a>>) = {a} /\ IsInjective(<<a>>)
      BY <1>1, SingleSeq
    <2>2. <<b>> \in Seq(Int) /\ Len(<<b>>) = 1 /\ ToSet(<<b>>) = {b} /\ IsInjective(<<b>>)
      BY <1>1, SingleSeq
    <2>3. PICK d : d = base
      OBVIOUS
    <2>4. d \in Parts /\ d.one = <<a>> /\ d.two = <<b>> /\ d.rest = rest
      BY <2>1, <2>2, <2>3 DEF Parts
    <2>5. Len(d.one) = 1 /\ Len(d.two) = 1 /\ Len(d.rest) = n
      BY <2>1, <2>2, <2>4
    <2>6. Len(d.one) + Len(d.two) + Len(d.rest) = n + 2
      BY <2>5, <1>1
    <2>7. Len(d.one) + Len(d.rest) >= MinChildItems /\ Len(d.two) + Len(d.rest) >= MinChildItems
      BY <2>5, <1>1, RtreeAssumption
    <2>8. Shared(d, all, a, b, n, 0)
      <3>1. \A x \in ToSet(d.rest) : x \notin ToSet(d.one) /\ x \notin ToSet(d.two)
        BY <2>1, <2>2, <2>4
      <3>2. Len(d.rest) = n - 0 /\ Len(d.one) + Len(d.two) + Len(d.rest) <= n + 2
        BY <2>5, <2>6, <1>1
      <3> QED BY <3>1, <3>2, <2>1, <2>2, <2>4, <2>6, <2>7 DEF Shared
    <2> QED BY <2>3, <2>4, <2>8, <1>1
  <1>3. ASSUME NEW k \in 1..n, NEW d \in W[k - 1]
        PROVE  d \in Parts /\ T(d) \in W[k]
    <2>1. k - 1 \in 0..n /\ k \in 0..n
      BY <1>1
    <2>2. d \in Parts /\ Shared(d, all, a, b, n, k - 1)
      BY <2>1
    <2>3. d.rest \in Seq(Int) /\ Len(d.rest) = n - (k - 1) /\ ToSet(d.rest) \subseteq Names(t)
      BY <2>2 DEF Parts, Shared
    <2>4. d.rest # <<>>
      BY <2>3, <1>1, SeqIs
    <2>5. PICK i : i = PickNext(t, l, d.rest)
      OBVIOUS
    <2>6. i \in 1..Len(d.rest)
      BY <2>3, <2>4, <2>5, PickNextIs
    <2>7. PICK g : g = GroupFor(t, d.one, d.two, d.rest, d.rest[i])
      OBVIOUS
    <2>8. /\ g \in {"one", "two", "neither"}
          /\ Len(d.one) + Len(d.rest) <= MinChildItems => g = "one"
          /\ ~ (Len(d.one) + Len(d.rest) <= MinChildItems) /\ Len(d.two) + Len(d.rest) <= MinChildItems
               => g = "two"
      BY <2>7, GroupForIs
    <2>9. Assign(d, i, g) \in Parts /\ Shared(Assign(d, i, g), all, a, b, n, k)
      BY <2>2, <2>6, <2>8, <1>1, AssignShared
    <2>10. T(d) = Assign(d, i, g)
      BY <2>5, <2>7 DEF AssignPicked
    <2> HIDE DEF T
    <2> QED BY <2>1, <2>2, <2>9, <2>10
  <1>4. \A k \in 1..n : \A d \in W[k - 1] : G[<<k, d>>] = T(d)
    <2> SUFFICES ASSUME NEW k \in 1..n, NEW d \in W[k - 1]
                 PROVE  G[<<k, d>>] = T(d)
      OBVIOUS
    <2>1. d \in Parts
      BY <1>3
    <2> HIDE DEF T, W
    <2> QED BY <2>1
  <1> HIDE DEF W, G, T, base
  <1>5. Turns0(n, W, base, G)
    BY <1>2, <1>3, <1>4 DEF Turns0
  <1>6. PICK f : Turned0(f, n, W, base, G)
    BY <1>1, <1>5, LoopExists
  <1>7. f = DistributeStep(t, l, a, b, rest, f)
    <2>1. \A k \in 1..n : k \in 0..n /\ k - 1 \in 0..n /\ k # 0
      BY <1>1
    <2>2. \A k \in 1..n : f[k] = T(f[k - 1])
      BY <2>1, <1>4, <1>6 DEF Turned0
    <2>3. \A k \in 0..n : f[k] = IF k = 0 THEN base ELSE T(f[k - 1])
      <3>1. \A k \in 0..n : k = 0 \/ k \in 1..n
        BY <1>1
      <3> QED BY <2>1, <2>2, <3>1, <1>6 DEF Turned0
    <2>4. f = [k \in 0..n |-> f[k]]
      BY <1>6 DEF Turned0
    <2>5. f = [k \in 0..n |-> IF k = 0 THEN base ELSE T(f[k - 1])]
      BY <2>3, <2>4
    <2> QED BY <2>5 DEF DistributeStep, base, T
  <1>8. PICK h : h = Distributes(t, l, a, b, rest)
    OBVIOUS
  <1>9. h = DistributeStep(t, l, a, b, rest, h)
    BY <1>7, <1>8 DEF Distributes
  <1>10. h[0] = base /\ \A k \in 1..n : h[k] = T(h[k - 1])
    <2>1. 0 \in 0..n /\ \A k \in 1..n : k \in 0..n /\ k # 0
      BY <1>1
    <2>2. h = [k \in 0..n |-> IF k = 0 THEN base ELSE T(h[k - 1])]
      BY <1>9 DEF DistributeStep, base, T
    <2>3. \A k \in 0..n : h[k] = IF k = 0 THEN base ELSE T(h[k - 1])
      BY <2>2
    <2> QED BY <2>1, <2>3
  <1>11. \A k \in 1..n : h[k - 1] \in W[k - 1] => h[k] \in W[k]
    BY <1>3, <1>10
  <1>12. h[n] \in W[n]
    <2>1. h[0] \in W[0]
      BY <1>2, <1>10
    <2>2. \A k \in 0..n : h[k] \in W[k]
      BY <1>1, <2>1, <1>11, LoopStays
    <2> QED BY <2>2, <1>1
  <1>13. Distribute(t, l, a, b, rest) = h[n]
    BY <1>8 DEF Distribute, Distributes, DistributeStep
  <1> QED BY <1>1, <1>12, <1>13 DEF W

Marked(t, p, q) == [t EXCEPT !.twin = p, !.tied = q]

IsMarked(t, u, p, q) ==
  /\ u \in Trees /\ Names(u) = Names(t) /\ u.node = t.node
  /\ u.root = t.root /\ u.size = t.size /\ u.height = t.height
  /\ u.twin = p /\ u.tied = q /\ u.lopped = t.lopped /\ u.skewed = t.skewed

LEMMA MarkedIs ==
  ASSUME NEW t \in Trees, NEW p \in BOOLEAN, NEW q \in BOOLEAN
  PROVE  IsMarked(t, Marked(t, p, q), p, q)
  BY DEF Trees, Names, Marked, IsMarked

\* What a split of node l of t leads to: tree u, in which l has the entries one and a new
\* node the entries two.
IsSplit(t, l, u, new, one, two) ==
  /\ u \in Trees /\ new = FreshNode(t) /\ Names(u) = Names(t) \cup {new}
  /\ u.root = t.root /\ u.size = t.size /\ u.height = t.height
  /\ u.lopped = t.lopped /\ u.skewed = t.skewed
  /\ one \in Seq(Int) /\ two \in Seq(Int) /\ IsInjective(one) /\ IsInjective(two)
  /\ Len(one) >= 1 /\ Len(one) <= MaxChildItems /\ Len(two) >= 1 /\ Len(two) <= MaxChildItems
  /\ ToSet(one) \subseteq ToSet(Items(t, l)) /\ ToSet(two) \subseteq ToSet(Items(t, l))
  /\ ~ u.twin => ~ t.twin /\ ToSet(one) \cap ToSet(two) = {}
  /\ ~ u.tied => /\ ~ t.tied /\ ToSet(Items(t, l)) = ToSet(one) \cup ToSet(two)
                 /\ Len(one) >= MinChildItems /\ Len(two) >= MinChildItems
  /\ Items(u, l) = one /\ Items(u, new) = two
  /\ \A x \in Names(t) : x # l => Items(u, x) = Items(t, x)
  /\ \A x \in Names(t) : Bound(u, x) = Bound(t, x) /\ u.node[x].leaf = t.node[x].leaf
  /\ u.node[new].leaf = t.node[l].leaf /\ u.node[new].up = t.node[l].up
  /\ \A x \in Names(t) :
       u.node[x].up = IF x \in ToSet(two) THEN new ELSE IF x \in ToSet(one) THEN l ELSE t.node[x].up

LEMMA NoBoxIs == NoBox \in BoxSet
  BY DEF NoBox, BoxSet

LEMMA NodeOfIs ==
  ASSUME NEW s \in Seq(Int), NEW b \in BoxSet, NEW f \in BOOLEAN, NEW p \in Int
  PROVE  /\ NodeOf(s, b, f, p) \in Fields
         /\ NodeOf(s, b, f, p).items = s /\ NodeOf(s, b, f, p).bound = b
         /\ NodeOf(s, b, f, p).leaf = f /\ NodeOf(s, b, f, p).up = p
  BY DEF NodeOf, Fields

LEMMA HalvesAre ==
  ASSUME NEW t \in Trees, NEW l \in Names(t), NEW seeds, NEW g \in Parts,
         ToSet(Items(t, l)) \subseteq Names(t),
         ToSet(g.one) \subseteq ToSet(Items(t, l)), ToSet(g.two) \subseteq ToSet(Items(t, l)),
         IsInjective(g.one), IsInjective(g.two),
         Len(g.one) >= 1, Len(g.one) <= MaxChildItems, Len(g.two) >= 1, Len(g.two) <= MaxChildItems,
         Cardinality(seeds) # 1 => ToSet(g.one) \cap ToSet(g.two) = {},
         ToSet(Items(t, l)) = ToSet(g.one) \cup ToSet(g.two) =>
           Len(g.one) >= MinChildItems /\ Len(g.two) >= MinChildItems
  PROVE  IsSplit(t, l, Halves(t, l, seeds, g).tree, Halves(t, l, seeds, g).new, g.one, g.two)
  <1>1. PICK new : new = FreshNode(t)
    OBVIOUS
  <1>2. new \in Int /\ new < -2 /\ new \notin Names(t) /\ new # -1
    BY <1>1, FreshIs
  <1>3. g.one \in Seq(Int) /\ g.two \in Seq(Int) /\ l \in Int
    BY TreeIs DEF Parts
  <1>4. PICK f : f = NodeOf(g.two, NoBox, t.node[l].leaf, t.node[l].up)
    OBVIOUS
  <1>5. /\ f \in Fields /\ f.items = g.two /\ f.bound = NoBox
        /\ f.leaf = t.node[l].leaf /\ f.up = t.node[l].up
    BY <1>3, <1>4, NodeOfIs, NoBoxIs, NodeIs
  <1>6. PICK s : s = SetItems(t, l, g.one)
    OBVIOUS
  <1>7. /\ s \in Trees /\ Names(s) = Names(t) /\ SameTop(t, s)
        /\ \A x \in Names(t) : /\ Items(s, x) = IF x = l THEN g.one ELSE Items(t, x)
                               /\ Bound(s, x) = Bound(t, x)
                               /\ s.node[x].leaf = t.node[x].leaf /\ s.node[x].up = t.node[x].up
    BY <1>3, <1>6, SetItemsIs
  <1>8. PICK t1 : t1 = Put(s, new, f)
    OBVIOUS
  <1>9. /\ t1 \in Trees /\ Names(t1) = {new} \cup Names(t) /\ SameTop(s, t1)
        /\ \A x \in Names(t1) : t1.node[x] = IF x = new THEN f ELSE s.node[x]
    <2>1. s \in Trees /\ new \in Int /\ new # -1 /\ f \in Fields
      BY <1>2, <1>5, <1>7
    <2>2. /\ t1 \in Trees /\ Names(t1) = {new} \cup Names(s) /\ SameTop(s, t1)
          /\ \A x \in Names(t1) : t1.node[x] = IF x = new THEN f ELSE s.node[x]
      BY <2>1, <1>8, PutIs
    <2> QED BY <2>2, <1>7
  <1>10. PICK p \in BOOLEAN, q \in BOOLEAN :
                     /\ p = (t.twin \/ Cardinality(seeds) = 1)
                     /\ q = (t.tied \/ ToSet(Items(t, l)) # ToSet(g.one) \cup ToSet(g.two))
    BY TreeIs, Zenon
  <1>12. PICK t2 : t2 = Marked(t1, p, q)
    OBVIOUS
  <1>13. /\ t2 \in Trees /\ Names(t2) = Names(t1) /\ t2.node = t1.node
         /\ t2.root = t1.root /\ t2.size = t1.size /\ t2.height = t1.height
         /\ t2.twin = p /\ t2.tied = q /\ t2.lopped = t1.lopped /\ t2.skewed = t1.skewed
    <2>1. t1 \in Trees
      BY <1>9
    <2>2. IsMarked(t1, t2, p, q)
      BY <2>1, <1>12, MarkedIs
    <2> QED BY <2>2 DEF IsMarked
  <1>14. PICK t3 : t3 = SetParent(t2, ToSet(g.one), l)
    OBVIOUS
  <1>15. /\ t3 \in Trees /\ Names(t3) = Names(t2) /\ SameTop(t2, t3)
         /\ \A n \in Names(t2) : /\ Items(t3, n) = Items(t2, n) /\ Bound(t3, n) = Bound(t2, n)
                                 /\ t3.node[n].leaf = t2.node[n].leaf
                                 /\ t3.node[n].up = IF n \in ToSet(g.one) THEN l ELSE t2.node[n].up
    BY <1>3, <1>13, <1>14, SetParentIs
  <1>16. PICK u : u = SetParent(t3, ToSet(g.two), new)
    OBVIOUS
  <1>17. /\ u \in Trees /\ Names(u) = Names(t3) /\ SameTop(t3, u)
         /\ \A n \in Names(t3) : /\ Items(u, n) = Items(t3, n) /\ Bound(u, n) = Bound(t3, n)
                                 /\ u.node[n].leaf = t3.node[n].leaf
                                 /\ u.node[n].up = IF n \in ToSet(g.two) THEN new ELSE t3.node[n].up
    BY <1>2, <1>15, <1>16, SetParentIs
  <1>18. Halves(t, l, seeds, g).tree = u /\ Halves(t, l, seeds, g).new = new
    BY <1>1, <1>4, <1>6, <1>8, <1>10, <1>12, <1>14, <1>16 DEF Halves, Marked
  <1>19. Names(u) = Names(t) \cup {new} /\ Names(t3) = Names(u) /\ Names(t2) = Names(u) /\ Names(t1) = Names(u)
    BY <1>9, <1>13, <1>15, <1>17
  <1>20. ASSUME NEW x \in Names(t)
         PROVE  /\ Items(u, x) = IF x = l THEN g.one ELSE Items(t, x)
                /\ Bound(u, x) = Bound(t, x) /\ u.node[x].leaf = t.node[x].leaf
                /\ u.node[x].up = IF x \in ToSet(g.two) THEN new
                                  ELSE IF x \in ToSet(g.one) THEN l ELSE t.node[x].up
    <2>1. x \in Names(u) /\ x # new
      BY <1>2, <1>19
    <2>2. t2.node[x] = s.node[x]
      BY <2>1, <1>9, <1>13, <1>19
    <2>3. /\ Items(t2, x) = Items(s, x) /\ Bound(t2, x) = Bound(s, x)
          /\ t2.node[x].leaf = s.node[x].leaf /\ t2.node[x].up = s.node[x].up
      BY <2>2 DEF Items, Bound
    <2> QED BY <2>1, <2>3, <1>7, <1>15, <1>17, <1>19
  <1>21. Items(u, new) = g.two /\ u.node[new].leaf = t.node[l].leaf /\ u.node[new].up = t.node[l].up
    <2>1. new \in Names(u) /\ new \notin ToSet(g.one) /\ new \notin ToSet(g.two)
      BY <1>2, <1>19
    <2>2. t2.node[new] = f
      BY <2>1, <1>9, <1>13, <1>19
    <2>3. Items(t2, new) = g.two /\ t2.node[new].leaf = t.node[l].leaf /\ t2.node[new].up = t.node[l].up
      BY <2>2, <1>5 DEF Items
    <2> QED BY <2>1, <2>3, <1>15, <1>17, <1>19
  <1>22. /\ u.root = t.root /\ u.size = t.size /\ u.height = t.height
         /\ u.lopped = t.lopped /\ u.skewed = t.skewed /\ u.twin = p /\ u.tied = q
    BY <1>7, <1>9, <1>13, <1>15, <1>17 DEF SameTop
  <1>23. /\ ~ u.twin => ~ t.twin /\ ToSet(g.one) \cap ToSet(g.two) = {}
         /\ ~ u.tied => /\ ~ t.tied /\ ToSet(Items(t, l)) = ToSet(g.one) \cup ToSet(g.two)
                        /\ Len(g.one) >= MinChildItems /\ Len(g.two) >= MinChildItems
    BY <1>10, <1>22
  <1>24. IsSplit(t, l, u, new, g.one, g.two)
    BY <1>1, <1>3, <1>17, <1>19, <1>20, <1>21, <1>22, <1>23 DEF IsSplit
  <1> QED BY <1>18, <1>24

(* A split of an overfull node. *)
LEMMA SplitNodeIs ==
  ASSUME NEW t \in Trees, NEW l \in Names(t), ToSet(Items(t, l)) \subseteq Names(t),
         IsInjective(Items(t, l)), Len(Items(t, l)) = MaxChildItems + 1
  PROVE  \E one, two : IsSplit(t, l, SplitNode(t, l).tree, SplitNode(t, l).new, one, two)
  <1> DEFINE s == Items(t, l)
             all == ToSet(s)
  <1>1. s \in Seq(Int) /\ Len(s) \in Nat /\ s # <<>> /\ Len(s) >= 2
    <2>1. s \in Seq(Int)
      BY NodeIs
    <2>2. Len(s) \in Nat /\ Len(s) >= 2
      BY RtreeAssumption
    <2> QED BY <2>1, <2>2, SeqIs
  <1>2. PICK e : e = LinearPickSeeds(t, s)
    OBVIOUS
  <1>3. e.one \in 1..Len(s) /\ e.two \in 1..Len(s)
    BY <1>1, <1>2, SeedsAre
  <1>4. PICK a, b : a = s[e.one] /\ b = s[e.two]
    OBVIOUS
  <1>5. a \in all /\ b \in all /\ a \in Int /\ b \in Int
    <2>1. all = {s[i] : i \in 1..Len(s)} /\ all \subseteq Int
      BY <1>1, SeqIs
    <2> QED BY <2>1, <1>3, <1>4
  <1>6. PICK rest : rest = Among(s, all \ {a, b})
    OBVIOUS
  <1>7. rest \in Seq(Int) /\ ToSet(rest) = all \ {a, b} /\ IsInjective(rest)
    <2>1. rest \in Seq(Int) /\ ToSet(rest) = ToSet(s) \cap (all \ {a, b})
      BY <1>1, <1>6, AmongIs
    <2>2. IsInjective(rest)
      BY <1>1, <1>6, AmongIs
    <2> QED BY <2>1, <2>2
  <1>8. PICK n \in Nat : n = Len(rest)
    BY <1>7, SeqIs
  <1>9. IF a = b THEN n = MaxChildItems ELSE n = MaxChildItems - 1
    <2>1. Cardinality(all) = MaxChildItems + 1 /\ IsFiniteSet(all)
      BY <1>1, LenSet
    <2>2. Cardinality(ToSet(rest)) = n
      BY <1>7, <1>8, LenSet
    <2>3. IsFiniteSet(all \ {a}) /\ Cardinality(all \ {a}) = MaxChildItems
      <3>1. IsFiniteSet(all \ {a}) /\ Cardinality(all \ {a}) = Cardinality(all) - 1
        BY <2>1, <1>5, FS_RemoveElement
      <3> QED BY <3>1, <2>1, RtreeAssumption
    <2>4. CASE a = b
      <3>1. all \ {a, b} = all \ {a}
        BY <2>4
      <3> QED BY <3>1, <2>2, <2>3, <2>4, <1>7
    <2>5. CASE a # b
      <3>1. all \ {a, b} = (all \ {a}) \ {b} /\ b \in all \ {a}
        BY <2>5, <1>5
      <3>2. Cardinality((all \ {a}) \ {b}) = Cardinality(all \ {a}) - 1
        BY <3>1, <2>3, FS_RemoveElement
      <3> QED BY <3>1, <3>2, <2>2, <2>3, <2>5, <1>7
    <2> QED BY <2>4, <2>5
  <1>10. n + 2 >= 2 * MinChildItems /\ n <= MaxChildItems
    BY <1>9, RtreeAssumption
  <1>11. PICK g : g = Distribute(t, l, a, b, rest)
    OBVIOUS
  <1>12. g \in Parts /\ Shared(g, all, a, b, n, n)
    BY <1>5, <1>7, <1>8, <1>10, <1>11, DistributeIs
  <1>13. PICK p \in Nat, q \in Nat : p = Len(g.one) /\ q = Len(g.two)
    BY <1>12, SeqIs DEF Parts
  <1>14. /\ Len(g.rest) = 0 /\ ToSet(g.rest) = {}
         /\ p + q <= n + 2 /\ (p + q = n + 2 => p >= MinChildItems /\ q >= MinChildItems)
         /\ (all = ToSet(g.one) \cup ToSet(g.two) => p + q = n + 2)
    <2>1. Len(g.rest) = 0
      BY <1>12 DEF Shared
    <2>2. ToSet(g.rest) = {}
      BY <2>1, <1>12, SeqIs DEF Parts
    <2>3. p + q + 0 = p + q /\ p + 0 = p /\ q + 0 = q
      OBVIOUS
    <2> QED BY <2>1, <2>2, <2>3, <1>12, <1>13 DEF Shared
  <1>15. p >= 1 /\ q >= 1
    <2>1. ToSet(g.one) # {} /\ ToSet(g.two) # {}
      BY <1>12 DEF Shared
    <2>2. g.one \in Seq(Int) /\ g.two \in Seq(Int)
      BY <1>12 DEF Parts
    <2>3. Len(g.one) # 0 /\ Len(g.two) # 0
      BY <2>1, <2>2, SeqIs
    <2> QED BY <2>3, <1>13
  <1>16. p <= MaxChildItems /\ q <= MaxChildItems
    <2>1. (p >= 2 /\ q >= 2) \/ p + q <= n + 1
      BY <1>14, RtreeAssumption
    <2>2. MaxChildItems \in Nat
      BY RtreeAssumption
    <2> QED BY <2>1, <2>2, <1>10, <1>14, <1>15
  <1>17. Cardinality({a, b}) # 1 => ToSet(g.one) \cap ToSet(g.two) = {}
    <2>1. a = b => Cardinality({a, b}) = 1
      BY FS_Singleton
    <2> QED BY <2>1, <1>12 DEF Shared
  <1>18. IsSplit(t, l, Halves(t, l, {a, b}, g).tree, Halves(t, l, {a, b}, g).new, g.one, g.two)
    <2>1. /\ ToSet(g.one) \subseteq all /\ ToSet(g.two) \subseteq all
          /\ IsInjective(g.one) /\ IsInjective(g.two)
      BY <1>12 DEF Shared
    <2>2. all = ToSet(g.one) \cup ToSet(g.two) =>
            Len(g.one) >= MinChildItems /\ Len(g.two) >= MinChildItems
      BY <1>13, <1>14
    <2>3. Len(g.one) >= 1 /\ Len(g.one) <= MaxChildItems /\ Len(g.two) >= 1 /\ Len(g.two) <= MaxChildItems
      BY <1>13, <1>15, <1>16
    <2> QED BY <2>1, <2>2, <2>3, <1>12, <1>17, HalvesAre
  <1>19. SplitNode(t, l) = Halves(t, l, {a, b}, g)
    BY <1>2, <1>4, <1>6, <1>11 DEF SplitNode, SplitBy, SplitAt
  <1> QED BY <1>18, <1>19

-----------------------------------------------------------------------------
(* The shape of a tree.  A is a set of nodes and objects that holds what the root reaches *)
(* and what splits dropped, lv gives their levels, R the root and the nodes that wait for *)
(* a parent, c the level no leaf is above.                                                *)

Leaf(t, n) == t.node[n].leaf
Up(t, n)   == t.node[n].up

Levels(t, A, lv, R) ==
  /\ A \subseteq Names(t) /\ lv \in [A -> Nat] /\ R \subseteq A
  /\ t.root \in R /\ lv[t.root] = 1 /\ ~ IsData(t.root)
  /\ \A n \in A : lv[n] >= 1 /\ (~ IsData(n) => lv[n] <= t.height)

Kinds(t, A, lv, c) ==
  \A n \in A :
    /\ IsInjective(Items(t, n))
    /\ IsData(n) => Items(t, n) = <<>> /\ ~ Leaf(t, n)
    /\ ~ IsData(n) => Leaf(t, n) \/ Items(t, n) # <<>>
    /\ Leaf(t, n) => lv[n] >= c

Downward(t, A, lv, R) ==
  \A n \in A : \A x \in ToSet(Items(t, n)) :
    x \in A /\ x \notin R /\ lv[x] = lv[n] + 1 /\ (IsData(x) <=> Leaf(t, n))

Upward(t, A, lv, R) ==
  \A x \in A \ R :
    Up(t, x) \in A /\ ~ IsData(Up(t, x)) /\ lv[x] = lv[Up(t, x)] + 1 /\ (IsData(x) <=> Leaf(t, Up(t, x)))

Shape(t, A, lv, R, c) ==
  Levels(t, A, lv, R) /\ Kinds(t, A, lv, c) /\ Downward(t, A, lv, R) /\ Upward(t, A, lv, R)

\* Every link leads to a node.
Linked(t) ==
  \A n \in Names(t) : ToSet(Items(t, n)) \subseteq Names(t) /\ Up(t, n) \in Names(t) \cup {Nil}

\* No node but those of F has too many entries, and those have one too many at most.
Fits(t, F) ==
  \A n \in Names(t) : Len(Items(t, n)) <= MaxChildItems + 1
                      /\ (n \notin F => Len(Items(t, n)) <= MaxChildItems)

\* Unless a split dropped an entry, every node but the root is an entry of its parent
\* and has enough of its own.
Full(t, A, R) ==
  ~ t.tied =>
    /\ \A x \in A \ R : x \in ToSet(Items(t, Up(t, x)))
    /\ \A n \in A : ~ IsData(n) /\ n # t.root => Len(Items(t, n)) >= MinChildItems

\* Unless a split duplicated an entry, an entry's parent is the node it is an entry of.
Owned(t, A) ==
  ~ t.twin => \A n \in A : \A x \in ToSet(Items(t, n)) : Up(t, x) = n

\* ... and every node's box but those of Q is the smallest around its entries.
Snug(t, A, Q) ==
  ~ t.twin => \A n \in A \ Q : Items(t, n) # <<>> => Bound(t, n) = ComputeBB(t, Items(t, n))

\* P is the way from the root to node n.
Path(t, A, lv, R, n, P) ==
  ~ t.twin =>
    /\ P \subseteq A /\ n \in P
    /\ \A x \in P : lv[x] <= lv[n] /\ (x # t.root => x \notin R /\ Up(t, x) \in P /\ x \in ToSet(Items(t, Up(t, x))))
    /\ \A x, y \in P : lv[x] = lv[y] => x = y

-----------------------------------------------------------------------------
(* What a new box leaves as it is. *)

SameLinks(t, u) ==
  /\ u \in Trees /\ Names(u) = Names(t) /\ SameTop(t, u)
  /\ \A n \in Names(t) : Items(u, n) = Items(t, n) /\ Leaf(u, n) = Leaf(t, n) /\ Up(u, n) = Up(t, n)

LEMMA SameLinksKeep ==
  ASSUME NEW t \in Trees, NEW u, SameLinks(t, u), NEW A, NEW lv, NEW R, NEW c, NEW F, NEW P, NEW n,
         Shape(t, A, lv, R, c), Linked(t)
  PROVE  /\ Shape(u, A, lv, R, c) /\ Linked(u) /\ (Fits(t, F) => Fits(u, F))
         /\ (Full(t, A, R) => Full(u, A, R)) /\ (Owned(t, A) => Owned(u, A))
         /\ (Path(t, A, lv, R, n, P) => Path(u, A, lv, R, n, P))
  <1>1. /\ Names(u) = Names(t) /\ u.root = t.root /\ u.height = t.height /\ u.twin = t.twin /\ u.tied = t.tied
        /\ \A x \in Names(t) : Items(u, x) = Items(t, x) /\ Leaf(u, x) = Leaf(t, x) /\ Up(u, x) = Up(t, x)
    BY DEF SameLinks, SameTop
  <1>2. Levels(u, A, lv, R) /\ A \subseteq Names(t)
    BY <1>1 DEF Shape, Levels
  <1>3. Kinds(u, A, lv, c)
    BY <1>1, <1>2 DEF Shape, Kinds
  <1>4. Downward(u, A, lv, R)
    BY <1>1, <1>2 DEF Shape, Downward
  <1>5. Upward(u, A, lv, R)
    <2>1. \A x \in A \ R : Up(t, x) \in A
      BY DEF Shape, Upward
    <2> QED BY <2>1, <1>1, <1>2 DEF Shape, Upward
  <1>6. Linked(u)
    BY <1>1 DEF Linked
  <1>7. Fits(t, F) => Fits(u, F)
    BY <1>1 DEF Fits
  <1>8. Full(t, A, R) => Full(u, A, R)
    <2>1. \A x \in A \ R : Up(t, x) \in Names(t)
      BY <1>2 DEF Shape, Upward
    <2> QED BY <2>1, <1>1, <1>2 DEF Full
  <1>9. Owned(t, A) => Owned(u, A)
    <2>1. \A m \in A : \A x \in ToSet(Items(t, m)) : x \in Names(t)
      BY <1>2 DEF Shape, Downward
    <2> QED BY <2>1, <1>1, <1>2 DEF Owned
  <1>10. Path(t, A, lv, R, n, P) => Path(u, A, lv, R, n, P)
    <2> SUFFICES ASSUME Path(t, A, lv, R, n, P), ~ t.twin
                 PROVE  Path(u, A, lv, R, n, P)
      BY <1>1 DEF Path
    <2>1. \A x \in P : x \in Names(t) /\ (x # t.root => Up(t, x) \in Names(t))
      BY <1>2 DEF Path
    <2> QED BY <2>1, <1>1 DEF Path
  <1> QED BY <1>2, <1>3, <1>4, <1>5, <1>6, <1>7, <1>8, <1>9, <1>10 DEF Shape

LEMMA BoxSameLinks ==
  ASSUME NEW t \in Trees, NEW n \in Names(t), NEW b \in BoxSet
  PROVE  /\ SameLinks(t, SetBox(t, n, b))
         /\ \A x \in Names(t) : Bound(SetBox(t, n, b), x) = IF x = n THEN b ELSE Bound(t, x)
  <1>1. PICK u : u = SetBox(t, n, b)
    OBVIOUS
  <1>2. /\ u \in Trees /\ Names(u) = Names(t) /\ SameTop(t, u)
        /\ \A x \in Names(t) : /\ Items(u, x) = Items(t, x)
                               /\ Bound(u, x) = IF x = n THEN b ELSE Bound(t, x)
                               /\ u.node[x].leaf = t.node[x].leaf /\ u.node[x].up = t.node[x].up
    BY <1>1, SetBoxIs
  <1> QED BY <1>1, <1>2 DEF SameLinks, Leaf, Up

\* A node's box set to the smallest one: the node is snug now; those it is an entry of may not be.
LEMMA BoxSnug ==
  ASSUME NEW t \in Trees, NEW A, NEW lv, NEW R, NEW c, Shape(t, A, lv, R, c), NEW n \in A, NEW b, NEW Q,
         Items(t, n) # <<>>, b = ComputeBB(t, Items(t, n)), Snug(t, A, Q),
         ~ t.twin => \A m \in A : n \in ToSet(Items(t, m)) => m \in Q
  PROVE  Snug(SetBox(t, n, b), A, Q \ {n})
  <1>1. n \in Names(t) /\ A \subseteq Names(t)
    BY DEF Shape, Levels
  <1>2. \A m \in A : Items(t, m) \in Seq(Int) /\ ToSet(Items(t, m)) \subseteq A
    BY <1>1, NodeIs DEF Shape, Downward
  <1>3. b \in BoxSet
    BY <1>1, <1>2, ComputeBBIs
  <1>4. PICK u : u = SetBox(t, n, b)
    OBVIOUS
  <1>5. SameLinks(t, u) /\ \A x \in Names(t) : Bound(u, x) = IF x = n THEN b ELSE Bound(t, x)
    BY <1>1, <1>3, <1>4, BoxSameLinks
  <1>6. /\ u \in Trees /\ u.twin = t.twin /\ \A x \in Names(t) : Items(u, x) = Items(t, x)
    BY <1>5 DEF SameLinks, SameTop
  <1>7. ASSUME ~ t.twin, NEW m \in A, m \notin Q \ {n}, Items(u, m) # <<>>
        PROVE  Bound(u, m) = ComputeBB(u, Items(u, m))
    <2>1. n \notin ToSet(Items(t, n))
      <3> SUFFICES ASSUME n \in ToSet(Items(t, n))
                   PROVE  FALSE
        OBVIOUS
      <3>1. lv[n] = lv[n] + 1 /\ lv[n] \in Nat
        BY DEF Shape, Downward, Levels
      <3> QED BY <3>1
    <2>2. n \notin ToSet(Items(t, m))
      BY <2>1, <1>7
    <2>3. \A x \in ToSet(Items(t, m)) : Bound(t, x) = Bound(u, x)
      BY <2>2, <1>1, <1>2, <1>5
    <2>4. ComputeBB(t, Items(t, m)) = ComputeBB(u, Items(t, m))
      BY <2>3, <1>6, ComputeBBSame
    <2>5. Items(u, m) = Items(t, m) /\ m \in Names(t)
      BY <1>1, <1>6
    <2>6. CASE m = n
      BY <2>4, <2>5, <2>6, <1>5
    <2>7. CASE m # n
      <3>1. Bound(t, m) = ComputeBB(t, Items(t, m))
        BY <2>5, <2>7, <1>7 DEF Snug
      <3> QED BY <3>1, <2>4, <2>5, <2>7, <1>5
    <2> QED BY <2>6, <2>7
  <1> QED BY <1>4, <1>6, <1>7 DEF Snug

-----------------------------------------------------------------------------
(* An entry more for node n. *)

IsAttached(t, u, n, x) ==
  /\ u \in Trees /\ Names(u) = Names(t) /\ SameTop(t, u)
  /\ Items(u, n) = Append(Items(t, n), x)
  /\ \A y \in Names(t) : /\ y # n => Items(u, y) = Items(t, y)
                         /\ y # x => Bound(u, y) = Bound(t, y)
                         /\ Leaf(u, y) = Leaf(t, y)
                         /\ Up(u, y) = IF y = x THEN n ELSE Up(t, y)

\* What the lemmas on attaching suppose: x waits for a parent, and n is one for it.
Attachable(t, A, lv, R, c, n, x) ==
  /\ Shape(t, A, lv, R, c) /\ n \in A /\ ~ IsData(n) /\ x \in R /\ x # t.root
  /\ lv[x] = lv[n] + 1 /\ (IsData(x) <=> Leaf(t, n))

LEMMA AttachedLinks ==
  ASSUME NEW t \in Trees, NEW u, NEW n, NEW x, IsAttached(t, u, n, x),
         n \in Names(t), x \in Names(t)
  PROVE  \A y \in Names(t) :
           /\ Items(u, y) \in Seq(Int)
           /\ ToSet(Items(u, y)) = IF y = n THEN ToSet(Items(t, n)) \cup {x} ELSE ToSet(Items(t, y))
           /\ Len(Items(u, y)) = IF y = n THEN Len(Items(t, n)) + 1 ELSE Len(Items(t, y))
           /\ IsInjective(Items(t, y)) /\ (y = n => x \notin ToSet(Items(t, n))) => IsInjective(Items(u, y))
  <1>1. Items(t, n) \in Seq(Int) /\ x \in Int
    BY NodeIs, TreeIs
  <1>2. /\ Append(Items(t, n), x) \in Seq(Int) /\ Len(Append(Items(t, n), x)) = Len(Items(t, n)) + 1
        /\ ToSet(Append(Items(t, n), x)) = ToSet(Items(t, n)) \cup {x}
        /\ IsInjective(Items(t, n)) /\ x \notin ToSet(Items(t, n)) => IsInjective(Append(Items(t, n), x))
    BY <1>1, AppendSet
  <1>3. \A y \in Names(t) : Items(t, y) \in Seq(Int)
    BY NodeIs
  <1> QED BY <1>2, <1>3 DEF IsAttached

LEMMA AttachShape ==
  ASSUME NEW t \in Trees, NEW u, NEW A, NEW lv, NEW R, NEW c, NEW n, NEW x,
         Attachable(t, A, lv, R, c, n, x), IsAttached(t, u, n, x)
  PROVE  Shape(u, A, lv, R \ {x}, c)
  <1>1. /\ A \subseteq Names(t) /\ lv \in [A -> Nat] /\ R \subseteq A /\ n \in A /\ x \in A /\ x \in R
        /\ x # t.root /\ ~ IsData(n) /\ lv[x] = lv[n] + 1 /\ (IsData(x) <=> Leaf(t, n)) /\ n # x
    <2>1. /\ A \subseteq Names(t) /\ lv \in [A -> Nat] /\ R \subseteq A /\ n \in A /\ x \in A /\ x \in R
          /\ x # t.root /\ ~ IsData(n) /\ lv[x] = lv[n] + 1 /\ (IsData(x) <=> Leaf(t, n))
      BY DEF Attachable, Shape, Levels
    <2>2. lv[n] \in Nat
      BY <2>1
    <2> QED BY <2>1, <2>2
  <1>2. x \notin ToSet(Items(t, n))
    BY <1>1 DEF Attachable, Shape, Downward
  <1>3. \A y \in Names(t) :
           /\ ToSet(Items(u, y)) = IF y = n THEN ToSet(Items(t, n)) \cup {x} ELSE ToSet(Items(t, y))
           /\ IsInjective(Items(t, y)) => IsInjective(Items(u, y))
           /\ y # n => Items(u, y) = Items(t, y)
           /\ Leaf(u, y) = Leaf(t, y) /\ Up(u, y) = IF y = x THEN n ELSE Up(t, y)
    BY <1>1, <1>2, AttachedLinks DEF IsAttached
  <1>4. Names(u) = Names(t) /\ u.root = t.root /\ u.height = t.height /\ Items(u, n) # <<>>
    <2>1. x \in ToSet(Items(u, n))
      BY <1>1, <1>3
    <2>2. n \in Names(u) /\ u \in Trees
      BY <1>1 DEF IsAttached
    <2>3. Items(u, n) # <<>>
      BY <2>1, <2>2, NodeIs, SeqIs
    <2> QED BY <2>3 DEF IsAttached, SameTop
  <1>5. Levels(u, A, lv, R \ {x})
    BY <1>1, <1>4 DEF Attachable, Shape, Levels
  <1>6. Kinds(u, A, lv, c)
    BY <1>1, <1>3, <1>4 DEF Attachable, Shape, Kinds
  <1>7. Downward(u, A, lv, R \ {x})
    <2> SUFFICES ASSUME NEW m \in A, NEW y \in ToSet(Items(u, m))
                 PROVE  y \in A /\ y \notin R \ {x} /\ lv[y] = lv[m] + 1 /\ (IsData(y) <=> Leaf(u, m))
      BY DEF Downward
    <2>1. CASE y \in ToSet(Items(t, m))
      BY <2>1, <1>1, <1>3 DEF Attachable, Shape, Downward
    <2>2. CASE y \notin ToSet(Items(t, m))
      <3>1. m = n /\ y = x
        BY <2>2, <1>1, <1>3
      <3> QED BY <3>1, <1>1, <1>3
    <2> QED BY <2>1, <2>2
  <1>8. Upward(u, A, lv, R \ {x})
    <2> SUFFICES ASSUME NEW y \in A \ (R \ {x})
                 PROVE  /\ Up(u, y) \in A /\ ~ IsData(Up(u, y)) /\ lv[y] = lv[Up(u, y)] + 1
                        /\ IsData(y) <=> Leaf(u, Up(u, y))
      BY DEF Upward
    <2>1. CASE y = x
      BY <2>1, <1>1, <1>3
    <2>2. CASE y # x
      <3>1. y \in A \ R /\ Up(u, y) = Up(t, y)
        BY <2>2, <1>1, <1>3
      <3>2. Up(t, y) \in A /\ ~ IsData(Up(t, y)) /\ lv[y] = lv[Up(t, y)] + 1 /\ (IsData(y) <=> Leaf(t, Up(t, y)))
        BY <3>1 DEF Attachable, Shape, Upward
      <3> QED BY <3>1, <3>2, <1>1, <1>3
    <2> QED BY <2>1, <2>2
  <1> QED BY <1>5, <1>6, <1>7, <1>8 DEF Shape

LEMMA AttachLinked ==
  ASSUME NEW t \in Trees, NEW u, NEW n, NEW x, IsAttached(t, u, n, x), n \in Names(t), x \in Names(t),
         Linked(t), Fits(t, {})
  PROVE  Linked(u) /\ Fits(u, {n}) /\ (Len(Items(u, n)) <= MaxChildItems => Fits(u, {}))
  <1>1. \A y \in Names(t) :
           /\ Items(u, y) \in Seq(Int)
           /\ ToSet(Items(u, y)) = IF y = n THEN ToSet(Items(t, n)) \cup {x} ELSE ToSet(Items(t, y))
           /\ Len(Items(u, y)) = IF y = n THEN Len(Items(t, n)) + 1 ELSE Len(Items(t, y))
    BY AttachedLinks
  <1>2. Names(u) = Names(t) /\ \A y \in Names(t) : Up(u, y) = IF y = x THEN n ELSE Up(t, y)
    BY DEF IsAttached
  <1>3. Linked(u)
    BY <1>1, <1>2 DEF Linked
  <1>4. \A y \in Names(t) : Len(Items(t, y)) \in Nat /\ Len(Items(t, y)) <= MaxChildItems
    BY NodeIs, SeqIs DEF Fits
  <1>5. MaxChildItems \in Nat
    BY RtreeAssumption
  <1>6. ASSUME NEW y \in Names(u)
        PROVE  /\ Len(Items(u, y)) <= MaxChildItems + 1
               /\ (y # n => Len(Items(u, y)) <= MaxChildItems)
    BY <1>1, <1>2, <1>4, <1>5
  <1> QED BY <1>2, <1>3, <1>6 DEF Fits

LEMMA AttachFull ==
  ASSUME NEW t \in Trees, NEW u, NEW A, NEW lv, NEW R, NEW c, NEW n, NEW x,
         Attachable(t, A, lv, R, c, n, x), IsAttached(t, u, n, x), Full(t, A, R)
  PROVE  Full(u, A, R \ {x})
  <1>1. A \subseteq Names(t) /\ R \subseteq A /\ n \in A /\ x \in A /\ x \in R
    BY DEF Attachable, Shape, Levels
  <1>2. \A y \in Names(t) :
           /\ ToSet(Items(u, y)) = IF y = n THEN ToSet(Items(t, n)) \cup {x} ELSE ToSet(Items(t, y))
           /\ Len(Items(u, y)) = IF y = n THEN Len(Items(t, n)) + 1 ELSE Len(Items(t, y))
           /\ Up(u, y) = IF y = x THEN n ELSE Up(t, y)
    BY <1>1, AttachedLinks DEF IsAttached
  <1>3. Names(u) = Names(t) /\ u.root = t.root /\ u.tied = t.tied
    BY DEF IsAttached, SameTop
  <1>4. SUFFICES ASSUME ~ t.tied
                 PROVE  /\ \A y \in A \ (R \ {x}) : y \in ToSet(Items(u, Up(u, y)))
                        /\ \A y \in A : ~ IsData(y) /\ y # u.root => Len(Items(u, y)) >= MinChildItems
    BY <1>3 DEF Full
  <1>5. ASSUME NEW y \in A \ (R \ {x})
        PROVE  y \in ToSet(Items(u, Up(u, y)))
    <2>1. CASE y = x
      BY <2>1, <1>1, <1>2
    <2>2. CASE y # x
      <3>1. Up(t, y) \in A /\ y \in ToSet(Items(t, Up(t, y)))
        BY <2>2, <1>4, <1>5 DEF Full, Attachable, Shape, Upward
      <3> QED BY <3>1, <2>2, <1>1, <1>2
    <2> QED BY <2>1, <2>2
  <1>6. ASSUME NEW y \in A, ~ IsData(y), y # u.root
        PROVE  Len(Items(u, y)) >= MinChildItems
    <2>1. Len(Items(t, y)) >= MinChildItems /\ MinChildItems \in Nat
      BY <1>3, <1>4, <1>6, RtreeAssumption DEF Full
    <2>2. Len(Items(t, y)) \in Nat
      BY <1>1, NodeIs, SeqIs
    <2> QED BY <2>1, <2>2, <1>1, <1>2
  <1> QED BY <1>5, <1>6

LEMMA AttachOwned ==
  ASSUME NEW t \in Trees, NEW u, NEW A, NEW lv, NEW R, NEW c, NEW n, NEW x,
         Attachable(t, A, lv, R, c, n, x), IsAttached(t, u, n, x), Owned(t, A)
  PROVE  Owned(u, A)
  <1>1. A \subseteq Names(t) /\ R \subseteq A /\ n \in A /\ x \in A /\ x \in R
    BY DEF Attachable, Shape, Levels
  <1>2. \A y \in Names(t) :
           /\ ToSet(Items(u, y)) = IF y = n THEN ToSet(Items(t, n)) \cup {x} ELSE ToSet(Items(t, y))
           /\ Up(u, y) = IF y = x THEN n ELSE Up(t, y)
    BY <1>1, AttachedLinks DEF IsAttached
  <1>3. Names(u) = Names(t) /\ u.twin = t.twin
    BY DEF IsAttached, SameTop
  <1>4. SUFFICES ASSUME ~ t.twin, NEW m \in A, NEW y \in ToSet(Items(u, m))
                 PROVE  Up(u, y) = m
    BY <1>3 DEF Owned
  <1>5. CASE y \in ToSet(Items(t, m))
    <2>1. y \in A /\ y \notin R /\ Up(t, y) = m
      BY <1>4, <1>5 DEF Owned, Attachable, Shape, Downward
    <2> QED BY <2>1, <1>1, <1>2
  <1>6. CASE y \notin ToSet(Items(t, m))
    <2>1. m = n /\ y = x
      BY <1>1, <1>2, <1>4, <1>6
    <2> QED BY <2>1, <1>1, <1>2
  <1> QED BY <1>5, <1>6

LEMMA AttachSnug ==
  ASSUME NEW t \in Trees, NEW u, NEW A, NEW lv, NEW R, NEW c, NEW n, NEW x, NEW Q,
         Attachable(t, A, lv, R, c, n, x), IsAttached(t, u, n, x), Snug(t, A, Q), n \in Q,
         ~ t.twin /\ Items(u, x) # <<>> => Bound(u, x) = ComputeBB(u, Items(u, x))
  PROVE  Snug(u, A, Q \ {x})
  <1>1. A \subseteq Names(t) /\ R \subseteq A /\ n \in A /\ x \in A /\ x \in R
    BY DEF Attachable, Shape, Levels
  <1>2. /\ \A y \in Names(t) : (y # n => Items(u, y) = Items(t, y)) /\ (y # x => Bound(u, y) = Bound(t, y))
        /\ u.twin = t.twin /\ u \in Trees
    BY DEF IsAttached, SameTop
  <1>3. SUFFICES ASSUME ~ t.twin, NEW m \in A, m \notin Q \ {x}, Items(u, m) # <<>>
                 PROVE  Bound(u, m) = ComputeBB(u, Items(u, m))
    BY <1>2 DEF Snug
  <1>4. CASE m = x
    BY <1>3, <1>4
  <1>5. CASE m # x
    <2>1. m \notin Q /\ m # n
      BY <1>3, <1>5
    <2>2. Items(u, m) = Items(t, m) /\ Bound(u, m) = Bound(t, m)
      BY <2>1, <1>1, <1>2, <1>5
    <2>3. \A y \in ToSet(Items(t, m)) : y \in Names(t) /\ y # x
      BY <1>1 DEF Attachable, Shape, Downward
    <2>4. \A y \in ToSet(Items(t, m)) : Bound(t, y) = Bound(u, y)
      BY <2>3, <1>2
    <2>5. ComputeBB(t, Items(t, m)) = ComputeBB(u, Items(t, m))
      BY <2>4, <1>2, ComputeBBSame
    <2>6. Bound(t, m) = ComputeBB(t, Items(t, m))
      BY <2>1, <2>2, <1>3 DEF Snug
    <2> QED BY <2>2, <2>5, <2>6
  <1> QED BY <1>4, <1>5

LEMMA AttachPath ==
  ASSUME NEW t \in Trees, NEW u, NEW A, NEW lv, NEW R, NEW c, NEW n, NEW x, NEW P, NEW m,
         Attachable(t, A, lv, R, c, n, x), IsAttached(t, u, n, x), Path(t, A, lv, R, m, P)
  PROVE  Path(u, A, lv, R \ {x}, m, P)
  <1>1. A \subseteq Names(t) /\ R \subseteq A /\ n \in A /\ x \in A /\ x \in R /\ x # t.root
    BY DEF Attachable, Shape, Levels
  <1>2. \A y \in Names(t) :
           /\ ToSet(Items(u, y)) = IF y = n THEN ToSet(Items(t, n)) \cup {x} ELSE ToSet(Items(t, y))
           /\ Up(u, y) = IF y = x THEN n ELSE Up(t, y)
    BY <1>1, AttachedLinks DEF IsAttached
  <1>3. Names(u) = Names(t) /\ u.twin = t.twin /\ u.root = t.root
    BY DEF IsAttached, SameTop
  <1>4. SUFFICES ASSUME ~ t.twin
                 PROVE  Path(u, A, lv, R \ {x}, m, P)
    BY <1>3 DEF Path
  <1>5. P \subseteq A /\ x \notin P /\ \A y \in P : y # t.root => Up(t, y) \in P
    BY <1>1, <1>4 DEF Path
  <1> QED BY <1>1, <1>2, <1>3, <1>4, <1>5 DEF Path

-----------------------------------------------------------------------------
(* The two ways to attach an entry. *)

LEMMA AppendedIs ==
  ASSUME NEW t \in Trees, NEW n \in Names(t), NEW x \in Names(t)
  PROVE  /\ IsAttached(t, SetParent(SetItems(t, n, Append(Items(t, n), x)), {x}, n), n, x)
         /\ Bound(SetParent(SetItems(t, n, Append(Items(t, n), x)), {x}, n), x) = Bound(t, x)
  <1>1. PICK s : s = Append(Items(t, n), x)
    OBVIOUS
  <1>2. s \in Seq(Int) /\ n \in Int
    BY <1>1, NodeIs, TreeIs, AppendSet
  <1>3. PICK v : v = SetItems(t, n, s)
    OBVIOUS
  <1>4. /\ v \in Trees /\ Names(v) = Names(t) /\ SameTop(t, v)
        /\ \A y \in Names(t) : /\ Items(v, y) = IF y = n THEN s ELSE Items(t, y)
                               /\ Bound(v, y) = Bound(t, y)
                               /\ v.node[y].leaf = t.node[y].leaf /\ v.node[y].up = t.node[y].up
    BY <1>2, <1>3, SetItemsIs
  <1>5. PICK u : u = SetParent(v, {x}, n)
    OBVIOUS
  <1>6. /\ u \in Trees /\ Names(u) = Names(v) /\ SameTop(v, u)
        /\ \A y \in Names(v) : /\ Items(u, y) = Items(v, y) /\ Bound(u, y) = Bound(v, y)
                               /\ u.node[y].leaf = v.node[y].leaf
                               /\ u.node[y].up = IF y \in {x} THEN n ELSE v.node[y].up
    BY <1>2, <1>4, <1>5, SetParentIs
  <1>7. SameTop(t, u)
    BY <1>4, <1>6 DEF SameTop
  <1>8. IsAttached(t, u, n, x) /\ Bound(u, x) = Bound(t, x)
    BY <1>1, <1>4, <1>6, <1>7 DEF IsAttached, Leaf, Up
  <1> QED BY <1>1, <1>3, <1>5, <1>8

LEMMA AttachIs ==
  ASSUME NEW t \in Trees, NEW p \in Names(t), NEW x \in Names(t), p # x,
         Items(t, x) # <<>>, ToSet(Items(t, x)) \subseteq Names(t) \ {x}
  PROVE  /\ IsAttached(t, Attach(t, x, p), p, x)
         /\ Bound(Attach(t, x, p), x) = ComputeBB(Attach(t, x, p), Items(Attach(t, x, p), x))
  <1>1. PICK s : s = Append(Items(t, p), x)
    OBVIOUS
  <1>2. s \in Seq(Int) /\ p \in Int
    BY <1>1, NodeIs, TreeIs, AppendSet
  <1>3. PICK v : v = SetItems(t, p, s)
    OBVIOUS
  <1>4. /\ v \in Trees /\ Names(v) = Names(t) /\ SameTop(t, v)
        /\ \A y \in Names(t) : /\ Items(v, y) = IF y = p THEN s ELSE Items(t, y)
                               /\ Bound(v, y) = Bound(t, y)
                               /\ v.node[y].leaf = t.node[y].leaf /\ v.node[y].up = t.node[y].up
    BY <1>2, <1>3, SetItemsIs
  <1>5. Items(v, x) = Items(t, x) /\ Items(v, x) \in Seq(Int)
    BY <1>4, NodeIs
  <1>6. PICK b : b = ComputeBB(v, Items(v, x))
    OBVIOUS
  <1>7. b \in BoxSet
    BY <1>4, <1>5, <1>6, ComputeBBIs
  <1>8. PICK w : w = SetBox(v, x, b)
    OBVIOUS
  <1>9. /\ w \in Trees /\ Names(w) = Names(v) /\ SameTop(v, w)
        /\ \A y \in Names(v) : /\ Items(w, y) = Items(v, y)
                               /\ Bound(w, y) = IF y = x THEN b ELSE Bound(v, y)
                               /\ w.node[y].leaf = v.node[y].leaf /\ w.node[y].up = v.node[y].up
    BY <1>4, <1>7, <1>8, SetBoxIs
  <1>10. PICK u : u = SetParent(w, {x}, p)
    OBVIOUS
  <1>11. /\ u \in Trees /\ Names(u) = Names(w) /\ SameTop(w, u)
         /\ \A y \in Names(w) : /\ Items(u, y) = Items(w, y) /\ Bound(u, y) = Bound(w, y)
                                /\ u.node[y].leaf = w.node[y].leaf
                                /\ u.node[y].up = IF y \in {x} THEN p ELSE w.node[y].up
    BY <1>2, <1>9, <1>10, SetParentIs
  <1>12. SameTop(t, u)
    BY <1>4, <1>9, <1>11 DEF SameTop
  <1>13. IsAttached(t, u, p, x)
    BY <1>1, <1>4, <1>9, <1>11, <1>12 DEF IsAttached, Leaf, Up
  <1>14. Bound(u, x) = ComputeBB(u, Items(u, x))
    <2>1. \A y \in ToSet(Items(v, x)) : y # x /\ y \in Names(t)
      BY <1>5
    <2>2. \A y \in ToSet(Items(v, x)) : Bound(v, y) = Bound(u, y)
      BY <2>1, <1>4, <1>9, <1>11
    <2>3. ComputeBB(v, Items(v, x)) = ComputeBB(u, Items(v, x))
      BY <2>2, <1>4, <1>11, ComputeBBSame
    <2> QED BY <2>3, <1>4, <1>6, <1>9, <1>11
  <1>15. Attach(t, x, p) = u
    BY <1>1, <1>3, <1>6, <1>8, <1>10 DEF Attach, SetBound
  <1> QED BY <1>13, <1>14, <1>15

-----------------------------------------------------------------------------
(* A split of node l of t, into l and new. *)

\* The levels when node new comes to be beside node l.
Beside(lv, A, new, l) == [x \in A \cup {new} |-> IF x = new THEN lv[l] ELSE lv[x]]

LEMMA SplitLinks ==
  ASSUME NEW t \in Trees, NEW u, NEW l \in Names(t), NEW new, NEW one, NEW two, IsSplit(t, l, u, new, one, two)
  PROVE  /\ new \notin Names(t) /\ new \in Int /\ new < -2 /\ u \in Trees /\ Names(u) = Names(t) \cup {new}
         /\ \A y \in Names(u) :
              /\ Items(u, y) \in Seq(Int)
              /\ ToSet(Items(u, y)) = IF y = l THEN ToSet(one) ELSE IF y = new THEN ToSet(two) ELSE ToSet(Items(t, y))
         /\ ToSet(one) # {} /\ ToSet(two) # {} /\ one # <<>> /\ two # <<>>
  <1>1. /\ new = FreshNode(t) /\ u \in Trees /\ Names(u) = Names(t) \cup {new}
        /\ one \in Seq(Int) /\ two \in Seq(Int) /\ Len(one) >= 1 /\ Len(two) >= 1
        /\ Items(u, l) = one /\ Items(u, new) = two /\ \A x \in Names(t) : x # l => Items(u, x) = Items(t, x)
    BY DEF IsSplit
  <1>2. new \notin Names(t) /\ new \in Int /\ new < -2
    BY <1>1, FreshIs
  <1>3. ToSet(one) # {} /\ ToSet(two) # {} /\ one # <<>> /\ two # <<>>
    <2>1. Len(one) # 0 /\ Len(two) # 0
      BY <1>1
    <2> QED BY <2>1, <1>1, SeqIs
  <1>4. \A y \in Names(u) : Items(u, y) \in Seq(Int)
    BY <1>1, NodeIs
  <1> QED BY <1>1, <1>2, <1>3, <1>4

LEMMA SplitNew ==
  ASSUME NEW t \in Trees, NEW u, NEW l \in Names(t), NEW new, NEW one, NEW two, IsSplit(t, l, u, new, one, two)
  PROVE  new \notin Names(t) /\ new \in Int /\ new < -2 /\ u \in Trees /\ one # <<>> /\ two # <<>>
  <1>1. new \notin Names(t) /\ new \in Int /\ new < -2
    BY FreshIs DEF IsSplit
  <1>2. one \in Seq(Int) /\ two \in Seq(Int) /\ Len(one) # 0 /\ Len(two) # 0 /\ u \in Trees
    BY DEF IsSplit
  <1> QED BY <1>1, <1>2, SeqIs

LEMMA SplitShape ==
  ASSUME NEW t \in Trees, NEW A, NEW lv, NEW R, NEW c, Shape(t, A, lv, R, c), NEW l \in A, ~ IsData(l),
         NEW u, NEW new, NEW one, NEW two, IsSplit(t, l, u, new, one, two)
  PROVE  Shape(u, A \cup {new}, Beside(lv, A, new, l), R \cup {new}, c)
  <1> DEFINE B == A \cup {new}
             lw == Beside(lv, A, new, l)
  <1>1. /\ A \subseteq Names(t) /\ lv \in [A -> Nat] /\ R \subseteq A /\ t.root \in R
        /\ lv[t.root] = 1 /\ ~ IsData(t.root)
        /\ \A n \in A : lv[n] >= 1 /\ (~ IsData(n) => lv[n] <= t.height)
    BY DEF Shape, Levels
  <1>2. l \in Names(t)
    BY <1>1
  <1>3. /\ new \notin Names(t) /\ new \in Int /\ new < -2 /\ u \in Trees /\ Names(u) = Names(t) \cup {new}
        /\ \A y \in Names(u) :
             /\ Items(u, y) \in Seq(Int)
             /\ ToSet(Items(u, y)) = IF y = l THEN ToSet(one) ELSE IF y = new THEN ToSet(two) ELSE ToSet(Items(t, y))
        /\ one # <<>> /\ two # <<>>
    BY <1>2, SplitLinks
  <1>4. new \notin A /\ ~ IsData(new) /\ new # l
    BY <1>1, <1>3 DEF IsData
  <1>5. lw \in [B -> Nat] /\ lw[new] = lv[l] /\ \A x \in A : lw[x] = lv[x]
    BY <1>1, <1>4 DEF Beside
  <1>6. /\ u.root = t.root /\ u.height = t.height /\ ToSet(one) \subseteq ToSet(Items(t, l))
        /\ ToSet(two) \subseteq ToSet(Items(t, l)) /\ IsInjective(one) /\ IsInjective(two)
        /\ Items(u, l) = one /\ Items(u, new) = two
        /\ (\A x \in Names(t) : x # l => Items(u, x) = Items(t, x))
        /\ (\A x \in Names(t) : Leaf(u, x) = Leaf(t, x)) /\ Leaf(u, new) = Leaf(t, l) /\ Up(u, new) = Up(t, l)
        /\ \A x \in Names(t) :
             Up(u, x) = IF x \in ToSet(two) THEN new ELSE IF x \in ToSet(one) THEN l ELSE Up(t, x)
    BY DEF IsSplit, Leaf, Up
  <1> HIDE DEF lw
  <1>7. Levels(u, B, lw, R \cup {new})
    <2>1. B \subseteq Names(u) /\ R \cup {new} \subseteq B /\ u.root \in R \cup {new} /\ lw[u.root] = 1
      BY <1>1, <1>3, <1>5, <1>6
    <2>2. \A n \in B : lw[n] >= 1 /\ (~ IsData(n) => lw[n] <= u.height)
      BY <1>1, <1>5, <1>6
    <2> QED BY <2>1, <2>2, <1>1, <1>5, <1>6 DEF Levels
  <1>8. Kinds(u, B, lw, c)
    <2> SUFFICES ASSUME NEW n \in B
                 PROVE  /\ IsInjective(Items(u, n))
                        /\ IsData(n) => Items(u, n) = <<>> /\ ~ Leaf(u, n)
                        /\ ~ IsData(n) => Leaf(u, n) \/ Items(u, n) # <<>>
                        /\ Leaf(u, n) => lw[n] >= c
      BY DEF Kinds
    <2>1. \A m \in A : /\ IsInjective(Items(t, m))
                       /\ IsData(m) => Items(t, m) = <<>> /\ ~ Leaf(t, m)
                       /\ ~ IsData(m) => Leaf(t, m) \/ Items(t, m) # <<>>
                       /\ Leaf(t, m) => lv[m] >= c
      BY DEF Shape, Kinds
    <2>2. CASE n = new
      BY <2>1, <2>2, <1>3, <1>4, <1>5, <1>6
    <2>3. CASE n = l
      BY <2>1, <2>3, <1>2, <1>3, <1>5, <1>6
    <2>4. CASE n # new /\ n # l
      <3>1. n \in A /\ n \in Names(t)
        BY <2>4, <1>1
      <3> QED BY <3>1, <2>1, <2>4, <1>5, <1>6
    <2> QED BY <2>2, <2>3, <2>4
  <1>9. \A n \in A : \A x \in ToSet(Items(t, n)) :
          x \in A /\ x \notin R /\ lv[x] = lv[n] + 1 /\ (IsData(x) <=> Leaf(t, n))
    BY DEF Shape, Downward
  <1>10. Downward(u, B, lw, R \cup {new})
    <2> SUFFICES ASSUME NEW n \in B, NEW x \in ToSet(Items(u, n))
                 PROVE  x \in B /\ x \notin R \cup {new} /\ lw[x] = lw[n] + 1 /\ (IsData(x) <=> Leaf(u, n))
      BY DEF Downward
    <2>1. CASE n = new \/ n = l
      <3>1. x \in ToSet(Items(t, l)) /\ lw[n] = lv[l] /\ Leaf(u, n) = Leaf(t, l)
        BY <2>1, <1>2, <1>3, <1>4, <1>5, <1>6
      <3>2. x \in A /\ x \notin R /\ lv[x] = lv[l] + 1 /\ (IsData(x) <=> Leaf(t, l))
        BY <3>1, <1>9
      <3> QED BY <3>1, <3>2, <1>4, <1>5
    <2>2. CASE n # new /\ n # l
      <3>1. n \in A /\ n \in Names(t)
        BY <2>2, <1>1
      <3>2. x \in ToSet(Items(t, n))
        BY <3>1, <2>2, <1>3
      <3>3. x \in A /\ x \notin R /\ lv[x] = lv[n] + 1 /\ (IsData(x) <=> Leaf(t, n))
        BY <3>1, <3>2, <1>9
      <3> QED BY <3>1, <3>3, <1>4, <1>5, <1>6
    <2> QED BY <2>1, <2>2
  <1>11. Upward(u, B, lw, R \cup {new})
    <2> SUFFICES ASSUME NEW x \in B \ (R \cup {new})
                 PROVE  /\ Up(u, x) \in B /\ ~ IsData(Up(u, x)) /\ lw[x] = lw[Up(u, x)] + 1
                        /\ IsData(x) <=> Leaf(u, Up(u, x))
      BY DEF Upward
    <2>1. x \in A /\ x \notin R /\ x \in Names(t)
      BY <1>1
    <2>2. CASE x \in ToSet(two)
      <3>1. lv[x] = lv[l] + 1 /\ (IsData(x) <=> Leaf(t, l)) /\ Up(u, x) = new
        BY <2>1, <2>2, <1>6, <1>9
      <3> QED BY <3>1, <2>1, <1>4, <1>5, <1>6
    <2>3. CASE x \notin ToSet(two) /\ x \in ToSet(one)
      <3>1. lv[x] = lv[l] + 1 /\ (IsData(x) <=> Leaf(t, l)) /\ Up(u, x) = l
        BY <2>1, <2>3, <1>6, <1>9
      <3> QED BY <3>1, <2>1, <1>2, <1>4, <1>5, <1>6
    <2>4. CASE x \notin ToSet(two) /\ x \notin ToSet(one)
      <3>1. Up(u, x) = Up(t, x)
        BY <2>1, <2>4, <1>6
      <3>2. Up(t, x) \in A /\ ~ IsData(Up(t, x)) /\ lv[x] = lv[Up(t, x)] + 1 /\ (IsData(x) <=> Leaf(t, Up(t, x)))
        BY <2>1 DEF Shape, Upward
      <3>3. Up(t, x) \in Names(t)
        BY <3>2, <1>1
      <3> QED BY <3>1, <3>2, <3>3, <2>1, <1>5, <1>6
    <2> QED BY <2>2, <2>3, <2>4
  <1> QED BY <1>7, <1>8, <1>10, <1>11 DEF Shape, lw

LEMMA SplitLinked ==
  ASSUME NEW t \in Trees, NEW l \in Names(t), Linked(t), Fits(t, {l}),
         NEW u, NEW new, NEW one, NEW two, IsSplit(t, l, u, new, one, two)
  PROVE  Linked(u) /\ Fits(u, {})
  <1>1. /\ new \notin Names(t) /\ Names(u) = Names(t) \cup {new}
        /\ \A y \in Names(u) :
             ToSet(Items(u, y)) = IF y = l THEN ToSet(one) ELSE IF y = new THEN ToSet(two) ELSE ToSet(Items(t, y))
    BY SplitLinks
  <1>2. /\ ToSet(one) \subseteq ToSet(Items(t, l)) /\ ToSet(two) \subseteq ToSet(Items(t, l))
        /\ Items(u, l) = one /\ Items(u, new) = two /\ (\A x \in Names(t) : x # l => Items(u, x) = Items(t, x))
        /\ Len(one) <= MaxChildItems /\ Len(two) <= MaxChildItems /\ Up(u, new) = Up(t, l)
        /\ \A x \in Names(t) :
             Up(u, x) = IF x \in ToSet(two) THEN new ELSE IF x \in ToSet(one) THEN l ELSE Up(t, x)
    BY DEF IsSplit, Up
  <1>3. Linked(u)
    <2> SUFFICES ASSUME NEW n \in Names(u)
                 PROVE  ToSet(Items(u, n)) \subseteq Names(u) /\ Up(u, n) \in Names(u) \cup {Nil}
      BY DEF Linked
    <2>1. \A m \in Names(t) : ToSet(Items(t, m)) \subseteq Names(t) /\ Up(t, m) \in Names(t) \cup {Nil}
      BY DEF Linked
    <2>2. ToSet(Items(u, n)) \subseteq Names(t)
      BY <2>1, <1>1, <1>2
    <2>3. Up(u, n) \in Names(u) \cup {Nil}
      BY <2>1, <1>1, <1>2
    <2> QED BY <2>2, <2>3, <1>1
  <1>4. Fits(u, {})
    <2> SUFFICES ASSUME NEW n \in Names(u)
                 PROVE  Len(Items(u, n)) <= MaxChildItems /\ Len(Items(u, n)) <= MaxChildItems + 1
      BY DEF Fits
    <2>1. Len(Items(u, n)) <= MaxChildItems
      BY <1>1, <1>2 DEF Fits
    <2>2. Len(Items(u, n)) \in Nat /\ MaxChildItems \in Nat
      BY RtreeAssumption, NodeIs, SeqIs DEF IsSplit
    <2> QED BY <2>1, <2>2
  <1> QED BY <1>3, <1>4

LEMMA SplitFull ==
  ASSUME NEW t \in Trees, NEW A, NEW lv, NEW R, NEW c, Shape(t, A, lv, R, c), NEW l \in A, ~ IsData(l),
         NEW u, NEW new, NEW one, NEW two, IsSplit(t, l, u, new, one, two), Full(t, A, R)
  PROVE  Full(u, A \cup {new}, R \cup {new})
  <1>1. A \subseteq Names(t) /\ l \in Names(t)
    BY DEF Shape, Levels
  <1>2. /\ new \notin Names(t) /\ Names(u) = Names(t) \cup {new}
        /\ \A y \in Names(u) :
             ToSet(Items(u, y)) = IF y = l THEN ToSet(one) ELSE IF y = new THEN ToSet(two) ELSE ToSet(Items(t, y))
    BY <1>1, SplitLinks
  <1>3. /\ u.root = t.root /\ Items(u, l) = one /\ Items(u, new) = two
        /\ (\A x \in Names(t) : x # l => Items(u, x) = Items(t, x))
        /\ \A x \in Names(t) :
             Up(u, x) = IF x \in ToSet(two) THEN new ELSE IF x \in ToSet(one) THEN l ELSE Up(t, x)
        /\ ~ u.tied => /\ ~ t.tied /\ ToSet(Items(t, l)) = ToSet(one) \cup ToSet(two)
                       /\ Len(one) >= MinChildItems /\ Len(two) >= MinChildItems
    BY DEF IsSplit, Up
  <1>4. SUFFICES ASSUME ~ u.tied
                 PROVE  Full(u, A \cup {new}, R \cup {new})
    BY DEF Full
  <1>5. ASSUME NEW x \in (A \cup {new}) \ (R \cup {new})
        PROVE  x \in ToSet(Items(u, Up(u, x)))
    <2>1. x \in A \ R /\ x \in Names(t) /\ Up(t, x) \in A /\ x \in ToSet(Items(t, Up(t, x)))
      BY <1>1, <1>3, <1>4 DEF Full, Shape, Upward
    <2>2. CASE x \in ToSet(two)
      BY <2>1, <2>2, <1>1, <1>2, <1>3
    <2>3. CASE x \notin ToSet(two) /\ x \in ToSet(one)
      BY <2>1, <2>3, <1>1, <1>2, <1>3
    <2>4. CASE x \notin ToSet(two) /\ x \notin ToSet(one)
      <3>1. Up(u, x) = Up(t, x) /\ Up(t, x) # l /\ Up(t, x) \in Names(t) /\ Up(t, x) # new
        BY <2>1, <2>4, <1>1, <1>2, <1>3, <1>4
      <3> QED BY <3>1, <2>1, <1>2
    <2> QED BY <2>2, <2>3, <2>4
  <1>6. ASSUME NEW n \in A \cup {new}, ~ IsData(n), n # u.root
        PROVE  Len(Items(u, n)) >= MinChildItems
    <2>1. CASE n = new \/ n = l
      BY <2>1, <1>3, <1>4
    <2>2. CASE n # new /\ n # l
      BY <2>2, <1>1, <1>3, <1>4, <1>6 DEF Full
    <2> QED BY <2>1, <2>2
  <1> QED BY <1>5, <1>6 DEF Full

LEMMA SplitOwned ==
  ASSUME NEW t \in Trees, NEW A, NEW lv, NEW R, NEW c, Shape(t, A, lv, R, c), NEW l \in A, ~ IsData(l),
         NEW u, NEW new, NEW one, NEW two, IsSplit(t, l, u, new, one, two), Owned(t, A)
  PROVE  Owned(u, A \cup {new})
  <1>1. A \subseteq Names(t) /\ l \in Names(t)
    BY DEF Shape, Levels
  <1>2. /\ new \notin Names(t) /\ Names(u) = Names(t) \cup {new}
        /\ \A y \in Names(u) :
             ToSet(Items(u, y)) = IF y = l THEN ToSet(one) ELSE IF y = new THEN ToSet(two) ELSE ToSet(Items(t, y))
    BY <1>1, SplitLinks
  <1>3. /\ ToSet(one) \subseteq ToSet(Items(t, l)) /\ ToSet(two) \subseteq ToSet(Items(t, l))
        /\ \A x \in Names(t) :
             Up(u, x) = IF x \in ToSet(two) THEN new ELSE IF x \in ToSet(one) THEN l ELSE Up(t, x)
        /\ ~ u.twin => ~ t.twin /\ ToSet(one) \cap ToSet(two) = {}
    BY DEF IsSplit, Up
  <1>4. \A n \in A : \A x \in ToSet(Items(t, n)) : x \in Names(t)
    BY <1>1 DEF Shape, Downward
  <1>5. SUFFICES ASSUME ~ u.twin, NEW n \in A \cup {new}, NEW x \in ToSet(Items(u, n))
                 PROVE  Up(u, x) = n
    BY DEF Owned
  <1>6. CASE n = new
    BY <1>1, <1>2, <1>3, <1>4, <1>5, <1>6
  <1>7. CASE n = l
    BY <1>1, <1>2, <1>3, <1>4, <1>5, <1>7
  <1>8. CASE n # new /\ n # l
    <2>1. n \in A /\ x \in ToSet(Items(t, n)) /\ Up(t, x) = n /\ x \in Names(t)
      BY <1>1, <1>2, <1>3, <1>4, <1>5, <1>8 DEF Owned
    <2>2. x \notin ToSet(Items(t, l))
      BY <2>1, <1>3, <1>5, <1>8 DEF Owned
    <2> QED BY <2>1, <2>2, <1>3
  <1> QED BY <1>6, <1>7, <1>8

LEMMA SplitSnug ==
  ASSUME NEW t \in Trees, NEW A, NEW lv, NEW R, NEW c, Shape(t, A, lv, R, c), NEW l \in A, ~ IsData(l),
         NEW u, NEW new, NEW one, NEW two, IsSplit(t, l, u, new, one, two), NEW Q, Snug(t, A, Q), l \in Q
  PROVE  Snug(u, A \cup {new}, Q \cup {new})
  <1>1. A \subseteq Names(t)
    BY DEF Shape, Levels
  <1>2. /\ \A x \in Names(t) : (x # l => Items(u, x) = Items(t, x)) /\ Bound(u, x) = Bound(t, x)
        /\ (~ u.twin => ~ t.twin) /\ u \in Trees
    BY DEF IsSplit
  <1>3. SUFFICES ASSUME ~ u.twin, NEW m \in A, m \notin Q, Items(u, m) # <<>>
                 PROVE  Bound(u, m) = ComputeBB(u, Items(u, m))
    BY DEF Snug
  <1>4. m \in Names(t) /\ m # l /\ Items(u, m) = Items(t, m)
    BY <1>1, <1>2, <1>3
  <1>5. \A y \in ToSet(Items(t, m)) : y \in Names(t)
    BY <1>1 DEF Shape, Downward
  <1>6. \A y \in ToSet(Items(t, m)) : Bound(t, y) = Bound(u, y)
    BY <1>2, <1>5
  <1>7. ComputeBB(t, Items(t, m)) = ComputeBB(u, Items(t, m))
    BY <1>2, <1>6, ComputeBBSame
  <1> QED BY <1>2, <1>3, <1>4, <1>7 DEF Snug

LEMMA SplitPath ==
  ASSUME NEW t \in Trees, NEW A, NEW lv, NEW R, NEW c, Shape(t, A, lv, R, c), NEW l \in A, ~ IsData(l),
         NEW u, NEW new, NEW one, NEW two, IsSplit(t, l, u, new, one, two), NEW P, Path(t, A, lv, R, l, P)
  PROVE  Path(u, A \cup {new}, Beside(lv, A, new, l), R \cup {new}, l, P)
  <1> DEFINE lw == Beside(lv, A, new, l)
  <1>1. A \subseteq Names(t) /\ l \in Names(t) /\ lv \in [A -> Nat]
    BY DEF Shape, Levels
  <1>2. /\ new \notin Names(t) /\ Names(u) = Names(t) \cup {new}
        /\ \A y \in Names(u) :
             ToSet(Items(u, y)) = IF y = l THEN ToSet(one) ELSE IF y = new THEN ToSet(two) ELSE ToSet(Items(t, y))
    BY <1>1, SplitLinks
  <1>3. /\ ToSet(one) \subseteq ToSet(Items(t, l)) /\ ToSet(two) \subseteq ToSet(Items(t, l))
        /\ \A x \in Names(t) :
             Up(u, x) = IF x \in ToSet(two) THEN new ELSE IF x \in ToSet(one) THEN l ELSE Up(t, x)
        /\ (~ u.twin => ~ t.twin) /\ u.root = t.root
    BY DEF IsSplit, Up
  <1>4. \A x \in A : lw[x] = lv[x]
    BY <1>1, <1>2 DEF Beside
  <1> HIDE DEF lw
  <1>5. SUFFICES ASSUME ~ u.twin
                 PROVE  Path(u, A \cup {new}, lw, R \cup {new}, l, P)
    BY DEF Path, lw
  <1>6. /\ P \subseteq A /\ l \in P
        /\ \A x \in P : lv[x] <= lv[l] /\ (x # t.root => x \notin R /\ Up(t, x) \in P /\ x \in ToSet(Items(t, Up(t, x))))
        /\ \A x, y \in P : lv[x] = lv[y] => x = y
    BY <1>3, <1>5 DEF Path
  <1>7. ASSUME NEW x \in P, x # t.root
        PROVE  x \notin R \cup {new} /\ Up(u, x) \in P /\ x \in ToSet(Items(u, Up(u, x)))
    <2>1. x \notin ToSet(Items(t, l))
      <3> SUFFICES ASSUME x \in ToSet(Items(t, l))
                   PROVE  FALSE
        OBVIOUS
      <3>1. lv[x] = lv[l] + 1 /\ lv[l] \in Nat
        BY <1>1 DEF Shape, Downward
      <3> QED BY <3>1, <1>6
    <2>2. x \in Names(t) /\ Up(u, x) = Up(t, x)
      BY <2>1, <1>1, <1>3, <1>6
    <2>3. Up(t, x) # l /\ Up(t, x) \in Names(t)
      BY <2>1, <1>1, <1>6, <1>7
    <2> QED BY <2>2, <2>3, <1>2, <1>6, <1>7
  <1>8. \A x \in P : lw[x] = lv[x]
    BY <1>4, <1>6
  <1> QED BY <1>3, <1>6, <1>7, <1>8 DEF Path

-----------------------------------------------------------------------------
(* What an insertion leaves as it is.  A is the set of nodes it may change. *)

Keeps(t, u, A) ==
  /\ Names(t) \subseteq Names(u) /\ \A n \in Names(u) \ Names(t) : ~ IsData(n)
  /\ \A n \in Names(t) : Leaf(u, n) = Leaf(t, n) /\ (IsData(n) => Bound(u, n) = Bound(t, n))
  /\ \A n \in Names(t) \ A : Items(u, n) = Items(t, n) /\ Up(u, n) = Up(t, n) /\ Bound(u, n) = Bound(t, n)
  /\ u.size = t.size /\ u.lopped = t.lopped /\ u.skewed = t.skewed
  /\ (~ u.twin => ~ t.twin) /\ (~ u.tied => ~ t.tied)

\* A with the nodes made between t and u.
Grew(A, t, u) == A \cup (Names(u) \ Names(t))

LEMMA KeepsSelf ==
  ASSUME NEW t, NEW A
  PROVE  Keeps(t, t, A) /\ Grew(A, t, t) = A
  BY DEF Keeps, Grew

LEMMA KeepsOn ==
  ASSUME NEW t, NEW u, NEW v, NEW A, Keeps(t, u, A), Keeps(u, v, Grew(A, t, u))
  PROVE  Keeps(t, v, A) /\ Grew(Grew(A, t, u), u, v) = Grew(A, t, v)
  <1>1. Names(t) \subseteq Names(u) /\ Names(u) \subseteq Names(v)
    BY DEF Keeps
  <1>2. \A n \in Names(t) \ A : n \in Names(u) \ Grew(A, t, u)
    BY <1>1 DEF Grew
  <1>3. Grew(Grew(A, t, u), u, v) = Grew(A, t, v)
    BY <1>1 DEF Grew
  <1>4. \A n \in Names(t) \ A : Items(v, n) = Items(t, n) /\ Up(v, n) = Up(t, n) /\ Bound(v, n) = Bound(t, n)
    BY <1>2 DEF Keeps
  <1>5. \A n \in Names(t) : Leaf(v, n) = Leaf(t, n) /\ (IsData(n) => Bound(v, n) = Bound(t, n))
    BY <1>1 DEF Keeps
  <1>6. \A n \in Names(v) \ Names(t) : ~ IsData(n)
    BY <1>1 DEF Keeps
  <1>7. /\ v.size = t.size /\ v.lopped = t.lopped /\ v.skewed = t.skewed
        /\ (~ v.twin => ~ t.twin) /\ (~ v.tied => ~ t.tied)
    BY DEF Keeps
  <1> QED BY <1>1, <1>3, <1>4, <1>5, <1>6, <1>7 DEF Keeps

LEMMA BoxKeeps ==
  ASSUME NEW t \in Trees, NEW A, NEW n \in A, NEW b \in BoxSet, ~ IsData(n), A \subseteq Names(t)
  PROVE  Keeps(t, SetBox(t, n, b), A) /\ Grew(A, t, SetBox(t, n, b)) = A
  <1>1. PICK u : u = SetBox(t, n, b)
    OBVIOUS
  <1>2. SameLinks(t, u) /\ \A x \in Names(t) : Bound(u, x) = IF x = n THEN b ELSE Bound(t, x)
    BY <1>1, BoxSameLinks
  <1>3. Keeps(t, u, A) /\ Grew(A, t, u) = A
    BY <1>2 DEF Keeps, Grew, SameLinks, SameTop
  <1> QED BY <1>1, <1>3

LEMMA AttachKeeps ==
  ASSUME NEW t \in Trees, NEW A, NEW lv, NEW R, NEW c, NEW u, NEW n, NEW x,
         Attachable(t, A, lv, R, c, n, x), IsAttached(t, u, n, x), IsData(x) => Bound(u, x) = Bound(t, x)
  PROVE  Keeps(t, u, A) /\ Grew(A, t, u) = A
  <1>1. n \in A /\ x \in A
    BY DEF Attachable, Shape, Levels
  <1>2. /\ Names(u) = Names(t) /\ SameTop(t, u)
        /\ \A y \in Names(t) : /\ y # n => Items(u, y) = Items(t, y)
                               /\ y # x => Bound(u, y) = Bound(t, y)
                               /\ Leaf(u, y) = Leaf(t, y)
                               /\ Up(u, y) = IF y = x THEN n ELSE Up(t, y)
    BY DEF IsAttached
  <1>3. /\ u.size = t.size /\ u.lopped = t.lopped /\ u.skewed = t.skewed
        /\ (~ u.twin => ~ t.twin) /\ (~ u.tied => ~ t.tied)
    BY <1>2 DEF SameTop
  <1>4. \A y \in Names(t) : IsData(y) => Bound(u, y) = Bound(t, y)
    BY <1>2
  <1>5. \A y \in Names(t) \ A : Items(u, y) = Items(t, y) /\ Up(u, y) = Up(t, y) /\ Bound(u, y) = Bound(t, y)
    BY <1>1, <1>2
  <1> QED BY <1>2, <1>3, <1>4, <1>5 DEF Keeps, Grew

LEMMA SplitKeeps ==
  ASSUME NEW t \in Trees, NEW A, NEW lv, NEW R, NEW c, Shape(t, A, lv, R, c), NEW l \in A,
         NEW u, NEW new, NEW one, NEW two, IsSplit(t, l, u, new, one, two)
  PROVE  Keeps(t, u, A) /\ Grew(A, t, u) = A \cup {new}
  <1>1. A \subseteq Names(t) /\ ToSet(Items(t, l)) \subseteq A
    BY DEF Shape, Levels, Downward
  <1>2. new \notin Names(t) /\ new \in Int /\ new < -2 /\ Names(u) = Names(t) \cup {new}
    BY <1>1, SplitLinks
  <1>3. /\ ToSet(one) \subseteq ToSet(Items(t, l)) /\ ToSet(two) \subseteq ToSet(Items(t, l))
        /\ (\A x \in Names(t) : x # l => Items(u, x) = Items(t, x))
        /\ (\A x \in Names(t) : Bound(u, x) = Bound(t, x) /\ Leaf(u, x) = Leaf(t, x))
        /\ (\A x \in Names(t) : Up(u, x) = IF x \in ToSet(two) THEN new ELSE IF x \in ToSet(one) THEN l ELSE Up(t, x))
        /\ u.size = t.size /\ u.lopped = t.lopped /\ u.skewed = t.skewed
        /\ (~ u.twin => ~ t.twin) /\ (~ u.tied => ~ t.tied)
    BY DEF IsSplit, Leaf, Up
  <1>4. ~ IsData(new)
    BY <1>2 DEF IsData
  <1>5. \A y \in Names(t) \ A : Items(u, y) = Items(t, y) /\ Up(u, y) = Up(t, y) /\ Bound(u, y) = Bound(t, y)
    BY <1>1, <1>3
  <1> QED BY <1>1, <1>2, <1>3, <1>4, <1>5 DEF Keeps, Grew

-----------------------------------------------------------------------------
(* A tree in which the nodes of P have boxes that may be out of date, on the way up from  *)
(* node s.at; s.new is its second half, if there is one.                                  *)

Waiting(x) == IF x = Nil THEN {} ELSE {x}

Second(s, A, lv) ==
  /\ s.new \in A /\ ~ IsData(s.new) /\ s.new # s.at /\ s.new # s.tree.root
  /\ lv[s.new] = lv[s.at] /\ Leaf(s.tree, s.new) = Leaf(s.tree, s.at) /\ Items(s.tree, s.new) # <<>>
  /\ ~ s.tree.tied => Len(Items(s.tree, s.at)) >= MinChildItems

Whole(t, A, lv, R, c) ==
  t \in Trees /\ Shape(t, A, lv, R, c) /\ Linked(t) /\ Fits(t, {}) /\ Full(t, A, R) /\ Owned(t, A)

Climbing(s, A, lv, c, P) ==
  /\ Whole(s.tree, A, lv, {s.tree.root} \cup Waiting(s.new), c)
  /\ s.at \in A /\ ~ IsData(s.at) /\ Items(s.tree, s.at) # <<>>
  /\ s.new # Nil => Second(s, A, lv)
  /\ Snug(s.tree, A, P \cup Waiting(s.new))
  /\ Path(s.tree, A, lv, {s.tree.root} \cup Waiting(s.new), s.at, P)

\* The nodes whose parent is the root and that are no entries of it.
Strays(t) == {y \in Names(t) : y # t.root /\ Up(t, y) = t.root /\ y \notin ToSet(Items(t, t.root))}

\* The root has no fewer entries than before and no more strays, but for a node that
\* waits, unless it has a second half.
Widens(t, w, s) ==
  \/ s.new # Nil /\ s.at = t.root
  \/ /\ Len(Items(s.tree, t.root)) >= Len(Items(t, t.root))
     /\ Strays(s.tree) \ Waiting(s.new) \subseteq Strays(t) \ Waiting(w)

\* What a step from t, where w waits, to s, the tree it leads to, keeps besides.
Onward(t, A, w, s, B) ==
  /\ Keeps(t, s.tree, A) /\ B = Grew(A, t, s.tree)
  /\ s.tree.root = t.root /\ s.tree.height = t.height
  /\ Widens(t, w, s)

LEMMA WidensSame ==
  ASSUME NEW t \in Trees, NEW s, SameLinks(t, s.tree)
  PROVE  Widens(t, s.new, s)
  <1>1. t.root \in Names(t) /\ Len(Items(t, t.root)) \in Nat
    BY TreeIs, NodeIs, SeqIs
  <1>2. /\ Names(s.tree) = Names(t) /\ s.tree.root = t.root
        /\ \A n \in Names(t) : Items(s.tree, n) = Items(t, n) /\ Up(s.tree, n) = Up(t, n)
    BY DEF SameLinks, SameTop
  <1>3. Strays(s.tree) = Strays(t)
    BY <1>1, <1>2 DEF Strays
  <1>4. Len(Items(s.tree, t.root)) >= Len(Items(t, t.root))
    BY <1>1, <1>2
  <1> QED BY <1>3, <1>4 DEF Widens

LEMMA LinksSelf ==
  ASSUME NEW t \in Trees
  PROVE  SameLinks(t, t)
  BY DEF SameLinks, SameTop

\* A node x becomes an entry of another one, and its parent is that one.
LEMMA WidensAttached ==
  ASSUME NEW t \in Trees, NEW u, NEW n \in Names(t), NEW x \in Names(t), IsAttached(t, u, n, x), NEW w, w = x \/ w = Nil,
         NEW s, s.tree = u, s.new = Nil
  PROVE  Widens(t, w, s)
  <1>1. /\ Names(u) = Names(t) /\ u.root = t.root /\ Items(u, n) = Append(Items(t, n), x)
        /\ \A y \in Names(t) : /\ y # n => Items(u, y) = Items(t, y)
                               /\ Up(u, y) = IF y = x THEN n ELSE Up(t, y)
    BY DEF IsAttached, SameTop
  <1>2. /\ t.root \in Names(t) /\ Items(t, n) \in Seq(Int) /\ x \in Int /\ Items(t, t.root) \in Seq(Int)
    BY TreeIs, NodeIs
  <1>3. Len(Items(u, n)) = Len(Items(t, n)) + 1 /\ ToSet(Items(u, n)) = ToSet(Items(t, n)) \cup {x}
    BY <1>1, <1>2, AppendSet
  <1>4. Len(Items(t, n)) \in Nat /\ Len(Items(t, t.root)) \in Nat
    BY <1>2, SeqIs
  <1>5. Len(Items(u, t.root)) >= Len(Items(t, t.root))
    <2>1. CASE n = t.root
      BY <2>1, <1>3, <1>4
    <2>2. CASE n # t.root
      <3>1. Items(u, t.root) = Items(t, t.root)
        BY <2>2, <1>1, <1>2
      <3> QED BY <3>1, <1>4
    <2> QED BY <2>1, <2>2
  <1>6. ASSUME NEW y \in Strays(u)
        PROVE  y \in Strays(t) \ {x}
    <2>1. y \in Names(t) /\ y # t.root /\ Up(u, y) = t.root /\ y \notin ToSet(Items(u, t.root))
      BY <1>1, <1>6 DEF Strays
    <2>2. y # x
      <3> SUFFICES ASSUME y = x
                   PROVE  FALSE
        OBVIOUS
      <3>1. n = t.root
        BY <2>1, <1>1
      <3> QED BY <3>1, <2>1, <1>3
    <2>3. Up(t, y) = t.root
      BY <2>1, <2>2, <1>1
    <2>4. y \notin ToSet(Items(t, t.root))
      BY <2>1, <1>1, <1>2, <1>3
    <2> QED BY <2>1, <2>2, <2>3, <2>4 DEF Strays
  <1>7. Strays(u) \ Waiting(Nil) \subseteq Strays(t) \ Waiting(w)
    BY <1>6 DEF Waiting
  <1> QED BY <1>5, <1>7 DEF Widens

\* A node that is not the root is split.
LEMMA WidensSplit ==
  ASSUME NEW t \in Trees, NEW u, NEW l \in Names(t) \ {t.root}, NEW new, new \notin Names(t), new # Nil,
         NEW one, NEW two, IsSplit(t, l, u, new, one, two), NEW s, s.tree = u, s.new = new
  PROVE  Widens(t, Nil, s)
  <1>1. t.root \in Names(t) /\ Len(Items(t, t.root)) \in Nat
    BY TreeIs, NodeIs, SeqIs
  <1>2. /\ Names(u) = Names(t) \cup {new} /\ u.root = t.root /\ Items(u, t.root) = Items(t, t.root)
        /\ \A x \in Names(t) : Up(u, x) = IF x \in ToSet(two) THEN new ELSE IF x \in ToSet(one) THEN l ELSE Up(t, x)
    BY <1>1 DEF IsSplit, Up
  <1>3. ASSUME NEW y \in Strays(u), y # new
        PROVE  y \in Strays(t)
    <2>1. y \in Names(t) /\ y # t.root /\ Up(u, y) = t.root /\ y \notin ToSet(Items(t, t.root))
      BY <1>2, <1>3 DEF Strays
    <2>2. Up(t, y) = t.root
      BY <2>1, <1>1, <1>2
    <2> QED BY <2>1, <2>2 DEF Strays
  <1>4. Strays(u) \ Waiting(new) \subseteq Strays(t) \ Waiting(Nil)
    BY <1>3 DEF Waiting
  <1> QED BY <1>1, <1>2, <1>4 DEF Widens

LEMMA OnwardOn ==
  ASSUME NEW t \in Trees, NEW A, NEW w, NEW s, NEW B, NEW r, NEW C, Onward(t, A, w, s, B), s.tree \in Trees, r.tree \in Trees,
         Onward(s.tree, B, s.new, r, C),
         s.new # Nil /\ s.at = t.root => r.new # Nil /\ r.at = t.root
  PROVE  Onward(t, A, w, r, C)
  <1>1. Keeps(t, r.tree, A) /\ C = Grew(A, t, r.tree)
    BY KeepsOn DEF Onward
  <1>2. r.tree.root = t.root /\ r.tree.height = t.height /\ s.tree.root = t.root
    BY DEF Onward
  <1>3. PICK i \in Nat, j \in Nat, k \in Nat : /\ i = Len(Items(t, t.root)) /\ j = Len(Items(s.tree, t.root))
                                            /\ k = Len(Items(r.tree, t.root))
    <2>1. Len(Items(t, t.root)) \in Nat
      BY TreeIs, NodeIs, SeqIs
    <2>2. Len(Items(s.tree, s.tree.root)) \in Nat
      BY TreeIs, NodeIs, SeqIs
    <2>3. Len(Items(r.tree, r.tree.root)) \in Nat
      BY TreeIs, NodeIs, SeqIs
    <2> QED BY <2>1, <2>2, <2>3, <1>2
  <1>4. Widens(t, w, r)
    <2>1. CASE (s.new # Nil /\ s.at = t.root) \/ (r.new # Nil /\ r.at = t.root)
      BY <2>1 DEF Widens
    <2>2. CASE ~ (s.new # Nil /\ s.at = t.root) /\ ~ (r.new # Nil /\ r.at = t.root)
      <3>1. j >= i /\ Strays(s.tree) \ Waiting(s.new) \subseteq Strays(t) \ Waiting(w)
        BY <2>2, <1>3 DEF Onward, Widens
      <3>2. k >= j /\ Strays(r.tree) \ Waiting(r.new) \subseteq Strays(s.tree) \ Waiting(s.new)
        BY <2>2, <1>2, <1>3 DEF Onward, Widens
      <3>3. k >= i
        BY <3>1, <3>2
      <3> QED BY <3>1, <3>2, <3>3, <1>3 DEF Widens
    <2> QED BY <2>1, <2>2
  <1> QED BY <1>1, <1>2, <1>4 DEF Onward

LEMMA SplitOverfullIs ==
  ASSUME NEW t \in Trees, NEW A, NEW lv, NEW c, Shape(t, A, lv, {t.root}, c), NEW n \in A, ~ IsData(n),
         Linked(t), Fits(t, {n}), Full(t, A, {t.root}), Owned(t, A), NEW P, Snug(t, A, P),
         Path(t, A, lv, {t.root}, n, P), Items(t, n) # <<>>
  PROVE  \E B, lw : /\ Climbing(At(SplitOverfull(t, n), n), B, lw, c, P) /\ lw[n] = lv[n]
                    /\ Onward(t, A, Nil, At(SplitOverfull(t, n), n), B)
  <1>0. n \in Names(t) /\ A \subseteq Names(t) /\ t.root \in Names(t) /\ -1 \notin Names(t)
    BY TreeIs DEF Shape, Levels
  <1>1. CASE ~ Overfull(t, n)
    <2>1. PICK s : s = At(SplitOverfull(t, n), n)
      OBVIOUS
    <2>2. s.tree = t /\ s.new = Nil /\ s.at = n
      BY <1>1, <2>1 DEF SplitOverfull, At
    <2>3. Fits(t, {})
      <3>1. Len(Items(t, n)) \in Nat /\ MaxChildItems \in Nat
        BY <1>0, NodeIs, SeqIs, RtreeAssumption
      <3>2. Len(Items(t, n)) <= MaxChildItems
        BY <3>1, <1>1 DEF Overfull
      <3> QED BY <3>2 DEF Fits
    <2>4. Waiting(s.new) = {}
      BY <2>2 DEF Waiting
    <2>5. Climbing(s, A, lv, c, P)
      BY <2>2, <2>3, <2>4 DEF Climbing, Whole
    <2>6. Onward(t, A, Nil, s, A)
      <3>1. Widens(t, s.new, s)
        BY <2>2, LinksSelf, WidensSame
      <3> QED BY <3>1, <2>2, KeepsSelf DEF Onward
    <2> QED BY <2>1, <2>5, <2>6
  <1>2. CASE Overfull(t, n)
    <2>1. PICK s : s = At(SplitNode(t, n), n)
      OBVIOUS
    <2>2. s.tree = SplitNode(t, n).tree /\ s.new = SplitNode(t, n).new /\ s.at = n
      BY <2>1 DEF At
    <2>3. Len(Items(t, n)) = MaxChildItems + 1
      <3>1. Len(Items(t, n)) \in Nat /\ MaxChildItems \in Nat
        BY <1>0, NodeIs, SeqIs, RtreeAssumption
      <3> QED BY <3>1, <1>0, <1>2 DEF Overfull, Fits
    <2>4. ToSet(Items(t, n)) \subseteq Names(t) /\ IsInjective(Items(t, n))
      BY <1>0 DEF Linked, Shape, Kinds
    <2>5. PICK u, new : u = s.tree /\ new = s.new
      OBVIOUS
    <2>6. PICK one, two : IsSplit(t, n, u, new, one, two)
      <3>1. \E one, two : IsSplit(t, n, SplitNode(t, n).tree, SplitNode(t, n).new, one, two)
        BY <1>0, <2>3, <2>4, SplitNodeIs
      <3> QED BY <3>1, <2>2, <2>5
    <2>7. /\ new \notin Names(t) /\ new \in Int /\ new < -2 /\ u \in Trees
          /\ Items(u, n) = one /\ Items(u, new) = two /\ one # <<>> /\ two # <<>>
          /\ u.root = t.root /\ u.height = t.height
      <3>1. /\ new \notin Names(t) /\ new \in Int /\ new < -2 /\ u \in Trees /\ one # <<>> /\ two # <<>>
        BY <1>0, <2>6, SplitNew
      <3>2. Items(u, n) = one /\ Items(u, new) = two /\ u.root = t.root /\ u.height = t.height
        BY <2>6 DEF IsSplit
      <3> QED BY <3>1, <3>2
    <2>8. new # Nil /\ ~ IsData(new) /\ new # n /\ new # t.root
      BY <1>0, <2>7 DEF Nil, IsData
    <2>9. PICK B, lw, R : B = A \cup {new} /\ lw = Beside(lv, A, new, n) /\ R = {t.root} \cup {new}
      OBVIOUS
    <2>10. lw[new] = lv[n] /\ lw[n] = lv[n]
      BY <1>0, <2>8, <2>9 DEF Beside
    <2>11. Shape(u, B, lw, R, c)
      BY <2>6, <2>9, SplitShape
    <2>12. Linked(u) /\ Fits(u, {})
      BY <1>0, <2>6, SplitLinked
    <2>13. Full(u, B, R) /\ Owned(u, B)
      BY <2>6, <2>9, SplitFull, SplitOwned
    <2>14. Path(u, B, lw, R, n, P)
      BY <2>6, <2>9, SplitPath
    <2>15. Snug(u, B, P \cup {new})
      <3>1. Snug(t, A, P \cup {n}) /\ n \in P \cup {n}
        BY DEF Snug
      <3>2. Snug(u, B, (P \cup {n}) \cup {new})
        BY <3>1, <2>6, <2>9, SplitSnug
      <3>3. ~ u.twin => n \in P
        BY <2>14 DEF Path
      <3> QED BY <3>2, <3>3 DEF Snug
    <2>16. Leaf(u, new) = Leaf(u, n)
      BY <1>0, <2>6 DEF IsSplit, Leaf
    <2>17. ~ u.tied => Len(Items(u, n)) >= MinChildItems
      BY <2>6 DEF IsSplit
    <2>18. Waiting(s.new) = {new} /\ s.at = n /\ s.tree = u /\ s.new = new
      BY <2>2, <2>5, <2>8 DEF Waiting
    <2>19. Second(s, B, lw)
      BY <2>7, <2>8, <2>9, <2>10, <2>16, <2>17, <2>18 DEF Second
    <2>20. Climbing(s, B, lw, c, P)
      BY <2>7, <2>9, <2>11, <2>12, <2>13, <2>14, <2>15, <2>18, <2>19 DEF Climbing, Whole
    <2>21. Onward(t, A, Nil, s, B)
      <3>1. Widens(t, Nil, s)
        <4>1. CASE n = t.root
          BY <4>1, <2>8, <2>18 DEF Widens
        <4>2. CASE n # t.root
          BY <4>2, <1>0, <2>6, <2>7, <2>8, <2>18, WidensSplit
        <4> QED BY <4>1, <4>2
      <3> QED BY <3>1, <2>6, <2>7, <2>9, <2>18, SplitKeeps DEF Onward
    <2>22. s = At(SplitOverfull(t, n), n)
      BY <1>2, <2>1 DEF SplitOverfull
    <2> QED BY <2>10, <2>20, <2>21, <2>22
  <1> QED BY <1>1, <1>2

-----------------------------------------------------------------------------
\* The second half of a split is attached to node p, which is split in turn if it overflows.
LEMMA AttachedIs ==
  ASSUME NEW t, NEW nn, NEW A, NEW lv, NEW c, NEW p, NEW P,
         Whole(t, A, lv, {t.root} \cup Waiting(nn), c),
         p \in A, ~ IsData(p), ~ Leaf(t, p), Items(t, p) # <<>>,
         nn # Nil => nn \in A /\ ~ IsData(nn) /\ nn # t.root /\ lv[nn] = lv[p] + 1 /\ Items(t, nn) # <<>>,
         Snug(t, A, P \cup Waiting(nn)), Path(t, A, lv, {t.root} \cup Waiting(nn), p, P)
  PROVE  \E B, lw : /\ Climbing(At(Attached(t, nn, p), p), B, lw, c, P) /\ lw[p] = lv[p]
                    /\ Onward(t, A, nn, At(Attached(t, nn, p), p), B)
  <1>0. t \in Trees /\ A \subseteq Names(t) /\ p \in Names(t)
    BY DEF Whole, Shape, Levels
  <1>1. CASE nn = Nil
    <2>1. PICK r : r = At(Attached(t, nn, p), p)
      OBVIOUS
    <2>2. r.tree = t /\ r.new = Nil /\ r.at = p
      BY <1>1, <2>1 DEF Attached, At
    <2>3. Waiting(nn) = {} /\ Waiting(r.new) = {}
      BY <1>1, <2>2 DEF Waiting
    <2>4. Climbing(r, A, lv, c, P)
      BY <2>2, <2>3 DEF Climbing
    <2>5. Onward(t, A, nn, r, A)
      <3>1. Widens(t, r.new, r)
        BY <1>0, <2>2, LinksSelf, WidensSame
      <3> QED BY <3>1, <1>0, <1>1, <2>2, KeepsSelf DEF Onward
    <2> QED BY <2>1, <2>4, <2>5
  <1>2. CASE nn # Nil
    <2>1. PICK R : R = {t.root} \cup {nn}
      OBVIOUS
    <2>2. Waiting(nn) = {nn}
      BY <1>2 DEF Waiting
    <2>3. Whole(t, A, lv, R, c) /\ Snug(t, A, P \cup {nn}) /\ Path(t, A, lv, R, p, P)
      BY <2>1, <2>2
    <2>4. Attachable(t, A, lv, R, c, p, nn)
      BY <1>2, <2>1, <2>3 DEF Attachable, Whole
    <2>5. PICK u : u = Attach(t, nn, p)
      OBVIOUS
    <2>6. nn \in Names(t) /\ p # nn /\ ToSet(Items(t, nn)) \subseteq Names(t) \ {nn}
      <3>1. nn \in Names(t) /\ lv \in [A -> Nat] /\ nn \in A
        BY <1>0, <1>2, <2>3 DEF Whole, Shape, Levels
      <3>2. \A x \in ToSet(Items(t, nn)) : x \in A /\ lv[x] = lv[nn] + 1
        BY <3>1, <2>3 DEF Whole, Shape, Downward
      <3>3. lv[p] \in Nat /\ lv[nn] \in Nat /\ lv[nn] = lv[p] + 1
        BY <3>1, <1>2
      <3> QED BY <3>1, <3>2, <3>3, <1>0
    <2>7. IsAttached(t, u, p, nn) /\ Bound(u, nn) = ComputeBB(u, Items(u, nn))
      BY <1>0, <1>2, <2>5, <2>6, AttachIs
    <2>8. R \ {nn} = {u.root} /\ u.root = t.root /\ u.height = t.height /\ u \in Trees
      BY <1>2, <2>1, <2>7 DEF IsAttached, SameTop
    <2>9. Shape(u, A, lv, {u.root}, c)
      BY <1>0, <2>4, <2>7, <2>8, AttachShape
    <2>10. Linked(u) /\ Fits(u, {p})
      BY <1>0, <2>3, <2>6, <2>7, AttachLinked DEF Whole
    <2>11. Full(u, A, {u.root}) /\ Owned(u, A)
      <3>1. Full(t, A, R) /\ Owned(t, A)
        BY <2>3 DEF Whole
      <3>2. Full(u, A, R \ {nn})
        BY <3>1, <1>0, <2>4, <2>7, AttachFull
      <3>3. Owned(u, A)
        BY <3>1, <1>0, <2>4, <2>7, AttachOwned
      <3> QED BY <3>2, <3>3, <2>8
    <2>12. Path(u, A, lv, {u.root}, p, P)
      <3>1. Path(u, A, lv, R \ {nn}, p, P)
        BY <1>0, <2>3, <2>4, <2>7, AttachPath
      <3> QED BY <3>1, <2>8
    <2>13. Snug(u, A, P)
      <3>1. Snug(t, A, (P \cup {nn}) \cup {p}) /\ p \in (P \cup {nn}) \cup {p}
        BY <2>3 DEF Snug
      <3>2. Snug(u, A, ((P \cup {nn}) \cup {p}) \ {nn})
        BY <3>1, <1>0, <2>4, <2>7, AttachSnug
      <3>3. ~ u.twin => p \in P
        BY <2>12 DEF Path
      <3> QED BY <3>2, <3>3 DEF Snug
    <2>14. Items(u, p) # <<>>
      <3>1. Items(t, p) \in Seq(Int) /\ nn \in Int /\ Items(u, p) = Append(Items(t, p), nn)
        BY <1>0, <2>6, <2>7, NodeIs, TreeIs DEF IsAttached
      <3>2. Len(Items(u, p)) = Len(Items(t, p)) + 1 /\ Len(Items(t, p)) \in Nat
        BY <3>1, AppendSet, SeqIs
      <3>3. Items(u, p) \in Seq(Int)
        BY <3>1, AppendSet
      <3> QED BY <3>2, <3>3, SeqIs
    <2>15. PICK r : r = At(SplitOverfull(u, p), p)
      OBVIOUS
    <2>16. PICK B, lw : Climbing(r, B, lw, c, P) /\ lw[p] = lv[p] /\ Onward(u, A, Nil, r, B)
      BY <2>8, <2>9, <2>10, <2>11, <2>12, <2>13, <2>14, <2>15, SplitOverfullIs
    <2>17. Keeps(t, u, A) /\ Grew(A, t, u) = A
      BY <1>0, <1>2, <2>4, <2>7, AttachKeeps
    <2>18. Onward(t, A, nn, r, B)
      <3>1. PICK s : s = [tree |-> u, new |-> Nil, at |-> p]
        OBVIOUS
      <3>2. s.tree = u /\ s.new = Nil
        BY <3>1
      <3>3. Widens(t, nn, s)
        BY <3>2, <1>0, <2>6, <2>7, WidensAttached
      <3>4. Onward(t, A, nn, s, A) /\ s.tree \in Trees /\ r.tree \in Trees
        BY <3>2, <3>3, <2>8, <2>16, <2>17 DEF Onward, Climbing, Whole
      <3>5. Onward(s.tree, A, s.new, r, B)
        BY <3>2, <2>16
      <3> QED BY <3>2, <3>4, <3>5, <1>0, OnwardOn
    <2>19. r = At(Attached(t, nn, p), p)
      BY <1>2, <2>5, <2>15 DEF Attached
    <2> QED BY <2>16, <2>18, <2>19
  <1> QED BY <1>1, <1>2

\* One turn of the climb.
LEMMA ClimbedIs ==
  ASSUME NEW s, NEW A, NEW lv, NEW c, NEW P, Climbing(s, A, lv, c, P), s.at # s.tree.root
  PROVE  \E B, lw, Q : /\ Climbing(Climbed(s), B, lw, c, Q) /\ lv[s.at] = lw[Climbed(s).at] + 1
                       /\ Onward(s.tree, A, s.new, Climbed(s), B)
  <1>1. PICK t, n, nn, R : t = s.tree /\ n = s.at /\ nn = s.new /\ R = {t.root} \cup Waiting(s.new)
    OBVIOUS
  <1>2. /\ t \in Trees /\ Shape(t, A, lv, R, c) /\ Linked(t) /\ Fits(t, {}) /\ Full(t, A, R) /\ Owned(t, A)
        /\ n \in A /\ ~ IsData(n) /\ Items(t, n) # <<>> /\ Snug(t, A, P \cup Waiting(nn)) /\ Path(t, A, lv, R, n, P)
    BY <1>1 DEF Climbing, Whole
  <1>3. /\ nn # Nil => /\ nn \in A /\ ~ IsData(nn) /\ nn # n /\ nn # t.root /\ lv[nn] = lv[n]
                       /\ Items(t, nn) # <<>>
        /\ Waiting(nn) = IF nn = Nil THEN {} ELSE {nn}
    BY <1>1 DEF Climbing, Second, Waiting
  <1>4. A \subseteq Names(t) /\ lv \in [A -> Nat] /\ n \in Names(t) /\ n \notin R
    BY <1>1, <1>2, <1>3 DEF Shape, Levels
  <1>5. PICK p : p = Up(t, n)
    OBVIOUS
  <1>6. /\ p \in A /\ ~ IsData(p) /\ lv[n] = lv[p] + 1 /\ ~ Leaf(t, p) /\ Items(t, p) # <<>> /\ p \in Names(t)
        /\ lv[p] \in Nat
    <2>1. p \in A /\ ~ IsData(p) /\ lv[n] = lv[p] + 1 /\ (IsData(n) <=> Leaf(t, p))
      BY <1>2, <1>4, <1>5 DEF Shape, Upward
    <2> QED BY <2>1, <1>2, <1>4 DEF Shape, Kinds
  <1>7. PICK e : e = IF n \in ToSet(Items(t, p)) THEN n ELSE Head(Items(t, p))
    OBVIOUS
  <1>8. e \in ToSet(Items(t, p)) /\ e \in A /\ ~ IsData(e)
    <2>1. Items(t, p) \in Seq(Int)
      BY <1>2, <1>6, NodeIs
    <2>2. Head(Items(t, p)) \in ToSet(Items(t, p))
      <3>1. Len(Items(t, p)) # 0 /\ Len(Items(t, p)) \in Nat
        BY <2>1, <1>6, SeqIs
      <3>2. 1 \in 1..Len(Items(t, p)) /\ Head(Items(t, p)) = Items(t, p)[1]
        BY <2>1, <3>1
      <3> QED BY <2>1, <3>2, SeqIs
    <2>3. \A x \in ToSet(Items(t, p)) : x \in A /\ (IsData(x) <=> Leaf(t, p))
      BY <1>2, <1>6 DEF Shape, Downward
    <2> QED BY <2>2, <2>3, <1>6, <1>7
  <1>9. Items(t, n) \in Seq(Int) /\ ToSet(Items(t, n)) \subseteq Names(t)
    BY <1>2, <1>4, NodeIs DEF Linked
  <1>10. PICK b : b = ComputeBB(t, Items(t, n))
    OBVIOUS
  <1>11. b \in BoxSet
    BY <1>2, <1>9, <1>10, ComputeBBIs
  <1>12. PICK t1 : t1 = SetBox(t, e, b)
    OBVIOUS
  <1>13. e \in Names(t) /\ SameLinks(t, t1)
    BY <1>2, <1>4, <1>8, <1>11, <1>12, BoxSameLinks
  <1>14. /\ t1 \in Trees /\ t1.root = t.root /\ t1.height = t.height /\ t1.twin = t.twin
         /\ \A x \in Names(t) : Items(t1, x) = Items(t, x) /\ Leaf(t1, x) = Leaf(t, x)
    BY <1>13 DEF SameLinks, SameTop
  <1>15. Shape(t1, A, lv, R, c) /\ Linked(t1) /\ Fits(t1, {}) /\ Full(t1, A, R) /\ Owned(t1, A)
    BY <1>2, <1>13, SameLinksKeep
  <1>16. Path(t1, A, lv, R, n, P)
    BY <1>2, <1>13, SameLinksKeep
  <1>17. PICK Q : Q = P \ {n}
    OBVIOUS
  <1>18. ~ t.twin => n \in ToSet(Items(t, p)) /\ n \in P /\ p \in P
    BY <1>1, <1>2, <1>4, <1>5 DEF Path
  <1>19. Path(t1, A, lv, R, p, Q)
    <2> SUFFICES ASSUME ~ t.twin
                 PROVE  Path(t1, A, lv, R, p, Q)
      BY <1>14 DEF Path
    <2>1. /\ P \subseteq A /\ n \in P
          /\ \A x \in P : lv[x] <= lv[n] /\ (x # t1.root => x \notin R /\ Up(t1, x) \in P /\ x \in ToSet(Items(t1, Up(t1, x))))
          /\ \A x, y \in P : lv[x] = lv[y] => x = y
      BY <1>14, <1>16 DEF Path
    <2>2. \A x \in P : lv[x] \in Nat
      BY <2>1, <1>4
    <2>3. p \in Q
      <3>1. p # n
        BY <1>6
      <3> QED BY <3>1, <1>17, <1>18
    <2>4. ASSUME NEW x \in Q
          PROVE  lv[x] <= lv[p]
      <3>1. x \in P /\ x # n
        BY <1>17
      <3>2. lv[x] <= lv[n] /\ lv[x] # lv[n] /\ lv[x] \in Nat
        BY <3>1, <2>1, <2>2
      <3> QED BY <3>2, <1>6
    <2>5. ASSUME NEW x \in Q, x # t1.root
          PROVE  x \notin R /\ Up(t1, x) \in Q /\ x \in ToSet(Items(t1, Up(t1, x)))
      <3>1. x \notin R /\ Up(t1, x) \in P /\ x \in ToSet(Items(t1, Up(t1, x))) /\ x \in A
        BY <2>1, <2>5, <1>17
      <3>2. lv[x] = lv[Up(t1, x)] + 1
        BY <3>1, <1>15 DEF Shape, Upward
      <3>3. Up(t1, x) # n
        <4>1. lv[x] <= lv[p] /\ lv[x] \in Nat
          BY <2>4, <2>5, <2>2, <1>17
        <4> QED BY <4>1, <3>2, <1>6
      <3> QED BY <3>1, <3>3, <1>17
    <2> QED BY <2>1, <2>3, <2>4, <2>5, <1>17 DEF Path
  <1>20. Snug(t1, A, Q \cup Waiting(nn))
    <2>1. CASE t.twin
      BY <2>1, <1>14 DEF Snug
    <2>2. CASE ~ t.twin
      <3>1. e = n
        BY <2>2, <1>7, <1>18
      <3>2. \A m \in A : n \in ToSet(Items(t, m)) => m \in P \cup Waiting(nn)
        BY <2>2, <1>2, <1>5, <1>18 DEF Owned
      <3>3. Snug(SetBox(t, n, b), A, (P \cup Waiting(nn)) \ {n})
        BY <3>2, <1>2, <1>10, BoxSnug
      <3>4. (P \cup Waiting(nn)) \ {n} = Q \cup Waiting(nn)
        BY <1>3, <1>17
      <3> QED BY <3>1, <3>3, <3>4, <1>12
    <2> QED BY <2>1, <2>2
  <1>22. R = {t1.root} \cup Waiting(nn)
    BY <1>1, <1>14
  <1>23. Whole(t1, A, lv, {t1.root} \cup Waiting(nn), c)
    BY <1>14, <1>15, <1>22 DEF Whole
  <1>24. Snug(t1, A, Q \cup Waiting(nn)) /\ Path(t1, A, lv, {t1.root} \cup Waiting(nn), p, Q)
    BY <1>19, <1>20, <1>22
  <1>25. nn # Nil => /\ nn \in A /\ ~ IsData(nn) /\ nn # t1.root /\ lv[nn] = lv[p] + 1 /\ Items(t1, nn) # <<>>
    BY <1>3, <1>4, <1>6, <1>14
  <1>26. ~ Leaf(t1, p) /\ Items(t1, p) # <<>>
    BY <1>6, <1>14
  <1>27. PICK r : r = At(Attached(t1, nn, p), p)
    OBVIOUS
  <1>28. PICK B, lw : Climbing(r, B, lw, c, Q) /\ lw[p] = lv[p] /\ Onward(t1, A, nn, r, B)
    <2>0. p \in A /\ ~ IsData(p)
      BY <1>6
    <2>1. \E B, lw : /\ Climbing(At(Attached(t1, nn, p), p), B, lw, c, Q) /\ lw[p] = lv[p]
                     /\ Onward(t1, A, nn, At(Attached(t1, nn, p), p), B)
      BY <2>0, <1>23, <1>24, <1>25, <1>26, AttachedIs
    <2> QED BY <2>1, <1>27
  <1>29. Keeps(t, t1, A) /\ Grew(A, t, t1) = A
    BY <1>2, <1>4, <1>8, <1>11, <1>12, BoxKeeps
  <1>30. Onward(t, A, nn, r, B)
    <2>1. PICK q : q = [tree |-> t1, new |-> nn, at |-> n]
      OBVIOUS
    <2>2. q.tree = t1 /\ q.new = nn /\ q.at # t.root
      BY <2>1, <1>1
    <2>3. Widens(t, nn, q)
      <3>1. Widens(t, q.new, q)
        BY <2>2, <1>2, <1>13, WidensSame
      <3> QED BY <3>1, <2>2
    <2>4. Onward(t, A, nn, q, A) /\ q.tree \in Trees /\ r.tree \in Trees
      BY <2>2, <2>3, <1>14, <1>28, <1>29 DEF Onward, Climbing, Whole
    <2>5. Onward(q.tree, A, q.new, r, B)
      BY <2>2, <1>28
    <2> QED BY <2>2, <2>4, <2>5, <1>2, OnwardOn
  <1>31. r = Climbed(s)
    BY <1>1, <1>5, <1>7, <1>10, <1>12, <1>27 DEF Climbed, Up
  <1>32. r.at = p
    BY <1>27 DEF At
  <1> QED BY <1>1, <1>6, <1>28, <1>30, <1>31, <1>32

-----------------------------------------------------------------------------
\* The climb is over: every box is up to date but that of the root's second half, if there is one.
Topped(u, A, lv, c) ==
  /\ Whole(u.tree, A, lv, {u.tree.root} \cup Waiting(u.new), c)
  /\ Items(u.tree, u.tree.root) # <<>>
  /\ u.new # Nil => Second(At(u, u.tree.root), A, lv)
  /\ Snug(u.tree, A, Waiting(u.new))

LEMMA RootBoundIs ==
  ASSUME NEW s, NEW A, NEW lv, NEW c, NEW P, Climbing(s, A, lv, c, P), s.at = s.tree.root
  PROVE  Topped(RootBound(s), A, lv, c) /\ Onward(s.tree, A, s.new, At(RootBound(s), s.at), A)
  <1>1. PICK t, n, nn, R : t = s.tree /\ n = s.at /\ nn = s.new /\ R = {t.root} \cup Waiting(s.new)
    OBVIOUS
  <1>2. /\ t \in Trees /\ Shape(t, A, lv, R, c) /\ Linked(t) /\ Fits(t, {}) /\ Full(t, A, R) /\ Owned(t, A)
        /\ n \in A /\ ~ IsData(n) /\ Items(t, n) # <<>> /\ Snug(t, A, P \cup Waiting(nn)) /\ Path(t, A, lv, R, n, P)
        /\ n = t.root
    BY <1>1 DEF Climbing, Whole
  <1>3. A \subseteq Names(t) /\ lv \in [A -> Nat] /\ n \in Names(t) /\ n \in R /\ lv[n] = 1 /\ \A x \in A : lv[x] >= 1
    BY <1>1, <1>2 DEF Shape, Levels
  <1>4. Items(t, n) \in Seq(Int) /\ ToSet(Items(t, n)) \subseteq Names(t)
    BY <1>2, <1>3, NodeIs DEF Linked
  <1>5. PICK b : b = ComputeBB(t, Items(t, n))
    OBVIOUS
  <1>6. b \in BoxSet
    BY <1>2, <1>4, <1>5, ComputeBBIs
  <1>7. PICK t1 : t1 = SetBox(t, n, b)
    OBVIOUS
  <1>8. SameLinks(t, t1)
    BY <1>2, <1>3, <1>6, <1>7, BoxSameLinks
  <1>9. /\ t1 \in Trees /\ t1.root = t.root /\ t1.height = t.height /\ t1.twin = t.twin /\ t1.tied = t.tied
        /\ \A x \in Names(t) : Items(t1, x) = Items(t, x) /\ Leaf(t1, x) = Leaf(t, x)
    BY <1>8 DEF SameLinks, SameTop
  <1>10. Shape(t1, A, lv, R, c) /\ Linked(t1) /\ Fits(t1, {}) /\ Full(t1, A, R) /\ Owned(t1, A)
    BY <1>2, <1>8, SameLinksKeep
  <1>11. Snug(t1, A, Waiting(nn))
    <2>1. Snug(SetBox(t, n, b), A, (P \cup Waiting(nn)) \ {n})
      <3>1. \A m \in A : n \notin ToSet(Items(t, m))
        BY <1>2, <1>3 DEF Shape, Downward
      <3> QED BY <3>1, <1>2, <1>5, BoxSnug
    <2>2. ~ t.twin => P \subseteq {n}
      <3> SUFFICES ASSUME ~ t.twin, NEW x \in P
                   PROVE  x = n
        OBVIOUS
      <3>1. x \in A /\ lv[x] <= lv[n] /\ (lv[x] = lv[n] => x = n)
        BY <1>2 DEF Path
      <3>2. lv[x] >= 1 /\ lv[x] \in Nat
        BY <3>1, <1>3
      <3> QED BY <3>1, <3>2, <1>3
    <2> QED BY <2>1, <2>2, <1>7, <1>9 DEF Snug
  <1>12. PICK u : u = RootBound(s)
    OBVIOUS
  <1>13. u.tree = t1 /\ u.new = nn
    BY <1>1, <1>2, <1>5, <1>7, <1>12 DEF RootBound, SetBound
  <1>14. R = {t1.root} \cup Waiting(nn) /\ Items(t1, t1.root) # <<>>
    BY <1>1, <1>2, <1>3, <1>9
  <1>15. Whole(t1, A, lv, {t1.root} \cup Waiting(nn), c)
    BY <1>9, <1>10, <1>14 DEF Whole
  <1>16. nn # Nil => Second(At(u, t1.root), A, lv)
    <2> SUFFICES ASSUME nn # Nil
                 PROVE  Second(At(u, t1.root), A, lv)
      OBVIOUS
    <2>1. /\ nn \in A /\ ~ IsData(nn) /\ nn # n /\ lv[nn] = lv[n] /\ Leaf(t, nn) = Leaf(t, n)
          /\ Items(t, nn) # <<>> /\ (~ t.tied => Len(Items(t, n)) >= MinChildItems)
      BY <1>1 DEF Climbing, Second
    <2>2. nn \in Names(t)
      BY <2>1, <1>3
    <2>3. At(u, t1.root).tree = t1 /\ At(u, t1.root).new = nn /\ At(u, t1.root).at = n
      BY <1>2, <1>9, <1>13 DEF At
    <2>4. /\ Leaf(t1, nn) = Leaf(t1, n) /\ Items(t1, nn) # <<>> /\ (~ t1.tied => Len(Items(t1, n)) >= MinChildItems)
          /\ n = t1.root
      BY <2>1, <2>2, <1>2, <1>3, <1>9
    <2> QED BY <2>1, <2>3, <2>4 DEF Second
  <1>17. Topped(u, A, lv, c)
    BY <1>11, <1>13, <1>14, <1>15, <1>16 DEF Topped
  <1>18. Keeps(t, t1, A) /\ Grew(A, t, t1) = A
    BY <1>2, <1>3, <1>6, <1>7, BoxKeeps
  <1>19. Onward(t, A, nn, At(u, n), A)
    <2>1. PICK q : q = At(u, n)
      OBVIOUS
    <2>2. q.tree = t1 /\ q.new = nn
      BY <2>1, <1>13 DEF At
    <2>3. Widens(t, q.new, q)
      BY <2>2, <1>2, <1>8, WidensSame
    <2> QED BY <2>1, <2>2, <2>3, <1>9, <1>18 DEF Onward
  <1> QED BY <1>1, <1>12, <1>17, <1>19

-----------------------------------------------------------------------------
(* adjustTree *)

AdjustStep(s, n, h) ==
  [k \in 0..s.tree.height |-> IF k = 0 THEN At(s, n) ELSE ClimbedUnlessRoot(h[k - 1])]

Adjusts(s, n) == CHOOSE h : h = AdjustStep(s, n, h)

\* A state of the climb from t, with at most that many levels to go.
OnTheWay(t, A, c, s, left) ==
  \E B, lw, Q : /\ Climbing(s, B, lw, c, Q) /\ Onward(t, A, Nil, s, B)
                /\ s.at # s.tree.root => lw[s.at] <= left

LEMMA OnTheWayStep ==
  ASSUME NEW t \in Trees, NEW A, NEW c, NEW s, NEW left \in Int, OnTheWay(t, A, c, s, left)
  PROVE  OnTheWay(t, A, c, ClimbedUnlessRoot(s), left - 1)
  <1>1. PICK B, lw, Q : /\ Climbing(s, B, lw, c, Q) /\ Onward(t, A, Nil, s, B)
                        /\ s.at # s.tree.root => lw[s.at] <= left
    BY DEF OnTheWay
  <1>2. CASE s.at = s.tree.root
    <2>1. ClimbedUnlessRoot(s) = s
      BY <1>2 DEF ClimbedUnlessRoot
    <2> QED BY <2>1, <1>1, <1>2 DEF OnTheWay
  <1>3. CASE s.at # s.tree.root
    <2>1. PICK r : r = Climbed(s)
      OBVIOUS
    <2>2. PICK C, lx, T : /\ Climbing(r, C, lx, c, T) /\ lw[s.at] = lx[r.at] + 1 /\ Onward(s.tree, B, s.new, r, C)
      <3>1. \E C, lx, T : /\ Climbing(Climbed(s), C, lx, c, T) /\ lw[s.at] = lx[Climbed(s).at] + 1
                          /\ Onward(s.tree, B, s.new, Climbed(s), C)
        BY <1>1, <1>3, ClimbedIs
      <3> QED BY <3>1, <2>1
    <2>3. Onward(t, A, Nil, r, C)
      <3>1. s.tree \in Trees /\ r.tree \in Trees /\ s.at # t.root
        BY <1>1, <1>3, <2>2 DEF Climbing, Whole, Onward
      <3> QED BY <3>1, <1>1, <2>2, OnwardOn
    <2>4. lx[r.at] \in Nat /\ lw[s.at] \in Nat
      <3>1. lx \in [C -> Nat] /\ r.at \in C /\ lw \in [B -> Nat] /\ s.at \in B
        BY <1>1, <2>2 DEF Climbing, Whole, Shape, Levels
      <3> QED BY <3>1
    <2>5. lx[r.at] <= left - 1
      BY <2>2, <2>4, <1>1, <1>3
    <2>6. ClimbedUnlessRoot(s) = r
      BY <2>1, <1>3 DEF ClimbedUnlessRoot
    <2> QED BY <2>2, <2>3, <2>5, <2>6 DEF OnTheWay
  <1> QED BY <1>2, <1>3

LEMMA OnTheWayType ==
  ASSUME NEW t, NEW A, NEW c, NEW s, NEW n, NEW left, OnTheWay(t, A, c, At(s, n), left)
  PROVE  At(s, n) \in [tree : Trees, new : Int, at : Int]
  <1>1. PICK r : r = At(s, n)
    OBVIOUS
  <1>2. PICK B, lw, Q : Climbing(r, B, lw, c, Q)
    BY <1>1 DEF OnTheWay
  <1>3. r.tree \in Trees /\ r.at \in Names(r.tree) /\ (r.new # Nil => r.new \in Names(r.tree))
    BY <1>2 DEF Climbing, Second, Whole, Shape, Levels
  <1>4. r.at \in Int /\ r.new \in Int
    BY <1>3, TreeIs DEF Nil
  <1> QED BY <1>1, <1>3, <1>4 DEF At

LEMMA AdjustTreeIs ==
  ASSUME NEW t \in Trees, NEW D, NEW s, NEW n, NEW A, NEW lv, NEW c, NEW P, Climbing(At(s, n), A, lv, c, P),
         Onward(t, D, Nil, At(s, n), A)
  PROVE  \E B, lw : /\ Topped(AdjustTree(s, n), B, lw, c)
                    /\ Onward(t, D, Nil, At(AdjustTree(s, n), t.root), B)
  <1> DEFINE m == s.tree.height
             S == [tree : Trees, new : Int, at : Int]
             W == [k \in 0..m |-> {r \in S : OnTheWay(t, D, c, r, m - k)}]
             G == [kr \in (1..m) \X S |-> ClimbedUnlessRoot(kr[2])]
             base == At(s, n)
  <1>1. base.tree = s.tree /\ base.new = s.new /\ base.at = n
    BY DEF At
  <1>2. m \in Nat /\ A \subseteq Names(s.tree) /\ n \in A /\ lv[n] \in Nat /\ lv[n] <= m
    <2>1. base.tree \in Trees /\ Levels(base.tree, A, lv, {base.tree.root} \cup Waiting(base.new)) /\ base.at \in A
          /\ ~ IsData(base.at)
      BY DEF Climbing, Whole, Shape
    <2> HIDE DEF base
    <2>2. m \in Nat
      BY <1>1, <2>1, TreeIs
    <2> QED BY <1>1, <2>1, <2>2 DEF Levels
  <1>3. base \in W[0]
    <2>2. OnTheWay(t, D, c, base, m)
      <3> HIDE DEF base
      <3> QED BY <1>1, <1>2 DEF OnTheWay, base
    <2>3. base \in S
      BY <2>2, OnTheWayType
    <2>4. m - 0 = m /\ 0 \in 0..m
      BY <1>2
    <2> HIDE DEF base, S, m
    <2> QED BY <2>2, <2>3, <2>4
  <1>4. ASSUME NEW k \in 1..m, NEW r \in W[k - 1]
        PROVE  r \in S /\ ClimbedUnlessRoot(r) \in W[k]
    <2> HIDE DEF m
    <2>1. k - 1 \in 0..m /\ k \in 0..m /\ m - k \in Int /\ (m - (k - 1)) - 1 = m - k /\ m - (k - 1) \in Int
      BY <1>2
    <2>2. r \in S /\ OnTheWay(t, D, c, r, m - (k - 1))
      BY <2>1
    <2>3. OnTheWay(t, D, c, ClimbedUnlessRoot(r), m - k)
      <3>1. OnTheWay(t, D, c, ClimbedUnlessRoot(r), (m - (k - 1)) - 1)
        BY <1>2, <2>1, <2>2, OnTheWayStep
      <3> QED BY <3>1, <2>1
    <2>4. ClimbedUnlessRoot(r) \in S
      <3>1. CASE r.at = r.tree.root
        BY <3>1, <2>2 DEF ClimbedUnlessRoot
      <3>2. CASE r.at # r.tree.root
        <4>1. PICK x, p : ClimbedUnlessRoot(r) = At(x, p)
          BY <3>2 DEF ClimbedUnlessRoot, Climbed
        <4> QED BY <4>1, <2>3, OnTheWayType
      <3> QED BY <3>1, <3>2
    <2> QED BY <2>1, <2>2, <2>3, <2>4
  <1>5. \A k \in 1..m : \A r \in W[k - 1] : G[<<k, r>>] = ClimbedUnlessRoot(r)
    <2> SUFFICES ASSUME NEW k \in 1..m, NEW r \in W[k - 1]
                 PROVE  G[<<k, r>>] = ClimbedUnlessRoot(r)
      OBVIOUS
    <2>1. r \in S
      BY <1>4
    <2> HIDE DEF S, W, m
    <2> QED BY <2>1
  <1> HIDE DEF W, G, S, base, m
  <1>6. Turns0(m, W, base, G)
    BY <1>3, <1>4, <1>5 DEF Turns0
  <1>7. PICK f : Turned0(f, m, W, base, G)
    BY <1>2, <1>6, LoopExists
  <1>8. f = AdjustStep(s, n, f)
    <2>1. \A k \in 1..m : k \in 0..m /\ k - 1 \in 0..m /\ k # 0
      BY <1>2
    <2>2. \A k \in 1..m : f[k] = ClimbedUnlessRoot(f[k - 1])
      BY <2>1, <1>5, <1>7 DEF Turned0
    <2>3. \A k \in 0..m : f[k] = IF k = 0 THEN base ELSE ClimbedUnlessRoot(f[k - 1])
      <3>1. \A k \in 0..m : k = 0 \/ k \in 1..m
        BY <1>2
      <3> QED BY <2>1, <2>2, <3>1, <1>7 DEF Turned0
    <2>4. f = [k \in 0..m |-> f[k]]
      BY <1>7 DEF Turned0
    <2>5. f = [k \in 0..m |-> IF k = 0 THEN base ELSE ClimbedUnlessRoot(f[k - 1])]
      BY <2>3, <2>4
    <2> QED BY <2>5 DEF AdjustStep, base, m
  <1>9. PICK h : h = Adjusts(s, n)
    OBVIOUS
  <1>10. h = AdjustStep(s, n, h)
    BY <1>8, <1>9 DEF Adjusts
  <1>11. h[0] = base /\ \A k \in 1..m : h[k] = ClimbedUnlessRoot(h[k - 1])
    <2>1. 0 \in 0..m /\ \A k \in 1..m : k \in 0..m /\ k # 0
      BY <1>2
    <2>2. h = [k \in 0..m |-> IF k = 0 THEN base ELSE ClimbedUnlessRoot(h[k - 1])]
      BY <1>10 DEF AdjustStep, base, m
    <2>3. \A k \in 0..m : h[k] = IF k = 0 THEN base ELSE ClimbedUnlessRoot(h[k - 1])
      BY <2>2
    <2> QED BY <2>1, <2>3
  <1>12. \A k \in 1..m : h[k - 1] \in W[k - 1] => h[k] \in W[k]
    BY <1>4, <1>11
  <1>13. h[m] \in W[m]
    <2>1. h[0] \in W[0]
      BY <1>3, <1>11
    <2>2. \A k \in 0..m : h[k] \in W[k]
      BY <1>2, <2>1, <1>12, LoopStays
    <2> QED BY <2>2, <1>2
  <1>14. AdjustTree(s, n) = RootBound(h[m])
    BY <1>9 DEF AdjustTree, Adjusts, AdjustStep, m
  <1>15. PICK r : r = h[m]
    OBVIOUS
  <1>16. OnTheWay(t, D, c, r, m - m) /\ m - m = 0
    BY <1>2, <1>13, <1>15 DEF W
  <1>17. PICK B, lw, Q : Climbing(r, B, lw, c, Q) /\ Onward(t, D, Nil, r, B) /\ (r.at # r.tree.root => lw[r.at] <= 0)
    BY <1>16 DEF OnTheWay
  <1>18. r.at = r.tree.root
    <2>1. lw \in [B -> Nat] /\ r.at \in B /\ \A x \in B : lw[x] >= 1
      BY <1>17 DEF Climbing, Whole, Shape, Levels
    <2>2. lw[r.at] >= 1 /\ lw[r.at] \in Nat
      BY <2>1
    <2> QED BY <2>2, <1>17
  <1>19. Topped(RootBound(r), B, lw, c) /\ Onward(r.tree, B, r.new, At(RootBound(r), r.at), B)
    BY <1>17, <1>18, RootBoundIs
  <1>20. PICK q : q = At(RootBound(r), r.at)
    OBVIOUS
  <1>21. q.tree = RootBound(r).tree /\ q.new = r.new /\ q.at = t.root /\ r.at = t.root
    BY <1>17, <1>18, <1>20 DEF At, RootBound, Onward
  <1>22. q.tree \in Trees /\ r.tree \in Trees
    BY <1>17, <1>19, <1>21 DEF Topped, Climbing, Whole
  <1>23. Onward(t, D, Nil, q, B)
    BY <1>2, <1>17, <1>19, <1>20, <1>21, <1>22, OnwardOn
  <1> QED BY <1>14, <1>15, <1>19, <1>20, <1>21, <1>23

-----------------------------------------------------------------------------
(* A new root, and an entry added for good. *)

Rooted(t, r, h) == [t EXCEPT !.root = r, !.height = h]

IsRooted(t, u, r, h) ==
  /\ u \in Trees /\ Names(u) = Names(t) /\ u.node = t.node /\ u.root = r /\ u.height = h
  /\ u.size = t.size /\ u.twin = t.twin /\ u.tied = t.tied /\ u.lopped = t.lopped /\ u.skewed = t.skewed

LEMMA RootedIs ==
  ASSUME NEW t \in Trees, NEW r \in Names(t), NEW h \in Nat
  PROVE  IsRooted(t, Rooted(t, r, h), r, h)
  <1> DEFINE All == [root : Int, size : Int, height : Nat, node : Nodes,
                     twin : BOOLEAN, tied : BOOLEAN, lopped : BOOLEAN, skewed : BOOLEAN]
  <1>1. t \in All /\ r \in Int
    BY TreeIs DEF Trees
  <1>2. PICK u : u = Rooted(t, r, h)
    OBVIOUS
  <1>3. /\ u \in All /\ u.node = t.node /\ u.root = r /\ u.height = h
        /\ u.size = t.size /\ u.twin = t.twin /\ u.tied = t.tied /\ u.lopped = t.lopped /\ u.skewed = t.skewed
    BY <1>1, <1>2 DEF Rooted
  <1>4. IsFiniteSet(DOMAIN u.node) /\ u.root \in DOMAIN u.node /\ -2 \in DOMAIN u.node /\ -1 \notin DOMAIN u.node
    BY <1>3, TreeIs DEF Names
  <1>5. u \in Trees
    BY <1>3, <1>4 DEF Trees
  <1> QED BY <1>2, <1>3, <1>5 DEF IsRooted, Names

\* What growing leads to: tree u with a new root r, whose entries are one and two.
IsGrown(t, u, r, one, two) ==
  /\ u \in Trees /\ r \notin Names(t) /\ ~ IsData(r) /\ Names(u) = Names(t) \cup {r}
  /\ u.root = r /\ u.height = t.height + 1
  /\ u.size = t.size /\ u.twin = t.twin /\ u.tied = t.tied /\ u.lopped = t.lopped /\ u.skewed = t.skewed
  /\ Items(u, r) = <<one, two>> /\ ~ Leaf(u, r) /\ Up(u, r) = Nil
  /\ Bound(u, r) = ComputeBB(u, Items(u, r))
  /\ \A x \in Names(t) : /\ Items(u, x) = Items(t, x) /\ Leaf(u, x) = Leaf(t, x)
                         /\ Bound(u, x) = Bound(t, x)
                         /\ Up(u, x) = IF x \in {one, two} THEN r ELSE Up(t, x)

LEMMA PairSeq ==
  ASSUME NEW X, NEW x \in X, NEW y \in X
  PROVE  /\ <<x, y>> \in Seq(X) /\ Len(<<x, y>>) = 2 /\ ToSet(<<x, y>>) = {x, y} /\ <<x, y>> # <<>>
         /\ x # y => IsInjective(<<x, y>>)
  <1>1. <<x, y>> \in Seq(X) /\ Len(<<x, y>>) = 2 /\ <<x, y>>[1] = x /\ <<x, y>>[2] = y
    OBVIOUS
  <1>2. DOMAIN <<x, y>> = {1, 2}
    OBVIOUS
  <1> QED BY <1>1, <1>2 DEF ToSet, IsInjective

LEMMA GrowRootIs ==
  ASSUME NEW t \in Trees, NEW one \in Names(t), NEW two \in Names(t)
  PROVE  \E r : IsGrown(t, GrowRoot(t, one, two), r, one, two)
  <1>1. PICK r : r = FreshNode(t)
    OBVIOUS
  <1>2. r \in Int /\ r < -2 /\ r \notin Names(t) /\ r # -1 /\ ~ IsData(r)
    <2>1. r \in Int /\ r < -2 /\ r \notin Names(t)
      BY <1>1, FreshIs
    <2> QED BY <2>1 DEF IsData
  <1>3. one \in Int /\ two \in Int /\ t.height + 1 \in Nat
    BY TreeIs
  <1>4. PICK s : s = <<one, two>>
    OBVIOUS
  <1>5. s \in Seq(Int) /\ ToSet(s) = {one, two} /\ s # <<>>
    BY <1>3, <1>4, PairSeq
  <1>6. PICK f : f = NodeOf(s, NoBox, FALSE, Nil)
    OBVIOUS
  <1>7. f \in Fields /\ f.items = s /\ f.bound = NoBox /\ f.leaf = FALSE /\ f.up = Nil
    <2>0. PICK p \in Int : p = Nil
      BY DEF Nil
    <2>1. PICK l \in BOOLEAN : l = FALSE
      BY Zenon
    <2>2. f = NodeOf(s, NoBox, l, p)
      BY <2>0, <2>1, <1>6
    <2>3. f \in Fields /\ f.items = s /\ f.bound = NoBox /\ f.leaf = l /\ f.up = p
      BY <2>2, <1>5, NodeOfIs, NoBoxIs
    <2> QED BY <2>0, <2>1, <2>3
  <1>8. PICK t2 : t2 = Put(t, r, f)
    OBVIOUS
  <1>9. /\ t2 \in Trees /\ Names(t2) = {r} \cup Names(t) /\ SameTop(t, t2)
        /\ \A x \in Names(t2) : t2.node[x] = IF x = r THEN f ELSE t.node[x]
    BY <1>2, <1>7, <1>8, PutIs
  <1>10. PICK t3 : t3 = Rooted(t2, r, t.height + 1)
    OBVIOUS
  <1>11. IsRooted(t2, t3, r, t.height + 1)
    BY <1>3, <1>9, <1>10, RootedIs
  <1>12. t3 \in Trees /\ Names(t3) = Names(t2) /\ t3.node = t2.node /\ t3.root = r /\ t3.height = t.height + 1
    BY <1>11 DEF IsRooted
  <1>13. PICK t4 : t4 = SetParent(t3, {one, two}, r)
    OBVIOUS
  <1>14. /\ t4 \in Trees /\ Names(t4) = Names(t3) /\ SameTop(t3, t4)
         /\ \A n \in Names(t3) : /\ Items(t4, n) = Items(t3, n) /\ Bound(t4, n) = Bound(t3, n)
                                 /\ t4.node[n].leaf = t3.node[n].leaf
                                 /\ t4.node[n].up = IF n \in {one, two} THEN r ELSE t3.node[n].up
    BY <1>2, <1>12, <1>13, SetParentIs
  <1>15. r \in Names(t4) /\ t4.node[r].leaf = FALSE /\ Items(t4, r) = s /\ t4.node[r].up = Nil
    <2>1. r \in Names(t3) /\ t3.node[r] = f
      BY <1>9, <1>12
    <2>2. Items(t3, r) = s /\ t3.node[r].leaf = FALSE /\ t3.node[r].up = Nil
      BY <2>1, <1>7 DEF Items
    <2>3. r \notin {one, two}
      BY <1>2
    <2> QED BY <2>1, <2>2, <2>3, <1>14
  <1>16. PICK b : b = ComputeBB(t4, Items(t4, r))
    OBVIOUS
  <1>17. b \in BoxSet
    <2>1. s \in Seq(Int) /\ ToSet(s) \subseteq Names(t4) /\ s # <<>> /\ t4 \in Trees
      BY <1>5, <1>9, <1>12, <1>14
    <2> QED BY <2>1, <1>15, <1>16, ComputeBBIs
  <1>18. PICK u : u = SetBox(t4, r, b)
    OBVIOUS
  <1>19. /\ u \in Trees /\ Names(u) = Names(t4) /\ SameTop(t4, u)
         /\ \A x \in Names(t4) : /\ Items(u, x) = Items(t4, x)
                                 /\ Bound(u, x) = IF x = r THEN b ELSE Bound(t4, x)
                                 /\ u.node[x].leaf = t4.node[x].leaf /\ u.node[x].up = t4.node[x].up
    BY <1>14, <1>15, <1>17, <1>18, SetBoxIs
  <1>20. Names(u) = Names(t) \cup {r}
    BY <1>9, <1>12, <1>14, <1>19
  <1>21. ASSUME NEW x \in Names(t)
         PROVE  /\ Items(u, x) = Items(t, x) /\ Leaf(u, x) = Leaf(t, x) /\ Bound(u, x) = Bound(t, x)
                /\ Up(u, x) = IF x \in {one, two} THEN r ELSE Up(t, x)
    <2>1. x \in Names(t2) /\ x # r /\ x \in Names(t3) /\ x \in Names(t4)
      BY <1>2, <1>9, <1>12, <1>14
    <2>2. t3.node[x] = t.node[x]
      BY <2>1, <1>9, <1>12
    <2>3. /\ Items(t3, x) = Items(t, x) /\ Bound(t3, x) = Bound(t, x)
          /\ t3.node[x].leaf = t.node[x].leaf /\ t3.node[x].up = t.node[x].up
      BY <2>2 DEF Items, Bound
    <2> QED BY <2>1, <2>3, <1>14, <1>19 DEF Leaf, Up
  <1>22. Items(u, r) = s /\ ~ Leaf(u, r) /\ Up(u, r) = Nil /\ Bound(u, r) = b
    BY <1>15, <1>19 DEF Leaf, Up
  <1>23. b = ComputeBB(u, Items(u, r))
    <2>1. \A x \in ToSet(s) : Bound(t4, x) = Bound(u, x)
      BY <1>2, <1>5, <1>9, <1>12, <1>14, <1>19
    <2>2. ComputeBB(t4, s) = ComputeBB(u, s)
      BY <2>1, <1>14, <1>19, ComputeBBSame
    <2> QED BY <2>2, <1>15, <1>16, <1>22
  <1>24. /\ u.root = r /\ u.height = t.height + 1
         /\ u.size = t.size /\ u.twin = t.twin /\ u.tied = t.tied /\ u.lopped = t.lopped /\ u.skewed = t.skewed
    BY <1>9, <1>11, <1>14, <1>19 DEF IsRooted, SameTop
  <1>25. IsGrown(t, u, r, one, two)
    BY <1>2, <1>4, <1>19, <1>20, <1>21, <1>22, <1>23, <1>24 DEF IsGrown
  <1>26. GrowRoot(t, one, two) = u
    BY <1>1, <1>4, <1>6, <1>8, <1>10, <1>13, <1>16, <1>18, <1>9 DEF GrowRoot, Rooted, SetBound, SameTop
  <1> QED BY <1>25, <1>26

-----------------------------------------------------------------------------
\* A tree at rest: no node waits for a parent, and every box is up to date.
Settled(t, A, lv, c) == Whole(t, A, lv, {t.root}, c) /\ Snug(t, A, {})

\* The levels under a new root r.
Under(lv, A, r) == [x \in A \cup {r} |-> IF x = r THEN 1 ELSE lv[x] + 1]

\* The root and its second half, which are to be the entries of a new root.
Growable(t, A, lv, c, one, two) ==
  /\ Whole(t, A, lv, {t.root} \cup {two}, c)
  /\ one = t.root /\ two # one /\ ~ IsData(two) /\ lv[two] = lv[one]

LEMMA GrownShape ==
  ASSUME NEW t, NEW A, NEW lv, NEW c \in Int, NEW one, NEW two, NEW r, NEW u,
         Growable(t, A, lv, c, one, two),
         IsGrown(t, u, r, one, two)
  PROVE  Shape(u, A \cup {r}, Under(lv, A, r), {r}, c + 1)
  <1> USE DEF Growable
  <1> DEFINE B == A \cup {r}
             lw == Under(lv, A, r)
  <1>1. /\ t \in Trees /\ A \subseteq Names(t) /\ lv \in [A -> Nat] /\ one \in A /\ two \in A
        /\ lv[one] = 1 /\ lv[two] = 1 /\ ~ IsData(one)
        /\ \A n \in A : lv[n] >= 1 /\ (~ IsData(n) => lv[n] <= t.height)
    BY DEF Whole, Shape, Levels
  <1>2. /\ r \notin Names(t) /\ ~ IsData(r) /\ Names(u) = Names(t) \cup {r} /\ u.root = r /\ u.height = t.height + 1
        /\ Items(u, r) = <<one, two>> /\ ~ Leaf(u, r) /\ t.height \in Nat /\ u \in Trees
        /\ \A x \in Names(t) : /\ Items(u, x) = Items(t, x) /\ Leaf(u, x) = Leaf(t, x)
                               /\ Up(u, x) = IF x \in {one, two} THEN r ELSE Up(t, x)
    BY <1>1, TreeIs DEF IsGrown
  <1>3. ToSet(<<one, two>>) = {one, two} /\ <<one, two>> # <<>> /\ IsInjective(<<one, two>>)
    BY <1>1, PairSeq
  <1>4. r \notin A /\ lw \in [B -> Nat] /\ lw[r] = 1 /\ \A x \in A : lw[x] = lv[x] + 1 /\ lv[x] \in Nat
    <2>1. r \notin A /\ \A x \in A : lv[x] \in Nat
      BY <1>1, <1>2
    <2>2. \A x \in B : (IF x = r THEN 1 ELSE lv[x] + 1) \in Nat
      BY <2>1
    <2> QED BY <2>1, <2>2 DEF Under
  <1> HIDE DEF lw
  <1>5. Levels(u, B, lw, {r})
    <2>1. B \subseteq Names(u) /\ {r} \subseteq B /\ u.root \in {r} /\ lw[u.root] = 1 /\ ~ IsData(u.root)
      BY <1>1, <1>2, <1>4
    <2>2. ASSUME NEW n \in B
          PROVE  lw[n] >= 1 /\ (~ IsData(n) => lw[n] <= u.height)
      <3>1. CASE n = r
        BY <3>1, <1>2, <1>4
      <3>2. CASE n # r
        <4>1. n \in A
          BY <3>2
        <4> QED BY <4>1, <1>1, <1>2, <1>4
      <3> QED BY <3>1, <3>2
    <2> QED BY <2>1, <2>2, <1>4 DEF Levels
  <1>6. Kinds(u, B, lw, c + 1)
    <2> SUFFICES ASSUME NEW n \in B
                 PROVE  /\ IsInjective(Items(u, n))
                        /\ IsData(n) => Items(u, n) = <<>> /\ ~ Leaf(u, n)
                        /\ ~ IsData(n) => Leaf(u, n) \/ Items(u, n) # <<>>
                        /\ Leaf(u, n) => lw[n] >= c + 1
      BY DEF Kinds
    <2>1. CASE n = r
      BY <2>1, <1>2, <1>3
    <2>2. CASE n # r
      <3>1. n \in A /\ n \in Names(t)
        BY <2>2, <1>1
      <3>2. /\ IsInjective(Items(t, n))
            /\ IsData(n) => Items(t, n) = <<>> /\ ~ Leaf(t, n)
            /\ ~ IsData(n) => Leaf(t, n) \/ Items(t, n) # <<>>
            /\ Leaf(t, n) => lv[n] >= c
        BY <3>1 DEF Whole, Shape, Kinds
      <3>3. Leaf(t, n) => lw[n] >= c + 1
        BY <3>1, <3>2, <1>4
      <3> QED BY <3>1, <3>2, <3>3, <1>2
    <2> QED BY <2>1, <2>2
  <1>7. Downward(u, B, lw, {r})
    <2> SUFFICES ASSUME NEW n \in B, NEW x \in ToSet(Items(u, n))
                 PROVE  x \in B /\ x \notin {r} /\ lw[x] = lw[n] + 1 /\ (IsData(x) <=> Leaf(u, n))
      BY DEF Downward
    <2>1. CASE n = r
      <3>1. x \in {one, two}
        BY <2>1, <1>2, <1>3
      <3> QED BY <2>1, <3>1, <1>1, <1>2, <1>4
    <2>2. CASE n # r
      <3>1. n \in A /\ n \in Names(t) /\ x \in ToSet(Items(t, n))
        BY <2>2, <1>1, <1>2
      <3>2. x \in A /\ lv[x] = lv[n] + 1 /\ (IsData(x) <=> Leaf(t, n))
        BY <3>1 DEF Whole, Shape, Downward
      <3> QED BY <3>1, <3>2, <1>2, <1>4
    <2> QED BY <2>1, <2>2
  <1>8. Upward(u, B, lw, {r})
    <2> SUFFICES ASSUME NEW x \in B \ {r}
                 PROVE  /\ Up(u, x) \in B /\ ~ IsData(Up(u, x)) /\ lw[x] = lw[Up(u, x)] + 1
                        /\ IsData(x) <=> Leaf(u, Up(u, x))
      BY DEF Upward
    <2>1. CASE x \in {one, two}
      BY <2>1, <1>1, <1>2, <1>4
    <2>2. CASE x \notin {one, two}
      <3>1. x \in A \ ({t.root} \cup {two}) /\ Up(u, x) = Up(t, x)
        BY <2>2, <1>1, <1>2
      <3>2. Up(t, x) \in A /\ ~ IsData(Up(t, x)) /\ lv[x] = lv[Up(t, x)] + 1 /\ (IsData(x) <=> Leaf(t, Up(t, x)))
        BY <3>1 DEF Whole, Shape, Upward
      <3>3. lw[x] = lw[Up(t, x)] + 1
        BY <3>1, <3>2, <1>4
      <3> QED BY <3>1, <3>2, <3>3, <1>1, <1>2
    <2> QED BY <2>1, <2>2
  <1> QED BY <1>5, <1>6, <1>7, <1>8 DEF Shape, lw

LEMMA GrownSettled ==
  ASSUME NEW t, NEW A, NEW lv, NEW c \in Int, NEW one, NEW two, NEW r, NEW u,
         Growable(t, A, lv, c, one, two),
         IsGrown(t, u, r, one, two), Snug(t, A, {}), ~ t.tied => Len(Items(t, one)) >= MinChildItems
  PROVE  Settled(u, A \cup {r}, Under(lv, A, r), c + 1) /\ Keeps(t, u, A) /\ Grew(A, t, u) = A \cup {r}
  <1> USE DEF Growable
  <1>1. /\ t \in Trees /\ A \subseteq Names(t) /\ one \in A /\ two \in A /\ ~ IsData(one)
    BY DEF Whole, Shape, Levels
  <1>2. /\ r \notin Names(t) /\ ~ IsData(r) /\ Names(u) = Names(t) \cup {r} /\ u.root = r /\ u \in Trees
        /\ Items(u, r) = <<one, two>> /\ Up(u, r) = Nil /\ Bound(u, r) = ComputeBB(u, Items(u, r))
        /\ u.size = t.size /\ u.twin = t.twin /\ u.tied = t.tied /\ u.lopped = t.lopped /\ u.skewed = t.skewed
        /\ \A x \in Names(t) : /\ Items(u, x) = Items(t, x) /\ Leaf(u, x) = Leaf(t, x)
                               /\ Bound(u, x) = Bound(t, x)
                               /\ Up(u, x) = IF x \in {one, two} THEN r ELSE Up(t, x)
    BY DEF IsGrown
  <1>3. ToSet(<<one, two>>) = {one, two} /\ Len(<<one, two>>) = 2
    BY <1>1, PairSeq
  <1>4. \A n \in A : \A x \in ToSet(Items(t, n)) : x \in A /\ x \notin {one, two}
    BY DEF Whole, Shape, Downward
  <1>5. Linked(u)
    <2> SUFFICES ASSUME NEW n \in Names(u)
                 PROVE  ToSet(Items(u, n)) \subseteq Names(u) /\ Up(u, n) \in Names(u) \cup {Nil}
      BY DEF Linked
    <2>1. CASE n = r
      BY <2>1, <1>1, <1>2, <1>3
    <2>2. CASE n # r
      <3>1. n \in Names(t) /\ ToSet(Items(t, n)) \subseteq Names(t) /\ Up(t, n) \in Names(t) \cup {Nil}
        BY <2>2, <1>2 DEF Whole, Linked
      <3> QED BY <3>1, <1>2
    <2> QED BY <2>1, <2>2
  <1>6. Fits(u, {})
    <2> SUFFICES ASSUME NEW n \in Names(u)
                 PROVE  Len(Items(u, n)) <= MaxChildItems /\ Len(Items(u, n)) <= MaxChildItems + 1
      BY DEF Fits
    <2>1. Len(Items(u, n)) <= MaxChildItems
      <3>1. CASE n = r
        BY <3>1, <1>2, <1>3, RtreeAssumption
      <3>2. CASE n # r
        BY <3>2, <1>2 DEF Whole, Fits
      <3> QED BY <3>1, <3>2
    <2>2. Len(Items(u, n)) \in Nat /\ MaxChildItems \in Nat
      BY <1>2, RtreeAssumption, NodeIs, SeqIs
    <2> QED BY <2>1, <2>2
  <1>7. Full(u, A \cup {r}, {r})
    <2> SUFFICES ASSUME ~ t.tied
                 PROVE  /\ \A x \in (A \cup {r}) \ {r} : x \in ToSet(Items(u, Up(u, x)))
                        /\ \A n \in A \cup {r} : ~ IsData(n) /\ n # u.root => Len(Items(u, n)) >= MinChildItems
      BY <1>2 DEF Full
    <2>1. ASSUME NEW x \in (A \cup {r}) \ {r}
          PROVE  x \in ToSet(Items(u, Up(u, x)))
      <3>1. CASE x \in {one, two}
        BY <3>1, <1>1, <1>2, <1>3
      <3>2. CASE x \notin {one, two}
        <4>1. x \in A \ ({t.root} \cup {two}) /\ Up(u, x) = Up(t, x)
          BY <3>2, <1>1, <1>2
        <4>2. Up(t, x) \in A /\ x \in ToSet(Items(t, Up(t, x)))
          BY <4>1 DEF Whole, Full, Shape, Upward
        <4> QED BY <4>1, <4>2, <1>1, <1>2
      <3> QED BY <3>1, <3>2
    <2>2. ASSUME NEW n \in A \cup {r}, ~ IsData(n), n # u.root
          PROVE  Len(Items(u, n)) >= MinChildItems
      <3>1. n \in A /\ Items(u, n) = Items(t, n)
        BY <2>2, <1>1, <1>2
      <3>2. CASE n = t.root
        BY <3>1, <3>2
      <3>3. CASE n # t.root
        BY <3>1, <3>3, <2>2 DEF Whole, Full
      <3> QED BY <3>2, <3>3
    <2> QED BY <2>1, <2>2
  <1>8. Owned(u, A \cup {r})
    <2> SUFFICES ASSUME ~ t.twin, NEW n \in A \cup {r}, NEW x \in ToSet(Items(u, n))
                 PROVE  Up(u, x) = n
      BY <1>2 DEF Owned
    <2>1. CASE n = r
      BY <2>1, <1>1, <1>2, <1>3
    <2>2. CASE n # r
      <3>1. n \in A /\ x \in ToSet(Items(t, n)) /\ Up(t, x) = n
        BY <2>2, <1>1, <1>2 DEF Whole, Owned
      <3> QED BY <3>1, <1>1, <1>2, <1>4
    <2> QED BY <2>1, <2>2
  <1>9. Snug(u, A \cup {r}, {})
    <2> SUFFICES ASSUME ~ t.twin, NEW n \in A \cup {r}, Items(u, n) # <<>>
                 PROVE  Bound(u, n) = ComputeBB(u, Items(u, n))
      BY <1>2 DEF Snug
    <2>1. CASE n = r
      BY <2>1, <1>2
    <2>2. CASE n # r
      <3>1. n \in A /\ Items(u, n) = Items(t, n) /\ Bound(u, n) = Bound(t, n)
        BY <2>2, <1>1, <1>2
      <3>2. Bound(t, n) = ComputeBB(t, Items(t, n))
        BY <3>1, <2>2 DEF Snug
      <3>3. \A x \in ToSet(Items(t, n)) : Bound(t, x) = Bound(u, x)
        BY <3>1, <1>1, <1>2, <1>4
      <3>4. ComputeBB(t, Items(t, n)) = ComputeBB(u, Items(t, n))
        BY <3>3, <1>1, <1>2, ComputeBBSame
      <3> QED BY <3>1, <3>2, <3>4
    <2> QED BY <2>1, <2>2
  <1>10. Shape(u, A \cup {r}, Under(lv, A, r), {r}, c + 1)
    BY GrownShape
  <1>11. Settled(u, A \cup {r}, Under(lv, A, r), c + 1)
    BY <1>2, <1>5, <1>6, <1>7, <1>8, <1>9, <1>10 DEF Settled, Whole
  <1>12. Keeps(t, u, A)
    BY <1>1, <1>2 DEF Keeps
  <1>13. Grew(A, t, u) = A \cup {r}
    BY <1>1, <1>2 DEF Grew
  <1> QED BY <1>11, <1>12, <1>13

\* The root u has after one more entry, where w waited, or g new levels.
Tops(t, w, u, g) ==
  /\ g \in {0, 1} /\ u.height = t.height + g
  /\ g = 0 => /\ u.root = t.root /\ Len(Items(u, u.root)) >= Len(Items(t, t.root))
             /\ Strays(u) \subseteq Strays(t) \ Waiting(w)
  /\ g = 1 => ~ Leaf(u, u.root) /\ Len(Items(u, u.root)) = 2

\* What an insertion of w into tree t leads to.
IsAdded(t, A, c, w, u) ==
  \E B, lw, g : Tops(t, w, u, g) /\ Settled(u, B, lw, c + g) /\ Keeps(t, u, A) /\ B = Grew(A, t, u)

LEMMA GrownIs ==
  ASSUME NEW s, NEW A, NEW lv, NEW c \in Int, Topped(s, A, lv, c)
  PROVE  \E B, lw, g : /\ Tops(s.tree, Nil, Grown(s), g) /\ (g = 0 => s.new = Nil) /\ Settled(Grown(s), B, lw, c + g)
                       /\ Keeps(s.tree, Grown(s), A) /\ B = Grew(A, s.tree, Grown(s))
  <1>1. PICK t, nn : t = s.tree /\ nn = s.new
    OBVIOUS
  <1>2. Whole(t, A, lv, {t.root} \cup Waiting(nn), c) /\ Snug(t, A, Waiting(nn)) /\ t \in Trees /\ t.height \in Nat
    BY <1>1, TreeIs DEF Topped, Whole
  <1>3. CASE nn = Nil
    <2>1. Waiting(nn) = {} /\ Grown(s) = t
      BY <1>1, <1>3 DEF Waiting, Grown
    <2>2. Settled(t, A, lv, c)
      BY <2>1, <1>2 DEF Settled
    <2>3. c + 0 = c /\ t.height = t.height + 0
      BY <1>2
    <2>4. Settled(t, A, lv, c + 0)
      BY <2>2, <2>3
    <2>5. Tops(t, Nil, t, 0)
      <3>1. Len(Items(t, t.root)) \in Nat
        BY <1>2, TreeIs, NodeIs, SeqIs
      <3> QED BY <2>3, <3>1 DEF Tops, Waiting
    <2>6. Keeps(t, t, A) /\ A = Grew(A, t, t)
      BY KeepsSelf
    <2> QED BY <2>1, <2>4, <2>5, <2>6, <1>1, <1>3
  <1>4. CASE nn # Nil
    <2>1. Waiting(nn) = {nn}
      BY <1>4 DEF Waiting
    <2>2. /\ nn \in A /\ ~ IsData(nn) /\ nn # t.root /\ lv[nn] = lv[t.root] /\ Items(t, nn) # <<>>
          /\ ~ t.tied => Len(Items(t, t.root)) >= MinChildItems
      BY <1>1, <1>4 DEF Topped, Second, At
    <2>3. PICK R : R = {t.root} \cup {nn}
      OBVIOUS
    <2>4. /\ Shape(t, A, lv, R, c) /\ Linked(t) /\ Fits(t, {}) /\ Full(t, A, R) /\ Owned(t, A) /\ Snug(t, A, {nn})
          /\ A \subseteq Names(t) /\ t.root \in Names(t)
      BY <2>1, <2>3, <1>2, TreeIs DEF Whole, Shape, Levels
    <2>5. Items(t, nn) \in Seq(Int) /\ ToSet(Items(t, nn)) \subseteq Names(t) /\ nn \in Names(t)
      BY <2>2, <2>4, <1>2, NodeIs DEF Linked
    <2>6. PICK b : b = ComputeBB(t, Items(t, nn))
      OBVIOUS
    <2>7. b \in BoxSet
      BY <2>2, <2>5, <2>6, <1>2, ComputeBBIs
    <2>8. PICK t1 : t1 = SetBox(t, nn, b)
      OBVIOUS
    <2>9. SameLinks(t, t1)
      BY <2>5, <2>7, <2>8, <1>2, BoxSameLinks
    <2>10. /\ t1 \in Trees /\ t1.root = t.root /\ t1.height = t.height /\ t1.twin = t.twin /\ t1.tied = t.tied
           /\ Names(t1) = Names(t) /\ \A x \in Names(t) : Items(t1, x) = Items(t, x)
      BY <2>9 DEF SameLinks, SameTop
    <2>11. Shape(t1, A, lv, R, c) /\ Linked(t1) /\ Fits(t1, {}) /\ Full(t1, A, R) /\ Owned(t1, A)
      BY <2>4, <2>9, <1>2, SameLinksKeep
    <2>12. Whole(t1, A, lv, {t1.root} \cup {nn}, c)
      BY <2>3, <2>10, <2>11 DEF Whole
    <2>13. Snug(t1, A, {})
      <3>1. \A m \in A : nn \notin ToSet(Items(t, m))
        BY <2>3, <2>4 DEF Shape, Downward
      <3>2. Snug(SetBox(t, nn, b), A, {nn} \ {nn})
        BY <3>1, <2>2, <2>4, <2>6, <1>2, BoxSnug
      <3>3. {nn} \ {nn} = {}
        OBVIOUS
      <3> QED BY <3>2, <3>3, <2>8
    <2>14. PICK u : u = GrowRoot(t1, t1.root, nn)
      OBVIOUS
    <2>15. PICK r : IsGrown(t1, u, r, t1.root, nn)
      <3>1. t1.root \in Names(t1) /\ nn \in Names(t1)
        BY <2>4, <2>5, <2>10
      <3> QED BY <3>1, <2>10, <2>14, GrowRootIs
    <2>16. Settled(u, A \cup {r}, Under(lv, A, r), c + 1) /\ Keeps(t1, u, A) /\ Grew(A, t1, u) = A \cup {r}
      <3>1. PICK one : one = t1.root
        OBVIOUS
      <3>2. nn # one /\ lv[nn] = lv[one] /\ ~ IsData(nn)
        BY <3>1, <2>2, <2>4, <2>10
      <3>4. ~ t1.tied => Len(Items(t1, one)) >= MinChildItems
        BY <3>1, <2>2, <2>4, <2>10
      <3>5. Growable(t1, A, lv, c, one, nn)
        BY <3>1, <3>2, <2>12 DEF Growable
      <3>3. IsGrown(t1, u, r, one, nn)
        BY <3>1, <2>15
      <3>6. Settled(u, A \cup {r}, Under(lv, A, r), c + 1)
        BY <3>3, <3>4, <3>5, <2>13, GrownSettled
      <3>7. Keeps(t1, u, A)
        BY <3>3, <3>4, <3>5, <2>13, GrownSettled
      <3>8. Grew(A, t1, u) = A \cup {r}
        BY <3>3 DEF IsGrown, Grew
      <3> QED BY <3>6, <3>7, <3>8
    <2>17. Keeps(t, t1, A) /\ Grew(A, t, t1) = A
      BY <2>2, <2>4, <2>7, <2>8, <1>2, BoxKeeps
    <2>18. Keeps(t, u, A) /\ A \cup {r} = Grew(A, t, u)
      BY <2>16, <2>17, KeepsOn
    <2>19. Tops(t, Nil, u, 1)
      <3>1. u.height = t.height + 1 /\ u.root = r /\ Items(u, r) = <<t1.root, nn>> /\ ~ Leaf(u, r)
        BY <2>10, <2>15 DEF IsGrown
      <3> QED BY <3>1 DEF Tops
    <2>20. Grown(s) = u
      BY <1>1, <1>4, <2>6, <2>8, <2>10, <2>14 DEF Grown, SetBound
    <2>21. 1 # 0
      OBVIOUS
    <2> QED BY <2>16, <2>18, <2>19, <2>20, <2>21, <1>1
  <1> QED BY <1>3, <1>4

\* x waits for a parent and is appended to n, the node at the end of a way from the root.
LEMMA AddEntryIs ==
  ASSUME NEW t, NEW A, NEW lv, NEW c \in Int, NEW n, NEW x, NEW P,
         Whole(t, A, lv, {t.root} \cup {x}, c), Attachable(t, A, lv, {t.root} \cup {x}, c, n, x),
         Snug(t, A, {}), Path(t, A, lv, {t.root} \cup {x}, n, P)
  PROVE  IsAdded(t, A, c, x, AddEntry(t, n, x))
  <1>1. PICK R : R = {t.root} \cup {x}
    OBVIOUS
  <1>2. /\ t \in Trees /\ Shape(t, A, lv, R, c) /\ Linked(t) /\ Fits(t, {}) /\ Full(t, A, R) /\ Owned(t, A)
        /\ Attachable(t, A, lv, R, c, n, x) /\ Path(t, A, lv, R, n, P)
        /\ A \subseteq Names(t) /\ n \in A /\ x \in A /\ ~ IsData(n) /\ x # t.root
    BY <1>1 DEF Whole, Attachable, Shape, Levels
  <1>3. n \in Names(t) /\ x \in Names(t)
    BY <1>2
  <1>4. PICK u : u = SetParent(SetItems(t, n, Append(Items(t, n), x)), {x}, n)
    OBVIOUS
  <1>5. IsAttached(t, u, n, x) /\ Bound(u, x) = Bound(t, x)
    BY <1>2, <1>3, <1>4, AppendedIs
  <1>6. u \in Trees /\ u.root = t.root /\ u.height = t.height /\ R \ {x} = {u.root}
    BY <1>1, <1>2, <1>5 DEF IsAttached, SameTop
  <1>7. Shape(u, A, lv, {u.root}, c) /\ Full(u, A, {u.root}) /\ Path(u, A, lv, {u.root}, n, P)
    <2>1. Shape(u, A, lv, R \ {x}, c)
      BY <1>2, <1>5, AttachShape
    <2>2. Full(u, A, R \ {x})
      BY <1>2, <1>5, AttachFull
    <2>3. Path(u, A, lv, R \ {x}, n, P)
      BY <1>2, <1>5, AttachPath
    <2> QED BY <2>1, <2>2, <2>3, <1>6
  <1>8. Linked(u) /\ Fits(u, {n}) /\ Owned(u, A)
    <2>1. Linked(u) /\ Fits(u, {n})
      BY <1>2, <1>3, <1>5, AttachLinked
    <2>2. Owned(u, A)
      BY <1>2, <1>5, AttachOwned
    <2> QED BY <2>1, <2>2
  <1>9. Items(u, n) # <<>>
    <2>1. Items(t, n) \in Seq(Int) /\ x \in Int /\ Items(u, n) = Append(Items(t, n), x)
      BY <1>2, <1>3, <1>5, NodeIs, TreeIs DEF IsAttached
    <2>2. Len(Items(u, n)) = Len(Items(t, n)) + 1 /\ Len(Items(t, n)) \in Nat
      BY <2>1, AppendSet, SeqIs
    <2>3. Items(u, n) \in Seq(Int)
      BY <2>1, AppendSet
    <2> QED BY <2>2, <2>3, SeqIs
  <1>10. Snug(u, A, P)
    <2>1. ~ t.twin /\ Items(u, x) # <<>> => Bound(u, x) = ComputeBB(u, Items(u, x))
      <3> SUFFICES ASSUME ~ t.twin, Items(u, x) # <<>>
                   PROVE  Bound(u, x) = ComputeBB(u, Items(u, x))
        OBVIOUS
      <3>0. n # x
        <4>1. lv[x] = lv[n] + 1 /\ lv[n] \in Nat
          BY <1>2 DEF Attachable, Shape, Levels
        <4> QED BY <4>1
      <3>1. Items(u, x) = Items(t, x)
        BY <3>0, <1>3, <1>5 DEF IsAttached
      <3>2. Bound(t, x) = ComputeBB(t, Items(t, x))
        BY <3>1, <1>2 DEF Snug
      <3>3. \A y \in ToSet(Items(t, x)) : y \in Names(t) /\ y # x
        <4>1. \A y \in ToSet(Items(t, x)) : y \in A /\ y \notin R
          BY <1>2 DEF Shape, Downward
        <4> QED BY <4>1, <1>1, <1>2
      <3>4. \A y \in ToSet(Items(t, x)) : Bound(t, y) = Bound(u, y)
        BY <3>3, <1>5 DEF IsAttached
      <3>5. ComputeBB(t, Items(t, x)) = ComputeBB(u, Items(t, x))
        BY <3>4, <1>2, <1>6, ComputeBBSame
      <3> QED BY <3>1, <3>2, <3>5, <1>5
    <2>2. Snug(t, A, {n}) /\ n \in {n}
      BY DEF Snug
    <2>3. Snug(u, A, {n} \ {x})
      BY <2>1, <2>2, <1>2, <1>5, AttachSnug
    <2>4. ~ u.twin => n \in P
      BY <1>7 DEF Path
    <2> QED BY <2>3, <2>4 DEF Snug
  <1>11. PICK s : s = SplitOverfull(u, n)
    OBVIOUS
  <1>12. PICK B, lw : Climbing(At(s, n), B, lw, c, P) /\ Onward(u, A, Nil, At(s, n), B)
    <2>1. \E B, lw : /\ Climbing(At(SplitOverfull(u, n), n), B, lw, c, P) /\ lw[n] = lv[n]
                     /\ Onward(u, A, Nil, At(SplitOverfull(u, n), n), B)
      BY <1>2, <1>6, <1>7, <1>8, <1>9, <1>10, SplitOverfullIs
    <2> QED BY <2>1, <1>11
  <1>13. PICK r : r = AdjustTree(s, n)
    OBVIOUS
  <1>14. PICK C, lx : Topped(r, C, lx, c) /\ Onward(u, A, Nil, At(r, u.root), C)
    BY <1>6, <1>12, <1>13, AdjustTreeIs
  <1>16. PICK v : v = Grown(r)
    OBVIOUS
  <1>17. PICK D, ly, g : /\ Tops(r.tree, Nil, v, g) /\ (g = 0 => r.new = Nil) /\ Settled(v, D, ly, c + g)
                         /\ Keeps(r.tree, v, C) /\ D = Grew(C, r.tree, v)
    <2>1. \E D, ly, g : /\ Tops(r.tree, Nil, Grown(r), g) /\ (g = 0 => r.new = Nil) /\ Settled(Grown(r), D, ly, c + g)
                        /\ Keeps(r.tree, Grown(r), C) /\ D = Grew(C, r.tree, Grown(r))
      BY <1>14, GrownIs
    <2> QED BY <2>1, <1>16
  <1>18. Keeps(t, u, A) /\ Grew(A, t, u) = A
    BY <1>2, <1>5, AttachKeeps
  <1>19. /\ Keeps(u, r.tree, A) /\ C = Grew(A, u, r.tree) /\ r.tree.root = u.root /\ r.tree.height = u.height
         /\ r.new = Nil => Len(Items(r.tree, u.root)) >= Len(Items(u, u.root)) /\ Strays(r.tree) \subseteq Strays(u)
    BY <1>14 DEF Onward, Widens, At, Waiting
  <1>20. Keeps(t, r.tree, A) /\ C = Grew(A, t, r.tree)
    BY <1>18, <1>19, KeepsOn
  <1>22. Keeps(t, v, A) /\ D = Grew(A, t, v)
    BY <1>17, <1>20, KeepsOn
  <1>23. Tops(t, x, v, g)
    <2>1. PICK i \in Nat, j \in Nat : i = Len(Items(t, t.root)) /\ j = Len(Items(u, t.root)) /\ i <= j
      <3>1. Items(t, t.root) \in Seq(Int) /\ x \in Int /\ t.root \in Names(t) /\ u.root \in Names(u)
        BY <1>2, <1>3, <1>6, NodeIs, TreeIs
      <3>2. Len(Items(t, t.root)) \in Nat /\ Len(Append(Items(t, t.root), x)) = Len(Items(t, t.root)) + 1
        BY <3>1, SeqIs, AppendSet
      <3>3. Items(u, t.root) = Items(t, t.root) \/ Items(u, t.root) = Append(Items(t, t.root), x)
        BY <3>1, <1>5 DEF IsAttached
      <3> QED BY <3>2, <3>3
    <2>2. v.height = t.height + g /\ g \in {0, 1} /\ t.height \in Nat
      BY <1>2, <1>6, <1>17, <1>19, TreeIs DEF Tops
    <2>3. g = 0 => v.root = t.root /\ Len(Items(v, v.root)) >= i
      <3> SUFFICES ASSUME g = 0
                   PROVE  v.root = t.root /\ Len(Items(v, v.root)) >= i
        OBVIOUS
      <3>1. v.root = r.tree.root /\ Len(Items(v, v.root)) >= Len(Items(r.tree, r.tree.root)) /\ v.height = r.tree.height + 0
        BY <1>17 DEF Tops
      <3>2. r.tree.root = t.root /\ v.root = t.root
        BY <3>1, <1>6, <1>19
      <3>3. r.new = Nil
        BY <1>17
      <3>4. PICK k \in Nat, l \in Nat : k = Len(Items(r.tree, t.root)) /\ l = Len(Items(v, v.root))
        <4>1. r.tree \in Trees /\ v \in Trees
          BY <1>14, <1>17 DEF Topped, Settled, Whole
        <4>2. Items(r.tree, r.tree.root) \in Seq(Int) /\ Items(v, v.root) \in Seq(Int)
          BY <4>1, NodeIs, TreeIs
        <4> QED BY <3>2, <4>2, SeqIs
      <3>5. k >= j /\ l >= k
        BY <3>1, <3>2, <3>3, <3>4, <2>1, <1>6, <1>19
      <3> QED BY <3>2, <3>4, <3>5, <2>1
    <2>5. g = 0 => Strays(v) \subseteq Strays(t) \ Waiting(x)
      <3> SUFFICES ASSUME g = 0
                   PROVE  Strays(v) \subseteq Strays(t) \ Waiting(x)
        OBVIOUS
      <3>1. Strays(v) \subseteq Strays(r.tree) /\ Strays(r.tree) \subseteq Strays(u)
        BY <1>17, <1>19 DEF Tops
      <3>2. PICK q : q = At([tree |-> u, new |-> Nil], n)
        OBVIOUS
      <3>3. q.tree = u /\ q.new = Nil
        BY <3>2 DEF At
      <3>4. Strays(u) \subseteq Strays(t) \ Waiting(x)
        <4>1. Widens(t, x, q)
          BY <3>3, <1>2, <1>3, <1>5, WidensAttached
        <4> QED BY <4>1, <3>3 DEF Widens, Waiting
      <3> QED BY <3>1, <3>4
    <2>4. g = 1 => ~ Leaf(v, v.root) /\ Len(Items(v, v.root)) = 2
      BY <1>17 DEF Tops
    <2> QED BY <2>1, <2>2, <2>3, <2>4, <2>5 DEF Tops
  <1>24. AddEntry(t, n, x) = v
    BY <1>4, <1>11, <1>13, <1>16 DEF AddEntry
  <1> QED BY <1>17, <1>22, <1>23, <1>24 DEF IsAdded

-----------------------------------------------------------------------------
(* The ways from the root *)

LEMMA PathRoot ==
  ASSUME NEW t, NEW A, NEW lv, NEW R, NEW c, Shape(t, A, lv, R, c)
  PROVE  Path(t, A, lv, R, t.root, {t.root})
  <1>1. t.root \in A /\ lv[t.root] = 1
    BY DEF Shape, Levels
  <1> QED BY <1>1 DEF Path

LEMMA PathDown ==
  ASSUME NEW t, NEW A, NEW lv, NEW R, NEW c, Shape(t, A, lv, R, c), Owned(t, A), t.root \in R,
         NEW n \in A, NEW P, Path(t, A, lv, R, n, P), NEW x \in ToSet(Items(t, n))
  PROVE  Path(t, A, lv, R, x, P \cup {x})
  <1>1. SUFFICES ASSUME ~ t.twin
                 PROVE  Path(t, A, lv, R, x, P \cup {x})
    BY DEF Path
  <1>2. x \in A /\ x \notin R /\ lv[x] = lv[n] + 1 /\ lv[n] \in Nat /\ lv \in [A -> Nat]
    BY DEF Shape, Downward, Levels
  <1>3. Up(t, x) = n
    BY <1>1 DEF Owned
  <1>4. /\ P \subseteq A /\ n \in P
        /\ \A y \in P : lv[y] <= lv[n] /\ (y # t.root => y \notin R /\ Up(t, y) \in P /\ y \in ToSet(Items(t, Up(t, y))))
        /\ \A y, z \in P : lv[y] = lv[z] => y = z
    BY <1>1 DEF Path
  <1>5. \A y \in P : lv[y] \in Nat /\ lv[y] <= lv[x] /\ lv[y] # lv[x]
    <2>1. \A y \in P : lv[y] \in Nat /\ lv[y] <= lv[n]
      BY <1>2, <1>4
    <2> QED BY <2>1, <1>2
  <1>6. \A y \in P \cup {x} : lv[y] <= lv[x]
    BY <1>2, <1>5
  <1>7. \A y, z \in P \cup {x} : lv[y] = lv[z] => y = z
    BY <1>4, <1>5
  <1>8. \A y \in P \cup {x} : y # t.root => y \notin R /\ Up(t, y) \in P \cup {x} /\ y \in ToSet(Items(t, Up(t, y)))
    BY <1>2, <1>3, <1>4
  <1> QED BY <1>2, <1>4, <1>6, <1>7, <1>8 DEF Path

-----------------------------------------------------------------------------
(* chooseNode *)

ChooseStep(t, n, b, h) ==
  [i \in 1..Len(Items(t, n)) |->
     LET c == Bound(t, Items(t, n)[i])
         e == Enlargement(c, b)
         so == h[i - 1]
     IN  IF \/ i = 1
            \/ e < so.e
            \/ e = so.e /\ Area(Union(c, b)) < Area(Bound(t, Items(t, n)[so.i]))
         THEN [i |-> i, e |-> e] ELSE so]

Chooses(t, n, b) == CHOOSE h : h = ChooseStep(t, n, b, h)

LEMMA ChooseEntryIs ==
  ASSUME NEW t \in Trees, NEW n \in Names(t), NEW b, Items(t, n) # <<>>
  PROVE  ChooseEntry(t, n, b) \in ToSet(Items(t, n))
  <1> DEFINE s == Items(t, n)
             m == Len(s)
             E(i) == [i |-> i, e |-> Enlargement(Bound(t, s[i]), b)]
             S == {E(i) : i \in 1..m}
             W == [k \in 1..m |-> S]
             T(k, v) == LET c == Bound(t, s[k])
                            e == Enlargement(c, b)
                        IN  IF \/ k = 1
                               \/ e < v.e
                               \/ e = v.e /\ Area(Union(c, b)) < Area(Bound(t, s[v.i]))
                            THEN [i |-> k, e |-> e] ELSE v
             G == [kv \in (2..m) \X S |-> T(kv[1], kv[2])]
  <1>1. s \in Seq(Int) /\ m \in Nat \ {0} /\ ToSet(s) = {s[i] : i \in 1..m}
    BY NodeIs, SeqIs
  <1>2. \A k \in 1..m : \A v : T(k, v) = E(k) \/ T(k, v) = v
    OBVIOUS
  <1>3. T(1, <<>>) = E(1) /\ \A v : T(1, v) = E(1)
    OBVIOUS
  <1>4. \A k \in 1..m : \A v \in S : T(k, v) \in S
    <2> HIDE DEF T, E, m
    <2> QED BY <1>2
  <1>5. E(1) \in W[1]
    BY <1>1
  <1>6. \A k \in 2..m : \A v \in W[k - 1] : G[<<k, v>>] = T(k, v) /\ G[<<k, v>>] \in W[k]
    <2> SUFFICES ASSUME NEW k \in 2..m, NEW v \in W[k - 1]
                 PROVE  G[<<k, v>>] = T(k, v) /\ G[<<k, v>>] \in W[k]
      OBVIOUS
    <2> HIDE DEF m
    <2>1. k - 1 \in 1..m /\ k \in 1..m
      BY <1>1
    <2>2. v \in S
      BY <2>1
    <2>3. T(k, v) \in S
      BY <2>1, <2>2, <1>4
    <2> HIDE DEF T, S
    <2> QED BY <2>1, <2>2, <2>3
  <1> HIDE DEF W, G, S, T, E, m
  <1>7. Turns1(m, W, E(1), G)
    BY <1>5, <1>6 DEF Turns1
  <1>8. PICK f : Turned1(f, m, W, E(1), G)
    BY <1>1, <1>7, Loop1Exists
  <1>9. \A k \in 2..m : k - 1 \in 1..m /\ k \in 1..m
    BY <1>1
  <1>10. f = ChooseStep(t, n, b, f)
    <2>1. \A k \in 2..m : f[k] = T(k, f[k - 1])
      BY <1>6, <1>8, <1>9 DEF Turned1
    <2>2. f[1] = T(1, f[1 - 1])
      BY <1>3, <1>8 DEF Turned1
    <2>3. \A k \in 1..m : f[k] = T(k, f[k - 1])
      <3>1. \A k \in 1..m : k = 1 \/ k \in 2..m
        BY <1>1
      <3> QED BY <2>1, <2>2, <3>1
    <2>4. f = [k \in 1..m |-> f[k]]
      BY <1>8 DEF Turned1
    <2>5. f = [k \in 1..m |-> T(k, f[k - 1])]
      BY <2>3, <2>4
    <2> QED BY <2>5 DEF ChooseStep, T, m
  <1>11. PICK h : h = Chooses(t, n, b)
    OBVIOUS
  <1>12. h = ChooseStep(t, n, b, h)
    BY <1>10, <1>11 DEF Chooses
  <1>13. \A k \in 1..m : h[k] = T(k, h[k - 1])
    <2>1. h = [k \in 1..m |-> T(k, h[k - 1])]
      BY <1>12 DEF ChooseStep, T, m
    <2> QED BY <2>1
  <1>14. h[1] \in W[1]
    <2>1. 1 \in 1..m
      BY <1>1
    <2> QED BY <2>1, <1>3, <1>5, <1>13
  <1>15. \A k \in 2..m : h[k - 1] \in W[k - 1] => h[k] \in W[k]
    <2> SUFFICES ASSUME NEW k \in 2..m, h[k - 1] \in W[k - 1]
                 PROVE  h[k] \in W[k]
      OBVIOUS
    <2>1. k - 1 \in 1..m /\ k \in 1..m
      BY <1>9
    <2>2. h[k] = T(k, h[k - 1])
      BY <2>1, <1>13
    <2> QED BY <2>2, <1>6
  <1>16. h[m] \in W[m]
    <2>1. \A k \in 1..m : h[k] \in W[k]
      BY <1>1, <1>14, <1>15, Loop1Stays
    <2> QED BY <2>1, <1>1
  <1>17. PICK i \in 1..m : h[m] = E(i)
    BY <1>1, <1>16 DEF W, S
  <1>18. h[m].i = i
    BY <1>17 DEF E
  <1>19. ChooseEntry(t, n, b) = s[h[m].i]
    BY <1>11 DEF ChooseEntry, Chooses, ChooseStep, m
  <1> QED BY <1>1, <1>17, <1>18, <1>19

-----------------------------------------------------------------------------
\* An inner node at the end of a way from the root.
Reached(t, A, lv, n) == n \in A /\ ~ IsData(n) /\ \E P : Path(t, A, lv, {t.root}, n, P)

LEMMA ReachedRoot ==
  ASSUME NEW t, NEW A, NEW lv, NEW c, Settled(t, A, lv, c)
  PROVE  /\ Reached(t, A, lv, t.root) /\ lv[t.root] = 1 /\ t.height \in Nat /\ t.height >= 1
         /\ A \subseteq Names(t) /\ t \in Trees /\ lv \in [A -> Nat]
  <1>1. Shape(t, A, lv, {t.root}, c) /\ t \in Trees
    BY DEF Settled, Whole
  <1>2. Path(t, A, lv, {t.root}, t.root, {t.root})
    BY <1>1, PathRoot
  <1>3. /\ t.root \in A /\ lv[t.root] = 1 /\ ~ IsData(t.root) /\ t.height >= 1
        /\ A \subseteq Names(t) /\ lv \in [A -> Nat]
    BY <1>1 DEF Shape, Levels
  <1> QED BY <1>1, <1>2, <1>3, TreeIs DEF Reached

LEMMA ReachedDown ==
  ASSUME NEW t, NEW A, NEW lv, NEW c, Settled(t, A, lv, c), NEW n, Reached(t, A, lv, n), ~ Leaf(t, n), NEW b
  PROVE  LET x == ChooseEntry(t, n, b) IN Reached(t, A, lv, x) /\ lv[x] = lv[n] + 1
  <1>1. Shape(t, A, lv, {t.root}, c) /\ t \in Trees /\ Owned(t, A)
    BY DEF Settled, Whole
  <1>2. n \in A /\ n \in Names(t) /\ ~ IsData(n)
    BY <1>1 DEF Reached, Shape, Levels
  <1>3. Items(t, n) # <<>>
    BY <1>1, <1>2 DEF Shape, Kinds
  <1>4. PICK x : x = ChooseEntry(t, n, b)
    OBVIOUS
  <1>5. x \in ToSet(Items(t, n))
    BY <1>1, <1>2, <1>3, <1>4, ChooseEntryIs
  <1>6. x \in A /\ ~ IsData(x) /\ lv[x] = lv[n] + 1
    BY <1>1, <1>2, <1>5 DEF Shape, Downward
  <1>7. PICK P : Path(t, A, lv, {t.root}, n, P)
    BY DEF Reached
  <1>8. Path(t, A, lv, {t.root}, x, P \cup {x})
    <2>1. t.root \in {t.root}
      OBVIOUS
    <2> QED BY <2>1, <1>1, <1>2, <1>5, <1>7, PathDown
  <1> QED BY <1>4, <1>6, <1>8 DEF Reached

LeafStep(t, b, h) ==
  [k \in 1..t.height |->
     IF k = 1 THEN t.root ELSE IF t.node[h[k - 1]].leaf THEN h[k - 1] ELSE ChooseEntry(t, h[k - 1], b)]

Leaves(t, b) == CHOOSE h : h = LeafStep(t, b, h)

LEMMA ChooseLeafIs ==
  ASSUME NEW t, NEW A, NEW lv, NEW c, Settled(t, A, lv, c), NEW b
  PROVE  Reached(t, A, lv, ChooseLeaf(t, b)) /\ Leaf(t, ChooseLeaf(t, b))
  <1> DEFINE m == t.height
             W == [k \in 1..m |-> {n \in A : Reached(t, A, lv, n) /\ (Leaf(t, n) \/ lv[n] >= k)}]
             T(v) == IF t.node[v].leaf THEN v ELSE ChooseEntry(t, v, b)
             G == [kv \in (2..m) \X A |-> T(kv[2])]
  <1>1. /\ Reached(t, A, lv, t.root) /\ lv[t.root] = 1 /\ t.height \in Nat /\ t.height >= 1
        /\ A \subseteq Names(t) /\ t \in Trees /\ lv \in [A -> Nat]
    BY ReachedRoot
  <1>2. m \in Nat \ {0}
    BY <1>1
  <1> HIDE DEF m
  <1>3. t.root \in W[1]
    <2>1. 1 \in 1..m /\ t.root \in A
      BY <1>1, <1>2 DEF Reached
    <2> QED BY <2>1, <1>1
  <1>4. ASSUME NEW k \in 2..m, NEW v \in W[k - 1]
        PROVE  v \in A /\ T(v) \in W[k]
    <2>1. k - 1 \in 1..m /\ k \in 1..m
      BY <1>2
    <2>2. v \in A /\ Reached(t, A, lv, v) /\ (Leaf(t, v) \/ lv[v] >= k - 1)
      BY <2>1
    <2>3. CASE Leaf(t, v)
      <3>1. T(v) = v
        BY <2>3 DEF Leaf
      <3> HIDE DEF T
      <3> QED BY <3>1, <2>1, <2>2, <2>3
    <2>4. CASE ~ Leaf(t, v)
      <3>1. PICK x : x = ChooseEntry(t, v, b)
        OBVIOUS
      <3>2. T(v) = x
        BY <3>1, <2>4 DEF Leaf
      <3>3. Reached(t, A, lv, x) /\ lv[x] = lv[v] + 1
        BY <3>1, <2>2, <2>4, ReachedDown
      <3>4. x \in A /\ lv[v] \in Nat
        BY <3>3, <2>2, <1>1 DEF Reached
      <3>5. lv[x] >= k
        BY <3>3, <3>4, <2>2, <2>4
      <3> HIDE DEF T
      <3> QED BY <3>2, <3>3, <3>4, <3>5, <2>1, <2>2
    <2> QED BY <2>3, <2>4
  <1>5. \A k \in 2..m : \A v \in W[k - 1] : G[<<k, v>>] = T(v)
    <2> SUFFICES ASSUME NEW k \in 2..m, NEW v \in W[k - 1]
                 PROVE  G[<<k, v>>] = T(v)
      OBVIOUS
    <2>1. v \in A
      BY <1>4
    <2> HIDE DEF T, W
    <2> QED BY <2>1
  <1> HIDE DEF W, G, T
  <1>6. Turns1(m, W, t.root, G)
    BY <1>3, <1>4, <1>5 DEF Turns1
  <1>7. PICK f : Turned1(f, m, W, t.root, G)
    BY <1>2, <1>6, Loop1Exists
  <1>8. \A k \in 2..m : k - 1 \in 1..m /\ k \in 1..m /\ k # 1
    BY <1>2
  <1>9. f = LeafStep(t, b, f)
    <2>1. \A k \in 2..m : f[k] = T(f[k - 1])
      BY <1>5, <1>7, <1>8 DEF Turned1
    <2>2. \A k \in 1..m : f[k] = IF k = 1 THEN t.root ELSE T(f[k - 1])
      <3>1. \A k \in 1..m : k = 1 \/ k \in 2..m
        BY <1>2
      <3> QED BY <2>1, <3>1, <1>7, <1>8 DEF Turned1
    <2>3. f = [k \in 1..m |-> f[k]]
      BY <1>7 DEF Turned1
    <2>4. f = [k \in 1..m |-> IF k = 1 THEN t.root ELSE T(f[k - 1])]
      BY <2>2, <2>3
    <2> QED BY <2>4 DEF LeafStep, T, m
  <1>10. PICK h : h = Leaves(t, b)
    OBVIOUS
  <1>11. h = LeafStep(t, b, h)
    BY <1>9, <1>10 DEF Leaves
  <1>12. h[1] = t.root /\ \A k \in 2..m : h[k] = T(h[k - 1])
    <2>1. h = [k \in 1..m |-> IF k = 1 THEN t.root ELSE T(h[k - 1])]
      BY <1>11 DEF LeafStep, T, m
    <2>2. \A k \in 1..m : h[k] = IF k = 1 THEN t.root ELSE T(h[k - 1])
      BY <2>1
    <2>3. 1 \in 1..m
      BY <1>2
    <2> QED BY <2>2, <2>3, <1>8
  <1>13. \A k \in 2..m : h[k - 1] \in W[k - 1] => h[k] \in W[k]
    BY <1>4, <1>12
  <1>14. h[m] \in W[m]
    <2>1. h[1] \in W[1]
      BY <1>3, <1>12
    <2>2. \A k \in 1..m : h[k] \in W[k]
      BY <1>2, <2>1, <1>13, Loop1Stays
    <2> QED BY <2>2, <1>2
  <1>15. ChooseLeaf(t, b) = h[m]
    BY <1>10 DEF ChooseLeaf, Leaves, LeafStep, m
  <1>16. PICK n : n = h[m]
    OBVIOUS
  <1>17. n \in A /\ Reached(t, A, lv, n) /\ (Leaf(t, n) \/ lv[n] >= m)
    BY <1>2, <1>14, <1>16 DEF W
  <1>18. Leaf(t, n)
    <2> SUFFICES ASSUME ~ Leaf(t, n)
                 PROVE  FALSE
      OBVIOUS
    <2>1. PICK x : x = ChooseEntry(t, n, b)
      OBVIOUS
    <2>2. Reached(t, A, lv, x) /\ lv[x] = lv[n] + 1
      BY <2>1, <1>17, ReachedDown
    <2>3. x \in A /\ ~ IsData(x)
      BY <2>2 DEF Reached
    <2>4. lv[x] <= m
      BY <2>3 DEF Settled, Whole, Shape, Levels, m
    <2>5. lv[n] \in Nat /\ lv[n] >= m
      BY <1>1, <1>17
    <2> QED BY <2>2, <2>4, <2>5, <1>2
  <1> QED BY <1>15, <1>16, <1>17, <1>18

LevelStep(t, b, level, h) ==
  [k \in 1..level |-> IF k = 1 THEN t.root ELSE ChooseEntry(t, h[k - 1], b)]

LevelNodes(t, b, level) == CHOOSE h : h = LevelStep(t, b, level, h)

LEMMA ChooseLevelIs ==
  ASSUME NEW t, NEW A, NEW lv, NEW c \in Int, Settled(t, A, lv, c), NEW b, NEW level \in Nat \ {0}, level <= c
  PROVE  Reached(t, A, lv, ChooseLevel(t, b, level)) /\ lv[ChooseLevel(t, b, level)] = level
  <1> DEFINE m == level
             W == [k \in 1..m |-> {n \in A : Reached(t, A, lv, n) /\ lv[n] = k}]
             T(v) == ChooseEntry(t, v, b)
             G == [kv \in (2..m) \X A |-> T(kv[2])]
  <1>1. /\ Reached(t, A, lv, t.root) /\ lv[t.root] = 1
        /\ A \subseteq Names(t) /\ t \in Trees /\ lv \in [A -> Nat]
    BY ReachedRoot
  <1>2. m \in Nat \ {0} /\ m <= c
    OBVIOUS
  <1> HIDE DEF m
  <1>3. t.root \in W[1]
    <2>1. 1 \in 1..m /\ t.root \in A
      BY <1>1, <1>2 DEF Reached
    <2> QED BY <2>1, <1>1
  <1>4. ASSUME NEW k \in 2..m, NEW v \in W[k - 1]
        PROVE  v \in A /\ T(v) \in W[k]
    <2>1. k - 1 \in 1..m /\ k \in 1..m /\ (k - 1) + 1 = k /\ k - 1 < c
      BY <1>2
    <2>2. v \in A /\ Reached(t, A, lv, v) /\ lv[v] = k - 1
      BY <2>1
    <2>3. ~ Leaf(t, v)
      <3>1. Leaf(t, v) => lv[v] >= c
        BY <2>2 DEF Settled, Whole, Shape, Kinds
      <3> QED BY <3>1, <2>1, <2>2
    <2>4. PICK x : x = T(v)
      OBVIOUS
    <2>5. Reached(t, A, lv, x) /\ lv[x] = lv[v] + 1
      BY <2>2, <2>3, <2>4, ReachedDown
    <2>6. x \in A /\ lv[x] = k
      BY <2>1, <2>2, <2>5 DEF Reached
    <2> HIDE DEF T
    <2> QED BY <2>1, <2>2, <2>4, <2>5, <2>6
  <1>5. \A k \in 2..m : \A v \in W[k - 1] : G[<<k, v>>] = T(v)
    <2> SUFFICES ASSUME NEW k \in 2..m, NEW v \in W[k - 1]
                 PROVE  G[<<k, v>>] = T(v)
      OBVIOUS
    <2>1. v \in A
      BY <1>4
    <2> HIDE DEF T, W
    <2> QED BY <2>1
  <1> HIDE DEF W, G, T
  <1>6. Turns1(m, W, t.root, G)
    BY <1>3, <1>4, <1>5 DEF Turns1
  <1>7. PICK f : Turned1(f, m, W, t.root, G)
    BY <1>2, <1>6, Loop1Exists
  <1>8. \A k \in 2..m : k - 1 \in 1..m /\ k \in 1..m /\ k # 1
    BY <1>2
  <1>9. f = LevelStep(t, b, level, f)
    <2>1. \A k \in 2..m : f[k] = T(f[k - 1])
      BY <1>5, <1>7, <1>8 DEF Turned1
    <2>2. \A k \in 1..m : f[k] = IF k = 1 THEN t.root ELSE T(f[k - 1])
      <3>1. \A k \in 1..m : k = 1 \/ k \in 2..m
        BY <1>2
      <3> QED BY <2>1, <3>1, <1>7, <1>8 DEF Turned1
    <2>3. f = [k \in 1..m |-> f[k]]
      BY <1>7 DEF Turned1
    <2>4. f = [k \in 1..m |-> IF k = 1 THEN t.root ELSE T(f[k - 1])]
      BY <2>2, <2>3
    <2> QED BY <2>4 DEF LevelStep, T, m
  <1>10. PICK h : h = LevelNodes(t, b, level)
    OBVIOUS
  <1>11. h = LevelStep(t, b, level, h)
    BY <1>9, <1>10 DEF LevelNodes
  <1>12. h[1] = t.root /\ \A k \in 2..m : h[k] = T(h[k - 1])
    <2>1. h = [k \in 1..m |-> IF k = 1 THEN t.root ELSE T(h[k - 1])]
      BY <1>11 DEF LevelStep, T, m
    <2>2. \A k \in 1..m : h[k] = IF k = 1 THEN t.root ELSE T(h[k - 1])
      BY <2>1
    <2>3. 1 \in 1..m
      BY <1>2
    <2> QED BY <2>2, <2>3, <1>8
  <1>13. \A k \in 2..m : h[k - 1] \in W[k - 1] => h[k] \in W[k]
    BY <1>4, <1>12
  <1>14. h[m] \in W[m]
    <2>1. h[1] \in W[1]
      BY <1>3, <1>12
    <2>2. \A k \in 1..m : h[k] \in W[k]
      BY <1>2, <2>1, <1>13, Loop1Stays
    <2> QED BY <2>2, <1>2
  <1>15. ChooseLevel(t, b, level) = h[m]
    BY <1>10 DEF ChooseLevel, LevelNodes, LevelStep, m
  <1>16. h[m] \in A /\ Reached(t, A, lv, h[m]) /\ lv[h[m]] = m
    BY <1>2, <1>14 DEF W
  <1> QED BY <1>15, <1>16 DEF m

-----------------------------------------------------------------------------
(* Trees that agree on some nodes. *)

\* The same node in two trees.
Alike(t, u, n) == Items(u, n) = Items(t, n) /\ Leaf(u, n) = Leaf(t, n) /\ Bound(u, n) = Bound(t, n) /\ Up(u, n) = Up(t, n)

Agree(t, u, A) ==
  /\ t \in Trees /\ u \in Trees /\ A \subseteq Names(t) /\ A \subseteq Names(u)
  /\ \A n \in A : Alike(t, u, n)
  /\ (~ u.twin => ~ t.twin) /\ (~ u.tied => ~ t.tied)

\* A part of a tree: x is its top, which waits for a parent.
Hanging(t, D, ld, x, c) ==
  /\ t \in Trees /\ D \subseteq Names(t) /\ ld \in [D -> Nat] /\ x \in D /\ t.root \notin D
  /\ \A n \in D : ld[n] >= 1 /\ (~ IsData(n) => ld[n] <= t.height)
  /\ Kinds(t, D, ld, c) /\ Downward(t, D, ld, {x}) /\ Upward(t, D, ld, {x})
  /\ Full(t, D, {x}) /\ Owned(t, D) /\ Snug(t, D, {})

LEMMA AgreeKinds ==
  ASSUME NEW t, NEW u, NEW A, NEW lv, NEW R, NEW c, Agree(t, u, A), Kinds(t, A, lv, c),
         Downward(t, A, lv, R), Upward(t, A, lv, R)
  PROVE  Kinds(u, A, lv, c) /\ Downward(u, A, lv, R) /\ Upward(u, A, lv, R)
  <1>1. \A n \in A : Items(u, n) = Items(t, n) /\ Leaf(u, n) = Leaf(t, n) /\ Up(u, n) = Up(t, n)
    BY DEF Agree, Alike
  <1>2. Kinds(u, A, lv, c)
    BY <1>1 DEF Kinds
  <1>3. Downward(u, A, lv, R)
    BY <1>1 DEF Downward
  <1>4. Upward(u, A, lv, R)
    BY <1>1 DEF Upward
  <1> QED BY <1>2, <1>3, <1>4

LEMMA AgreeFull ==
  ASSUME NEW t, NEW u, NEW A, NEW lv, NEW R, Agree(t, u, A), Upward(t, A, lv, R), Full(t, A, R),
         \A n \in A : n # u.root => n # t.root
  PROVE  Full(u, A, R)
  <1>1. \A n \in A : Items(u, n) = Items(t, n) /\ Up(u, n) = Up(t, n)
    BY DEF Agree, Alike
  <1>2. SUFFICES ASSUME ~ u.tied
                 PROVE  /\ \A x \in A \ R : x \in ToSet(Items(u, Up(u, x)))
                        /\ \A n \in A : ~ IsData(n) /\ n # u.root => Len(Items(u, n)) >= MinChildItems
    BY DEF Full
  <1>3. ~ t.tied
    BY <1>2 DEF Agree
  <1>4. \A x \in A \ R : x \in ToSet(Items(t, Up(t, x))) /\ Up(t, x) \in A
    BY <1>3 DEF Full, Upward
  <1>5. \A n \in A : ~ IsData(n) /\ n # t.root => Len(Items(t, n)) >= MinChildItems
    BY <1>3 DEF Full
  <1> QED BY <1>1, <1>4, <1>5

LEMMA AgreeOwned ==
  ASSUME NEW t, NEW u, NEW A, NEW lv, NEW R, Agree(t, u, A), Downward(t, A, lv, R), Owned(t, A)
  PROVE  Owned(u, A)
  <1>1. \A n \in A : Items(u, n) = Items(t, n) /\ Up(u, n) = Up(t, n)
    BY DEF Agree, Alike
  <1>2. \A n \in A : \A x \in ToSet(Items(t, n)) : x \in A
    BY DEF Downward
  <1> QED BY <1>1, <1>2 DEF Owned, Agree

LEMMA AgreeSnug ==
  ASSUME NEW t, NEW u, NEW A, NEW lv, NEW R, NEW Q, Agree(t, u, A), Downward(t, A, lv, R), Snug(t, A, Q)
  PROVE  Snug(u, A, Q)
  <1>1. \A n \in A : Items(u, n) = Items(t, n) /\ Bound(u, n) = Bound(t, n)
    BY DEF Agree, Alike
  <1>2. SUFFICES ASSUME ~ u.twin, NEW n \in A, n \notin Q, Items(u, n) # <<>>
                 PROVE  Bound(u, n) = ComputeBB(u, Items(u, n))
    BY DEF Snug
  <1>3. Bound(t, n) = ComputeBB(t, Items(t, n))
    BY <1>1, <1>2 DEF Snug, Agree
  <1>4. \A x \in ToSet(Items(t, n)) : Bound(t, x) = Bound(u, x)
    BY <1>1 DEF Downward
  <1>5. ComputeBB(t, Items(t, n)) = ComputeBB(u, Items(t, n))
    BY <1>4, ComputeBBSame DEF Agree
  <1> QED BY <1>1, <1>3, <1>5

LEMMA AgreeSettled ==
  ASSUME NEW t, NEW u, NEW A, NEW lv, NEW c, Agree(t, u, A), Settled(t, A, lv, c),
         u.root = t.root, u.height = t.height, Linked(u), Fits(u, {})
  PROVE  Settled(u, A, lv, c)
  <1>1. Levels(t, A, lv, {t.root}) /\ Kinds(t, A, lv, c) /\ Downward(t, A, lv, {t.root}) /\ Upward(t, A, lv, {t.root})
        /\ Full(t, A, {t.root}) /\ Owned(t, A) /\ Snug(t, A, {})
    BY DEF Settled, Whole, Shape
  <1>2. Kinds(u, A, lv, c) /\ Downward(u, A, lv, {t.root}) /\ Upward(u, A, lv, {t.root})
    BY <1>1, AgreeKinds
  <1>3. Full(u, A, {t.root})
    BY <1>1, AgreeFull
  <1>4. Owned(u, A) /\ Snug(u, A, {})
    BY <1>1, AgreeOwned, AgreeSnug
  <1>5. Levels(u, A, lv, {t.root}) /\ u \in Trees
    BY <1>1 DEF Levels, Agree
  <1> QED BY <1>2, <1>3, <1>4, <1>5 DEF Settled, Whole, Shape

LEMMA AgreeReached ==
  ASSUME NEW t, NEW u, NEW A, NEW lv, NEW n, Agree(t, u, A), u.root = t.root, Reached(t, A, lv, n)
  PROVE  Reached(u, A, lv, n)
  <1>1. PICK P : Path(t, A, lv, {t.root}, n, P)
    BY DEF Reached
  <1>2. \A x \in A : Items(u, x) = Items(t, x) /\ Up(u, x) = Up(t, x)
    BY DEF Agree, Alike
  <1>3. Path(u, A, lv, {u.root}, n, P)
    <2> SUFFICES ASSUME ~ u.twin
                 PROVE  Path(u, A, lv, {u.root}, n, P)
      BY DEF Path
    <2>1. /\ P \subseteq A /\ n \in P
          /\ \A x \in P : lv[x] <= lv[n] /\ (x # t.root => x \notin {t.root} /\ Up(t, x) \in P /\ x \in ToSet(Items(t, Up(t, x))))
          /\ \A x, y \in P : lv[x] = lv[y] => x = y
      BY <1>1 DEF Path, Agree
    <2> QED BY <2>1, <1>2 DEF Path
  <1> QED BY <1>3 DEF Reached

LEMMA AgreeHanging ==
  ASSUME NEW t, NEW u, NEW D, NEW ld, NEW x, NEW c, Agree(t, u, D), Hanging(t, D, ld, x, c),
         u.height >= t.height, u.root \notin D
  PROVE  Hanging(u, D, ld, x, c)
  <1>1. /\ Kinds(t, D, ld, c) /\ Downward(t, D, ld, {x}) /\ Upward(t, D, ld, {x})
        /\ Full(t, D, {x}) /\ Owned(t, D) /\ Snug(t, D, {}) /\ t.root \notin D
    BY DEF Hanging
  <1>2. Kinds(u, D, ld, c) /\ Downward(u, D, ld, {x}) /\ Upward(u, D, ld, {x})
    BY <1>1, AgreeKinds
  <1>3. Full(u, D, {x})
    BY <1>1, AgreeFull
  <1>4. Owned(u, D) /\ Snug(u, D, {})
    BY <1>1, AgreeOwned, AgreeSnug
  <1>5. \A n \in D : ld[n] >= 1 /\ (~ IsData(n) => ld[n] <= u.height)
    <2>1. t.height \in Nat /\ u.height \in Nat
      BY TreeIs DEF Agree
    <2>2. \A n \in D : ld[n] \in Nat
      BY DEF Hanging
    <2> QED BY <2>1, <2>2 DEF Hanging
  <1> QED BY <1>2, <1>3, <1>4, <1>5 DEF Hanging, Agree

-----------------------------------------------------------------------------
(* A part that is to be put below a node of the tree *)

Both(A, lv, D, ld) == [n \in A \cup D |-> IF n \in D THEN ld[n] ELSE lv[n]]

\* The part with top x fits below node n.
Joinable(t, A, lv, c, D, ld, n, x) ==
  /\ Settled(t, A, lv, c) /\ Hanging(t, D, ld, x, c) /\ A \cap D = {}
  /\ Reached(t, A, lv, n) /\ ld[x] = lv[n] + 1 /\ (IsData(x) <=> Leaf(t, n))

LEMMA JoinIs ==
  ASSUME NEW t, NEW A, NEW lv, NEW c, NEW D, NEW ld, NEW n, NEW x, Joinable(t, A, lv, c, D, ld, n, x)
  PROVE  LET lw == Both(A, lv, D, ld)
         IN  /\ Whole(t, A \cup D, lw, {t.root} \cup {x}, c) /\ Snug(t, A \cup D, {})
             /\ Attachable(t, A \cup D, lw, {t.root} \cup {x}, c, n, x)
             /\ \E P : Path(t, A \cup D, lw, {t.root} \cup {x}, n, P)
  <1>1. PICK lw, B, R : lw = Both(A, lv, D, ld) /\ B = A \cup D /\ R = {t.root} \cup {x}
    OBVIOUS
  <1>2. /\ t \in Trees /\ Levels(t, A, lv, {t.root}) /\ Kinds(t, A, lv, c) /\ Downward(t, A, lv, {t.root})
        /\ Upward(t, A, lv, {t.root}) /\ Full(t, A, {t.root}) /\ Owned(t, A) /\ Snug(t, A, {})
        /\ Linked(t) /\ Fits(t, {})
    BY DEF Joinable, Settled, Whole, Shape
  <1>3. /\ Kinds(t, D, ld, c) /\ Downward(t, D, ld, {x}) /\ Upward(t, D, ld, {x})
        /\ Full(t, D, {x}) /\ Owned(t, D) /\ Snug(t, D, {}) /\ x \in D /\ t.root \notin D
        /\ D \subseteq Names(t) /\ ld \in [D -> Nat]
        /\ \A m \in D : ld[m] >= 1 /\ (~ IsData(m) => ld[m] <= t.height)
    BY DEF Joinable, Hanging
  <1>4. /\ A \subseteq Names(t) /\ lv \in [A -> Nat] /\ t.root \in A /\ lv[t.root] = 1 /\ ~ IsData(t.root)
        /\ \A m \in A : lv[m] >= 1 /\ (~ IsData(m) => lv[m] <= t.height)
    BY <1>2 DEF Levels
  <1>5. /\ \A m \in A : m \notin D /\ m \in B
        /\ \A m \in D : m \notin A /\ m \in B
        /\ \A m \in B : m \in A \/ m \in D
    BY <1>1 DEF Joinable
  <1>6. lw \in [B -> Nat] /\ (\A m \in A : lw[m] = lv[m]) /\ (\A m \in D : lw[m] = ld[m])
    <2>1. \A m \in B : (IF m \in D THEN ld[m] ELSE lv[m]) \in Nat
      BY <1>3, <1>4, <1>5
    <2>2. lw = [m \in B |-> IF m \in D THEN ld[m] ELSE lv[m]]
      BY <1>1 DEF Both
    <2> QED BY <2>1, <2>2, <1>5
  <1>7. Levels(t, B, lw, R)
    <2>1. B \subseteq Names(t) /\ R \subseteq B /\ t.root \in R
      BY <1>1, <1>3, <1>4
    <2>2. \A m \in B : lw[m] >= 1 /\ (~ IsData(m) => lw[m] <= t.height)
      BY <1>3, <1>4, <1>5, <1>6
    <2> QED BY <2>1, <2>2, <1>4, <1>6 DEF Levels
  <1>8. Kinds(t, B, lw, c)
    BY <1>2, <1>3, <1>5, <1>6 DEF Kinds
  <1>9. Downward(t, B, lw, R)
    <2> SUFFICES ASSUME NEW m \in B, NEW y \in ToSet(Items(t, m))
                 PROVE  y \in B /\ y \notin R /\ lw[y] = lw[m] + 1 /\ (IsData(y) <=> Leaf(t, m))
      BY DEF Downward
    <2>1. CASE m \in A
      <3>1. y \in A /\ y # t.root /\ lv[y] = lv[m] + 1 /\ (IsData(y) <=> Leaf(t, m))
        BY <2>1, <1>2 DEF Downward
      <3> QED BY <3>1, <2>1, <1>1, <1>3, <1>5, <1>6
    <2>2. CASE m \in D
      <3>1. y \in D /\ y # x /\ ld[y] = ld[m] + 1 /\ (IsData(y) <=> Leaf(t, m))
        BY <2>2, <1>3 DEF Downward
      <3> QED BY <3>1, <2>2, <1>1, <1>3, <1>5, <1>6
    <2> QED BY <2>1, <2>2, <1>5
  <1>10. \A y \in B \ R : \/ y \in A \ {t.root} /\ Up(t, y) \in A
                          \/ y \in D \ {x} /\ Up(t, y) \in D
    <2>1. \A y \in A \ {t.root} : Up(t, y) \in A
      BY <1>2 DEF Upward
    <2>2. \A y \in D \ {x} : Up(t, y) \in D
      BY <1>3 DEF Upward
    <2> QED BY <2>1, <2>2, <1>1, <1>5
  <1>11. Upward(t, B, lw, R)
    <2> SUFFICES ASSUME NEW y \in B \ R
                 PROVE  /\ Up(t, y) \in B /\ ~ IsData(Up(t, y)) /\ lw[y] = lw[Up(t, y)] + 1
                        /\ IsData(y) <=> Leaf(t, Up(t, y))
      BY DEF Upward
    <2>1. CASE y \in A \ {t.root} /\ Up(t, y) \in A
      <3>1. ~ IsData(Up(t, y)) /\ lv[y] = lv[Up(t, y)] + 1 /\ (IsData(y) <=> Leaf(t, Up(t, y)))
        BY <2>1, <1>2 DEF Upward
      <3> QED BY <3>1, <2>1, <1>5, <1>6
    <2>2. CASE y \in D \ {x} /\ Up(t, y) \in D
      <3>1. ~ IsData(Up(t, y)) /\ ld[y] = ld[Up(t, y)] + 1 /\ (IsData(y) <=> Leaf(t, Up(t, y)))
        BY <2>2, <1>3 DEF Upward
      <3> QED BY <3>1, <2>2, <1>5, <1>6
    <2> QED BY <2>1, <2>2, <1>10
  <1>12. Full(t, B, R)
    <2> SUFFICES ASSUME ~ t.tied
                 PROVE  /\ \A y \in B \ R : y \in ToSet(Items(t, Up(t, y)))
                        /\ \A m \in B : ~ IsData(m) /\ m # t.root => Len(Items(t, m)) >= MinChildItems
      BY DEF Full
    <2>1. /\ \A y \in A \ {t.root} : y \in ToSet(Items(t, Up(t, y)))
          /\ \A y \in D \ {x} : y \in ToSet(Items(t, Up(t, y)))
      BY <1>2, <1>3 DEF Full
    <2>2. /\ \A m \in A : ~ IsData(m) /\ m # t.root => Len(Items(t, m)) >= MinChildItems
          /\ \A m \in D : ~ IsData(m) /\ m # t.root => Len(Items(t, m)) >= MinChildItems
      BY <1>2, <1>3 DEF Full
    <2> QED BY <2>1, <2>2, <1>5, <1>10
  <1>13. Owned(t, B)
    BY <1>2, <1>3, <1>5 DEF Owned
  <1>14. Snug(t, B, {})
    BY <1>2, <1>3, <1>5 DEF Snug
  <1>15. Shape(t, B, lw, R, c)
    BY <1>7, <1>8, <1>9, <1>11 DEF Shape
  <1>16. Whole(t, B, lw, R, c)
    BY <1>2, <1>12, <1>13, <1>15 DEF Whole
  <1>17. Attachable(t, B, lw, R, c, n, x)
    <2>1. n \in A /\ ~ IsData(n) /\ ld[x] = lv[n] + 1 /\ (IsData(x) <=> Leaf(t, n))
      BY DEF Joinable, Reached
    <2>2. x # t.root /\ x \in R /\ n \in B /\ lw[x] = lw[n] + 1
      BY <2>1, <1>1, <1>3, <1>5, <1>6
    <2> QED BY <2>1, <2>2, <1>15 DEF Attachable
  <1>18. \E P : Path(t, B, lw, R, n, P)
    <2>1. PICK P : Path(t, A, lv, {t.root}, n, P)
      BY DEF Joinable, Reached
    <2>2. Path(t, B, lw, R, n, P)
      <3> SUFFICES ASSUME ~ t.twin
                   PROVE  Path(t, B, lw, R, n, P)
        BY DEF Path
      <3>1. /\ P \subseteq A /\ n \in P
            /\ \A y \in P : lv[y] <= lv[n] /\ (y # t.root => Up(t, y) \in P /\ y \in ToSet(Items(t, Up(t, y))))
            /\ \A y, z \in P : lv[y] = lv[z] => y = z
        BY <2>1 DEF Path
      <3>2. P \subseteq B /\ \A y \in P : lw[y] = lv[y] /\ y # x
        BY <3>1, <1>3, <1>5, <1>6
      <3> QED BY <3>1, <3>2, <1>1 DEF Path
    <2> QED BY <2>2
  <1> QED BY <1>1, <1>14, <1>16, <1>17, <1>18

-----------------------------------------------------------------------------
(* A part put back below a node, and an object inserted. *)

LEMMA JoinedIs ==
  ASSUME NEW t, NEW A, NEW lv, NEW c \in Int, NEW D, NEW ld, NEW n, NEW x, Joinable(t, A, lv, c, D, ld, n, x)
  PROVE  IsAdded(t, A \cup D, c, x, AddEntry(t, n, x))
  <1>1. PICK lw : lw = Both(A, lv, D, ld)
    OBVIOUS
  <1>2. /\ Whole(t, A \cup D, lw, {t.root} \cup {x}, c) /\ Snug(t, A \cup D, {})
        /\ Attachable(t, A \cup D, lw, {t.root} \cup {x}, c, n, x)
        /\ \E P : Path(t, A \cup D, lw, {t.root} \cup {x}, n, P)
    BY <1>1, JoinIs
  <1>3. PICK P : Path(t, A \cup D, lw, {t.root} \cup {x}, n, P)
    BY <1>2
  <1>4. PICK B : B = A \cup D
    OBVIOUS
  <1>5. IsAdded(t, B, c, x, AddEntry(t, n, x))
    BY <1>2, <1>3, <1>4, AddEntryIs
  <1> QED BY <1>4, <1>5

LEMMA WithDataIs ==
  ASSUME NEW t \in Trees, NEW o \in Nat, NEW b \in BoxSet
  PROVE  LET u == WithData(t, o, b)
         IN  /\ u \in Trees /\ Names(u) = {o} \cup Names(t) /\ SameTop(t, u)
             /\ Items(u, o) = <<>> /\ Bound(u, o) = b /\ ~ Leaf(u, o) /\ Up(u, o) = Nil
             /\ \A n \in Names(t) \ {o} : Alike(t, u, n)
  <1>1. PICK f : f = NodeOf(<<>>, b, FALSE, Nil)
    OBVIOUS
  <1>2. f \in Fields /\ f.items = <<>> /\ f.bound = b /\ f.leaf = FALSE /\ f.up = Nil
    <2>1. <<>> \in Seq(Int) /\ Nil \in Int
      BY DEF Nil
    <2> QED BY <1>1, <2>1 DEF NodeOf, Fields
  <1>3. PICK u : u = Put(t, o, f)
    OBVIOUS
  <1>4. /\ u \in Trees /\ Names(u) = {o} \cup Names(t) /\ SameTop(t, u)
        /\ \A x \in Names(u) : u.node[x] = IF x = o THEN f ELSE t.node[x]
    <2>1. o \in Int /\ o # -1
      OBVIOUS
    <2> QED BY <2>1, <1>2, <1>3, PutIs
  <1>5. WithData(t, o, b) = u
    BY <1>1, <1>3 DEF WithData
  <1>6. u.node[o] = f /\ \A n \in Names(t) \ {o} : u.node[n] = t.node[n]
    BY <1>4
  <1> QED BY <1>2, <1>4, <1>5, <1>6 DEF Items, Bound, Leaf, Up, Alike

\* What putting an object o with box b into tree t keeps.
Puts(t, u, A, o, b) ==
  /\ Names(t) \cup {o} \subseteq Names(u) /\ (\A n \in Names(u) \ (Names(t) \cup {o}) : ~ IsData(n))
  /\ Bound(u, o) = b
  /\ \A n \in Names(t) \ {o} : Leaf(u, n) = Leaf(t, n) /\ (IsData(n) => Bound(u, n) = Bound(t, n))
  /\ \A n \in Names(t) \ (A \cup {o}) : Alike(t, u, n)
  /\ u.lopped = t.lopped /\ u.skewed = t.skewed /\ (~ u.twin => ~ t.twin) /\ (~ u.tied => ~ t.tied)

IsInserted(t, A, c, o, b, size, u) ==
  /\ Puts(t, u, A, o, b) /\ u.size = size
  /\ \E lw, g : Tops(t, o, u, g) /\ Settled(u, Grew(A \cup {o}, t, u), lw, c + g)

Sized(t, k) == [t EXCEPT !.size = k]

LEMMA SizedIs ==
  ASSUME NEW t \in Trees, NEW k \in Int
  PROVE  LET u == Sized(t, k)
         IN  /\ u \in Trees /\ Names(u) = Names(t) /\ u.node = t.node /\ u.root = t.root /\ u.height = t.height
             /\ u.size = k /\ u.twin = t.twin /\ u.tied = t.tied /\ u.lopped = t.lopped /\ u.skewed = t.skewed
  <1> DEFINE All == [root : Int, size : Int, height : Nat, node : Nodes,
                     twin : BOOLEAN, tied : BOOLEAN, lopped : BOOLEAN, skewed : BOOLEAN]
  <1>1. t \in All
    BY DEF Trees
  <1>2. PICK u : u = Sized(t, k)
    OBVIOUS
  <1>3. /\ u \in All /\ u.node = t.node /\ u.root = t.root /\ u.height = t.height
        /\ u.size = k /\ u.twin = t.twin /\ u.tied = t.tied /\ u.lopped = t.lopped /\ u.skewed = t.skewed
    BY <1>1, <1>2 DEF Sized
  <1>4. IsFiniteSet(DOMAIN u.node) /\ u.root \in DOMAIN u.node /\ -2 \in DOMAIN u.node /\ -1 \notin DOMAIN u.node
    BY <1>3, TreeIs DEF Names
  <1>5. u \in Trees
    BY <1>3, <1>4 DEF Trees
  <1> QED BY <1>2, <1>3, <1>5 DEF Names

\* The count is nothing to the shape.
LEMMA SizedSettled ==
  ASSUME NEW t, NEW A, NEW lv, NEW c, Settled(t, A, lv, c), NEW k \in Int
  PROVE  Settled(Sized(t, k), A, lv, c)
  <1>1. t \in Trees /\ A \subseteq Names(t) /\ Linked(t) /\ Fits(t, {})
    BY DEF Settled, Whole, Shape, Levels
  <1>2. PICK u : u = Sized(t, k)
    OBVIOUS
  <1>3. /\ u \in Trees /\ Names(u) = Names(t) /\ u.node = t.node /\ u.root = t.root /\ u.height = t.height
        /\ u.twin = t.twin /\ u.tied = t.tied
    BY <1>1, <1>2, SizedIs
  <1>4. Agree(t, u, A)
    BY <1>1, <1>3 DEF Agree, Alike, Items, Bound, Leaf, Up
  <1>5. Linked(u) /\ Fits(u, {})
    BY <1>1, <1>3 DEF Linked, Fits, Items, Up
  <1>6. Settled(u, A, lv, c)
    BY <1>3, <1>4, <1>5, AgreeSettled
  <1> QED BY <1>2, <1>6

LEMMA InsertLeafIs ==
  ASSUME NEW t, NEW A, NEW lv, NEW c \in Int, Settled(t, A, lv, c), NEW o \in Nat, o \notin A, NEW b \in BoxSet,
         NEW re \in BOOLEAN
  PROVE  IsInserted(t, A, c, o, b, IF re THEN t.size ELSE t.size + 1, InsertLeaf(t, o, b, re))
  <1>1. t \in Trees /\ A \subseteq Names(t) /\ Linked(t) /\ Fits(t, {}) /\ lv \in [A -> Nat] /\ t.root \in A
    BY DEF Settled, Whole, Shape, Levels
  <1>2. PICK n : n = ChooseLeaf(t, b)
    OBVIOUS
  <1>3. Reached(t, A, lv, n) /\ Leaf(t, n) /\ n \in A
    <2>1. Reached(t, A, lv, n) /\ Leaf(t, n)
      BY <1>2, ChooseLeafIs
    <2> QED BY <2>1 DEF Reached
  <1>4. PICK v : v = WithData(t, o, b)
    OBVIOUS
  <1>5. /\ v \in Trees /\ Names(v) = {o} \cup Names(t) /\ SameTop(t, v)
        /\ Items(v, o) = <<>> /\ Bound(v, o) = b /\ ~ Leaf(v, o) /\ Up(v, o) = Nil
        /\ \A m \in Names(t) \ {o} : Alike(t, v, m)
    BY <1>1, <1>4, WithDataIs
  <1>6. Linked(v) /\ Fits(v, {})
    <2>0. Len(<<>>) <= MaxChildItems /\ Len(<<>>) <= MaxChildItems + 1 /\ ToSet(<<>>) = {}
      BY RtreeAssumption DEF ToSet
    <2>1. Linked(v)
      BY <1>1, <1>5, <2>0 DEF Linked, Alike
    <2>2. Fits(v, {})
      BY <1>1, <1>5, <2>0 DEF Fits, Alike
    <2> QED BY <2>1, <2>2
  <1>7. Agree(t, v, A) /\ v.root = t.root /\ v.height = t.height /\ v.twin = t.twin /\ v.tied = t.tied
    <2>1. \A m \in A : m \in Names(t) \ {o}
      BY <1>1
    <2> QED BY <2>1, <1>1, <1>5 DEF Agree, SameTop
  <1>8. Settled(v, A, lv, c)
    BY <1>6, <1>7, AgreeSettled
  <1>9. Reached(v, A, lv, n)
    BY <1>3, <1>7, AgreeReached
  <1>10. PICK D, ld : D = {o} /\ ld = [x \in {o} |-> lv[n] + 1]
    OBVIOUS
  <1>11. ld \in [D -> Nat] /\ ld[o] = lv[n] + 1 /\ ld[o] >= 1 /\ IsData(o)
    <2>1. lv[n] \in Nat
      BY <1>1, <1>3
    <2> QED BY <2>1, <1>10 DEF IsData
  <1>12. Hanging(v, D, ld, o, c)
    <2>1. Kinds(v, D, ld, c)
      <3>1. IsInjective(<<>>)
        BY DEF IsInjective
      <3> QED BY <3>1, <1>5, <1>10, <1>11 DEF Kinds
    <2>2. Downward(v, D, ld, {o}) /\ Owned(v, D)
      <3>1. ToSet(Items(v, o)) = {}
        BY <1>5 DEF ToSet
      <3> QED BY <3>1, <1>10 DEF Downward, Owned
    <2>3. Upward(v, D, ld, {o}) /\ Full(v, D, {o})
      BY <1>10, <1>11 DEF Upward, Full
    <2>4. Snug(v, D, {})
      BY <1>5, <1>10 DEF Snug
    <2>5. v.root \notin D
      BY <1>1, <1>7, <1>10
    <2>6. \A m \in D : ld[m] >= 1 /\ (~ IsData(m) => ld[m] <= v.height)
      BY <1>10, <1>11
    <2> QED BY <2>1, <2>2, <2>3, <2>4, <2>5, <2>6, <1>5, <1>10, <1>11 DEF Hanging
  <1>13. Joinable(v, A, lv, c, D, ld, n, o)
    <2>1. IsData(o) <=> Leaf(v, n)
      BY <1>3, <1>7, <1>11 DEF Agree, Alike
    <2> QED BY <2>1, <1>8, <1>9, <1>10, <1>11, <1>12 DEF Joinable
  <1>14. PICK w : w = AddEntry(v, n, o)
    OBVIOUS
  <1>15. IsAdded(v, A \cup {o}, c, o, w)
    BY <1>10, <1>13, <1>14, JoinedIs
  <1>16. PICK B, lw, g : Tops(v, o, w, g) /\ Settled(w, B, lw, c + g) /\ Keeps(v, w, A \cup {o}) /\ B = Grew(A \cup {o}, v, w)
    BY <1>15 DEF IsAdded
  <1>17. w \in Trees
    BY <1>16 DEF Settled, Whole
  <1>18. PICK k \in Int : k = IF re THEN t.size ELSE t.size + 1
    BY <1>1, TreeIs
  <1>19. PICK u : u = Sized(w, k)
    OBVIOUS
  <1>20. /\ u \in Trees /\ Names(u) = Names(w) /\ u.node = w.node /\ u.root = w.root /\ u.height = w.height
         /\ u.size = k /\ u.twin = w.twin /\ u.tied = w.tied /\ u.lopped = w.lopped /\ u.skewed = w.skewed
    BY <1>17, <1>19, SizedIs
  <1>21. \A m : Items(u, m) = Items(w, m) /\ Bound(u, m) = Bound(w, m) /\ Leaf(u, m) = Leaf(w, m) /\ Up(u, m) = Up(w, m)
    BY <1>20 DEF Items, Bound, Leaf, Up
  <1>22. Settled(u, B, lw, c + g)
    BY <1>16, <1>19, SizedSettled
  <1>23. Tops(t, o, u, g)
    <2>1. Items(v, v.root) = Items(t, t.root)
      BY <1>1, <1>7 DEF Agree, Alike
    <2>2. Strays(u) = Strays(w)
      BY <1>20, <1>21 DEF Strays
    <2>3. Strays(v) \ {o} \subseteq Strays(t)
      <3>1. \A y \in Names(v) \ {o} : y \in Names(t) /\ Up(v, y) = Up(t, y)
        BY <1>5 DEF Alike
      <3> QED BY <3>1, <2>1, <1>7 DEF Strays
    <2>4. Waiting(o) = {o}
      BY DEF Waiting, Nil
    <2>5. g = 0 => Strays(w) \subseteq Strays(v) \ {o} /\ Strays(v) \ {o} \subseteq Strays(t)
      BY <2>3, <2>4, <1>16 DEF Tops
    <2>6. g = 0 => Strays(u) \subseteq Strays(t) \ {o}
      BY <2>2, <2>5
    <2> QED BY <2>1, <2>4, <2>6, <1>7, <1>16, <1>20, <1>21 DEF Tops
  <1>24. /\ Names(v) \subseteq Names(w) /\ \A m \in Names(w) \ Names(v) : ~ IsData(m)
         /\ \A m \in Names(v) : Leaf(w, m) = Leaf(v, m) /\ (IsData(m) => Bound(w, m) = Bound(v, m))
         /\ \A m \in Names(v) \ (A \cup {o}) : Items(w, m) = Items(v, m) /\ Up(w, m) = Up(v, m) /\ Bound(w, m) = Bound(v, m)
         /\ w.lopped = v.lopped /\ w.skewed = v.skewed
         /\ (~ w.twin => ~ v.twin) /\ (~ w.tied => ~ v.tied)
    BY <1>16 DEF Keeps
  <1>25. Puts(t, u, A, o, b)
    <2>1. \A m \in Names(t) \ {o} : Leaf(u, m) = Leaf(t, m) /\ (IsData(m) => Bound(u, m) = Bound(t, m))
      BY <1>5, <1>21, <1>24 DEF Alike
    <2>2. \A m \in Names(t) \ (A \cup {o}) : Alike(t, u, m)
      BY <1>5, <1>21, <1>24 DEF Alike
    <2>3. Bound(u, o) = b
      BY <1>5, <1>11, <1>21, <1>24
    <2>4. Names(t) \cup {o} \subseteq Names(u) /\ (\A m \in Names(u) \ (Names(t) \cup {o}) : ~ IsData(m))
      BY <1>5, <1>20, <1>24
    <2>5. u.lopped = t.lopped /\ u.skewed = t.skewed /\ (~ u.twin => ~ t.twin) /\ (~ u.tied => ~ t.tied)
      BY <1>5, <1>20, <1>24 DEF SameTop
    <2> QED BY <2>1, <2>2, <2>3, <2>4, <2>5 DEF Puts
  <1>26. B = Grew(A \cup {o}, t, u)
    BY <1>5, <1>16, <1>20, <1>24 DEF Grew
  <1>27. InsertLeaf(t, o, b, re) = u
    BY <1>2, <1>4, <1>14, <1>18, <1>19 DEF InsertLeaf, Sized
  <1>28. \E ly, h : Tops(t, o, u, h) /\ Settled(u, Grew(A \cup {o}, t, u), ly, c + h)
    BY <1>22, <1>23, <1>26
  <1> QED BY <1>18, <1>20, <1>25, <1>27, <1>28 DEF IsInserted

-----------------------------------------------------------------------------
(* The levels of a tree *)

LevelsStep(t, k, h) ==
  [i \in 1..k |-> IF i = 1 THEN {t.root} ELSE UNION {ToSet(Items(t, n)) : n \in h[i - 1]}]

LevelsOf(t, k) == CHOOSE h : h = LevelsStep(t, k, h)

LEMMA LevelsOfIs ==
  ASSUME NEW t \in Trees, Linked(t), NEW k \in Nat \ {0}
  PROVE  LET h == LevelsOf(t, k)
         IN  /\ h[1] = {t.root} /\ AtLevel(t, k) = h[k]
             /\ \A i \in 2..k : h[i] = UNION {ToSet(Items(t, n)) : n \in h[i - 1]}
             /\ \A i \in 1..k : h[i] \in SUBSET Names(t)
  <1> DEFINE W == [i \in 1..k |-> SUBSET Names(t)]
             T(v) == UNION {ToSet(Items(t, n)) : n \in v}
             G == [iv \in (2..k) \X SUBSET Names(t) |-> T(iv[2])]
             base == {t.root}
  <1>1. base \in W[1]
    BY TreeIs
  <1>2. ASSUME NEW i \in 2..k, NEW v \in W[i - 1]
        PROVE  v \in SUBSET Names(t) /\ T(v) \in W[i]
    <2>1. i - 1 \in 1..k /\ i \in 1..k
      OBVIOUS
    <2>2. v \in SUBSET Names(t)
      BY <2>1
    <2>3. T(v) \in SUBSET Names(t)
      BY <2>2 DEF Linked
    <2> QED BY <2>1, <2>2, <2>3
  <1>3. \A i \in 2..k : \A v \in W[i - 1] : G[<<i, v>>] = T(v)
    <2> SUFFICES ASSUME NEW i \in 2..k, NEW v \in W[i - 1]
                 PROVE  G[<<i, v>>] = T(v)
      OBVIOUS
    <2>1. v \in SUBSET Names(t)
      BY <1>2
    <2> HIDE DEF W, T
    <2> QED BY <2>1
  <1> HIDE DEF W, G, T, base
  <1>4. Turns1(k, W, base, G)
    BY <1>1, <1>2, <1>3 DEF Turns1
  <1>5. PICK f : Turned1(f, k, W, base, G)
    BY <1>4, Loop1Exists
  <1>6. f = LevelsStep(t, k, f)
    <2>1. \A i \in 2..k : i \in 1..k /\ i - 1 \in 1..k /\ i # 1
      OBVIOUS
    <2>2. \A i \in 2..k : f[i] = T(f[i - 1])
      BY <2>1, <1>3, <1>5 DEF Turned1
    <2>3. \A i \in 1..k : f[i] = IF i = 1 THEN base ELSE T(f[i - 1])
      <3>1. \A i \in 1..k : i = 1 \/ i \in 2..k
        OBVIOUS
      <3> QED BY <2>1, <2>2, <3>1, <1>5 DEF Turned1
    <2>4. f = [i \in 1..k |-> f[i]]
      BY <1>5 DEF Turned1
    <2>5. f = [i \in 1..k |-> IF i = 1 THEN base ELSE T(f[i - 1])]
      BY <2>3, <2>4
    <2> QED BY <2>5 DEF LevelsStep, T, base
  <1>7. PICK h : h = LevelsOf(t, k)
    OBVIOUS
  <1>8. h = LevelsStep(t, k, h)
    BY <1>6, <1>7 DEF LevelsOf
  <1>9. h[1] = base /\ \A i \in 2..k : h[i] = T(h[i - 1])
    <2>1. 1 \in 1..k /\ \A i \in 2..k : i \in 1..k /\ i # 1
      OBVIOUS
    <2>2. h = [i \in 1..k |-> IF i = 1 THEN base ELSE T(h[i - 1])]
      BY <1>8 DEF LevelsStep, T, base
    <2>3. \A i \in 1..k : h[i] = IF i = 1 THEN base ELSE T(h[i - 1])
      BY <2>2
    <2> QED BY <2>1, <2>3
  <1>10. \A i \in 2..k : h[i - 1] \in W[i - 1] => h[i] \in W[i]
    BY <1>2, <1>9
  <1>11. \A i \in 1..k : h[i] \in W[i]
    <2>1. h[1] \in W[1]
      BY <1>1, <1>9
    <2> QED BY <2>1, <1>10, Loop1Stays
  <1>12. \A i \in 1..k : h[i] \in SUBSET Names(t)
    BY <1>11 DEF W
  <1>13. AtLevel(t, k) = h[k]
    BY <1>7 DEF AtLevel, LevelsOf, LevelsStep
  <1> QED BY <1>7, <1>9, <1>12, <1>13 DEF T, base

\* What V[i] holds of each level i.
LEMMA LevelWithin ==
  ASSUME NEW t \in Trees, Linked(t), NEW k \in Nat \ {0}, NEW V, t.root \in V[1],
         \A i \in 2..k : \A n \in V[i - 1] : ToSet(Items(t, n)) \subseteq V[i]
  PROVE  AtLevel(t, k) \subseteq V[k]
  <1>1. PICK h : h = LevelsOf(t, k)
    OBVIOUS
  <1>2. /\ h[1] = {t.root} /\ AtLevel(t, k) = h[k]
        /\ \A i \in 2..k : h[i] = UNION {ToSet(Items(t, n)) : n \in h[i - 1]}
    BY <1>1, LevelsOfIs
  <1> DEFINE W == [i \in 1..k |-> SUBSET V[i]]
  <1>3. h[1] \in W[1]
    BY <1>2
  <1>4. ASSUME NEW i \in 2..k, h[i - 1] \in W[i - 1]
        PROVE  h[i] \in W[i]
    <2>1. i - 1 \in 1..k /\ i \in 1..k
      OBVIOUS
    <2>2. h[i - 1] \subseteq V[i - 1]
      BY <2>1, <1>4
    <2>3. h[i] \subseteq V[i]
      BY <2>2, <1>2
    <2> QED BY <2>1, <2>3
  <1>5. k \in 1..k
    OBVIOUS
  <1>6. h[k] \in W[k]
    <2> HIDE DEF W
    <2>1. \A i \in 1..k : h[i] \in W[i]
      BY <1>3, <1>4, Loop1Stays
    <2> QED BY <2>1, <1>5
  <1> QED BY <1>2, <1>5, <1>6

LEMMA LevelCovers ==
  ASSUME NEW t \in Trees, Linked(t), NEW k \in Nat \ {0}, NEW V, V[1] \subseteq {t.root},
         \A i \in 2..k : \A x \in V[i] : \E n \in V[i - 1] : x \in ToSet(Items(t, n))
  PROVE  V[k] \subseteq AtLevel(t, k)
  <1>1. PICK h : h = LevelsOf(t, k)
    OBVIOUS
  <1>2. /\ h[1] = {t.root} /\ AtLevel(t, k) = h[k]
        /\ \A i \in 2..k : h[i] = UNION {ToSet(Items(t, n)) : n \in h[i - 1]}
        /\ \A i \in 1..k : h[i] \in SUBSET Names(t)
    BY <1>1, LevelsOfIs
  <1> DEFINE W == [i \in 1..k |-> {v \in SUBSET Names(t) : V[i] \subseteq v}]
  <1>3. h[1] \in W[1]
    <2>1. 1 \in 1..k
      OBVIOUS
    <2> QED BY <2>1, <1>2
  <1>4. ASSUME NEW i \in 2..k, h[i - 1] \in W[i - 1]
        PROVE  h[i] \in W[i]
    <2>1. i - 1 \in 1..k /\ i \in 1..k
      OBVIOUS
    <2>2. V[i - 1] \subseteq h[i - 1]
      BY <2>1, <1>4
    <2>3. V[i] \subseteq h[i]
      BY <2>2, <1>2
    <2> QED BY <2>1, <2>3, <1>2
  <1>5. k \in 1..k
    OBVIOUS
  <1>6. h[k] \in W[k]
    <2> HIDE DEF W
    <2>1. \A i \in 1..k : h[i] \in W[i]
      BY <1>3, <1>4, Loop1Stays
    <2> QED BY <2>1, <1>5
  <1> QED BY <1>2, <1>5, <1>6

LEMMA AtLevelIs ==
  ASSUME NEW t, NEW A, NEW lv, NEW c, Settled(t, A, lv, c), NEW k \in Nat \ {0}
  PROVE  /\ AtLevel(t, k) \subseteq {n \in A : lv[n] = k}
         /\ ~ t.tied => {n \in A : lv[n] = k} \subseteq AtLevel(t, k)
  <1>1. /\ t \in Trees /\ Linked(t) /\ Levels(t, A, lv, {t.root}) /\ Downward(t, A, lv, {t.root})
        /\ Upward(t, A, lv, {t.root}) /\ Full(t, A, {t.root})
    BY DEF Settled, Whole, Shape
  <1>2. t.root \in A /\ lv[t.root] = 1 /\ lv \in [A -> Nat] /\ \A n \in A : lv[n] >= 1
    BY <1>1 DEF Levels
  <1>3. PICK V : V = [i \in 1..k |-> {n \in A : lv[n] = i}]
    OBVIOUS
  <1>4. /\ \A i \in 1..k : V[i] = {n \in A : lv[n] = i}
        /\ 1 \in 1..k /\ k \in 1..k /\ \A i \in 2..k : i \in 1..k /\ i - 1 \in 1..k /\ i # 1
    BY <1>3
  <1>5. AtLevel(t, k) \subseteq V[k]
    <2>1. t.root \in V[1]
      BY <1>2, <1>4
    <2>2. ASSUME NEW i \in 2..k, NEW n \in V[i - 1]
          PROVE  ToSet(Items(t, n)) \subseteq V[i]
      <3>1. n \in A /\ lv[n] = i - 1
        BY <2>2, <1>4
      <3>2. \A x \in ToSet(Items(t, n)) : x \in A /\ lv[x] = lv[n] + 1
        BY <3>1, <1>1 DEF Downward
      <3> QED BY <3>1, <3>2, <1>4
    <2> QED BY <2>1, <2>2, <1>1, LevelWithin
  <1>6. ~ t.tied => V[k] \subseteq AtLevel(t, k)
    <2> SUFFICES ASSUME ~ t.tied
                 PROVE  V[k] \subseteq AtLevel(t, k)
      OBVIOUS
    <2>0. \A n \in A : n # t.root => Up(t, n) \in A /\ lv[n] = lv[Up(t, n)] + 1 /\ n \in ToSet(Items(t, Up(t, n)))
      BY <1>1 DEF Upward, Full
    <2>1. V[1] \subseteq {t.root}
      <3> SUFFICES ASSUME NEW n \in A, lv[n] = 1, n # t.root
                   PROVE  FALSE
        BY <1>4
      <3>1. Up(t, n) \in A /\ lv[n] = lv[Up(t, n)] + 1
        BY <2>0
      <3>2. lv[Up(t, n)] \in Nat /\ lv[Up(t, n)] >= 1
        BY <3>1, <1>2
      <3> QED BY <3>1, <3>2
    <2>2. ASSUME NEW i \in 2..k, NEW x \in V[i]
          PROVE  \E n \in V[i - 1] : x \in ToSet(Items(t, n))
      <3>1. x \in A /\ lv[x] = i
        BY <2>2, <1>4
      <3>2. x # t.root
        BY <3>1, <1>2, <1>4
      <3>3. Up(t, x) \in A /\ lv[x] = lv[Up(t, x)] + 1 /\ x \in ToSet(Items(t, Up(t, x)))
        BY <3>1, <3>2, <2>0
      <3>4. lv[Up(t, x)] \in Nat
        BY <3>3, <1>2
      <3>5. lv[Up(t, x)] = i - 1
        BY <3>1, <3>3, <3>4
      <3> QED BY <3>3, <3>5, <1>4
    <2> QED BY <2>1, <2>2, <1>1, LevelCovers
  <1> QED BY <1>4, <1>5, <1>6

LEMMA BelowIs ==
  ASSUME NEW t, NEW A, NEW lv, NEW c, Settled(t, A, lv, c)
  PROVE  Below(t) \subseteq A /\ (~ t.tied => Below(t) = A)
  <1>1. /\ t \in Trees /\ Levels(t, A, lv, {t.root}) /\ Upward(t, A, lv, {t.root}) /\ t.height \in Nat
    BY TreeIs DEF Settled, Whole, Shape
  <1>2. \A k \in 1..(t.height + 1) : k \in Nat \ {0}
    BY <1>1
  <1>3. Below(t) \subseteq A
    <2>1. \A k \in 1..(t.height + 1) : AtLevel(t, k) \subseteq A
      BY <1>2, AtLevelIs
    <2> QED BY <2>1 DEF Below
  <1>4. ASSUME ~ t.tied, NEW n \in A
        PROVE  n \in Below(t)
    <2>1. lv[n] \in 1..(t.height + 1)
      <3>0. lv[n] \in Nat /\ lv[n] >= 1 /\ ~ IsData(t.root)
        BY <1>1 DEF Levels
      <3>1. CASE ~ IsData(n)
        BY <3>0, <3>1, <1>1 DEF Levels
      <3>2. CASE IsData(n)
        <4>1. Up(t, n) \in A /\ ~ IsData(Up(t, n)) /\ lv[n] = lv[Up(t, n)] + 1
          BY <3>0, <3>2, <1>1 DEF Upward
        <4>2. lv[Up(t, n)] \in Nat /\ lv[Up(t, n)] <= t.height
          BY <4>1, <1>1 DEF Levels
        <4> QED BY <3>0, <4>1, <4>2, <1>1
      <3> QED BY <3>1, <3>2
    <2>2. n \in AtLevel(t, lv[n])
      BY <2>1, <1>2, <1>4, AtLevelIs
    <2> QED BY <2>1, <2>2 DEF Below
  <1> QED BY <1>3, <1>4

-----------------------------------------------------------------------------
(* What a tree holds *)

\* Tree t holds the objects p of map m, and no others unless a deletion took a subtree.
Holding(t, m, p, A, lv, c) ==
  /\ Settled(t, A, lv, c) /\ c \in Int /\ (~ t.skewed => c = t.height)
  /\ ~ t.tied /\ ~ Leaf(t, t.root) => Len(Items(t, t.root)) >= 2
  /\ \A o \in A : IsData(o) => o \in DOMAIN m /\ Bound(t, o) = m[o].box
  /\ ~ t.lopped => {o \in A : IsData(o)} = p /\ t.size = Cardinality(p)

Holds(t, m, p) == \E A, lv, c : Holding(t, m, p, A, lv, c)

\* No deletion in between took a subtree.
SameLopped(t, u) == u.lopped = t.lopped

LEMMA MapIs ==
  ASSUME NEW m \in Maps, NEW o \in DOMAIN m
  PROVE  o \in Nat /\ m[o].box \in BoxSet
  BY RtreeAssumption

LEMMA InsertedHolds ==
  ASSUME NEW t, NEW m \in Maps, NEW p, IsFiniteSet(p), NEW A, NEW lv, NEW c, Holding(t, m, p, A, lv, c),
         NEW o \in DOMAIN m, o \notin p, o \notin A, NEW u, u = Inserted(t, o, m[o].box)
  PROVE  Holds(u, m, p \cup {o}) /\ ~ IsData(t.root) /\ u \in Trees /\ SameLopped(t, u)
  <1>1. o \in Nat /\ m[o].box \in BoxSet /\ IsData(o)
    BY MapIs DEF IsData
  <1>2. PICK b : b = m[o].box
    OBVIOUS
  <1>3. /\ Settled(t, A, lv, c) /\ c \in Int /\ t \in Trees /\ A \subseteq Names(t) /\ t.root \in A /\ ~ IsData(t.root)
        /\ t.root \in Names(t) \ {o}
    BY DEF Holding, Settled, Whole, Shape, Levels
  <1>4. u = Inserted(t, o, b)
    BY <1>2
  <1>5. u = InsertLeaf(t, o, b, FALSE)
    BY <1>3, <1>4 DEF Inserted
  <1>6. IsInserted(t, A, c, o, b, t.size + 1, u)
    <2>1. IsInserted(t, A, c, o, b, IF FALSE THEN t.size ELSE t.size + 1, InsertLeaf(t, o, b, FALSE))
      BY <1>1, <1>2, <1>3, InsertLeafIs
    <2> QED BY <2>1, <1>5
  <1>7. PICK B, lw, g : Tops(t, o, u, g) /\ Settled(u, B, lw, c + g) /\ B = Grew(A \cup {o}, t, u)
    BY <1>6 DEF IsInserted
  <1>8. Puts(t, u, A, o, b) /\ u.size = t.size + 1
    BY <1>6 DEF IsInserted
  <1>9. /\ (\A n \in Names(u) \ (Names(t) \cup {o}) : ~ IsData(n)) /\ Bound(u, o) = b
        /\ (\A n \in Names(t) \ {o} : Leaf(u, n) = Leaf(t, n) /\ (IsData(n) => Bound(u, n) = Bound(t, n)))
        /\ u.lopped = t.lopped /\ u.skewed = t.skewed /\ (~ u.tied => ~ t.tied)
    BY <1>8 DEF Puts
  <1>10. {x \in B : IsData(x)} = {x \in A : IsData(x)} \cup {o}
    BY <1>1, <1>3, <1>7, <1>9 DEF Grew
  <1>11. c + g \in Int /\ (~ u.skewed => c + g = u.height)
    <2>1. g \in {0, 1} /\ u.height = t.height + g /\ t.height \in Nat
      BY <1>3, <1>7, TreeIs DEF Tops
    <2> QED BY <2>1, <1>3, <1>9 DEF Holding
  <1>12. ~ u.tied /\ ~ Leaf(u, u.root) => Len(Items(u, u.root)) >= 2
    <2> SUFFICES ASSUME ~ u.tied, ~ Leaf(u, u.root)
                 PROVE  Len(Items(u, u.root)) >= 2
      OBVIOUS
    <2>1. CASE g = 0
      <3>1. u.root = t.root /\ Len(Items(u, u.root)) >= Len(Items(t, t.root))
        BY <2>1, <1>7 DEF Tops
      <3>2. ~ Leaf(t, t.root)
        BY <3>1, <1>3, <1>9
      <3>3. Len(Items(t, t.root)) >= 2
        BY <3>2, <1>9 DEF Holding
      <3>4. PICK i \in Nat, j \in Nat : i = Len(Items(u, u.root)) /\ j = Len(Items(t, t.root))
        <4>1. u \in Trees
          BY <1>7 DEF Settled, Whole
        <4>2. Items(u, u.root) \in Seq(Int) /\ Items(t, t.root) \in Seq(Int)
          BY <4>1, <1>3, NodeIs, TreeIs
        <4> QED BY <4>2, SeqIs
      <3>5. i >= j /\ j >= 2
        BY <3>1, <3>3, <3>4
      <3> QED BY <3>4, <3>5
    <2>2. CASE g = 1
      <3>1. Len(Items(u, u.root)) = 2
        BY <2>2, <1>7 DEF Tops
      <3> QED BY <3>1
    <2>3. g = 0 \/ g = 1
      BY <1>7 DEF Tops
    <2> QED BY <2>1, <2>2, <2>3
  <1>13. \A x \in B : IsData(x) => x \in DOMAIN m /\ Bound(u, x) = m[x].box
    <2> SUFFICES ASSUME NEW x \in B, IsData(x)
                 PROVE  x \in DOMAIN m /\ Bound(u, x) = m[x].box
      OBVIOUS
    <2>1. CASE x = o
      BY <2>1, <1>2, <1>9
    <2>2. CASE x # o
      <3>1. x \in A
        BY <2>2, <1>10
      <3>2. x \in DOMAIN m /\ Bound(t, x) = m[x].box
        BY <3>1 DEF Holding
      <3>3. Bound(u, x) = Bound(t, x)
        BY <2>2, <3>1, <1>3, <1>9
      <3> QED BY <3>2, <3>3
    <2> QED BY <2>1, <2>2
  <1>14. ~ u.lopped => {x \in B : IsData(x)} = p \cup {o} /\ u.size = Cardinality(p \cup {o})
    <2>1. Cardinality(p \cup {o}) = Cardinality(p) + 1
      BY FS_AddElement
    <2> QED BY <2>1, <1>8, <1>9, <1>10 DEF Holding
  <1>15. Holding(u, m, p \cup {o}, B, lw, c + g)
    BY <1>7, <1>11, <1>12, <1>13, <1>14 DEF Holding
  <1>16. u \in Trees
    BY <1>7 DEF Settled, Whole
  <1> QED BY <1>2, <1>3, <1>4, <1>9, <1>15, <1>16 DEF Holds, SameLopped

LEMMA NewRtreeIs ==
  ASSUME NEW m
  PROVE  NewRtree \in Trees /\ Holds(NewRtree, m, {}) /\ ~ NewRtree.lopped
  <1>1. PICK t : t = NewRtree
    OBVIOUS
  <1>2. /\ t.root = -2 /\ t.size = 0 /\ t.height = 1
        /\ t.node = [n \in {-2} |-> NodeOf(<<>>, NoBox, TRUE, Nil)]
        /\ t.twin = FALSE /\ t.tied = FALSE /\ t.lopped = FALSE /\ t.skewed = FALSE
    BY <1>1 DEF NewRtree
  <1>3. Names(t) = {-2} /\ t.node[-2] = NodeOf(<<>>, NoBox, TRUE, Nil)
    BY <1>2 DEF Names
  <1>4. Items(t, -2) = <<>> /\ Leaf(t, -2) = TRUE /\ Up(t, -2) = Nil
    BY <1>3 DEF Items, Leaf, Up, NodeOf
  <1>5. t \in Trees
    <2>1. PICK f : f = NodeOf(<<>>, NoBox, TRUE, Nil)
      OBVIOUS
    <2>2. f \in Fields
      <3>1. NoBox \in BoxSet
        BY DEF NoBox, BoxSet
      <3>2. <<>> \in Seq(Int) /\ Nil \in Int
        BY DEF Nil
      <3> QED BY <2>1, <3>1, <3>2 DEF NodeOf, Fields
    <2>3. PICK F : F = [n \in {-2} |-> f]
      OBVIOUS
    <2>4. F \in [{-2} -> Fields] /\ DOMAIN F = {-2}
      BY <2>2, <2>3
    <2>5. F \in Nodes
      <3>1. {-2} \in SUBSET Int
        OBVIOUS
      <3> QED BY <2>4, <3>1 DEF Nodes
    <2>6. t = [root |-> -2, size |-> 0, height |-> 1, node |-> F,
               twin |-> FALSE, tied |-> FALSE, lopped |-> FALSE, skewed |-> FALSE]
      BY <1>1, <2>1, <2>3 DEF NewRtree
    <2>7. t \in [root : Int, size : Int, height : Nat, node : Nodes,
                 twin : BOOLEAN, tied : BOOLEAN, lopped : BOOLEAN, skewed : BOOLEAN]
      BY <2>5, <2>6
    <2>8. IsFiniteSet({-2})
      BY FS_Singleton
    <2>9. t.node = F
      BY <2>6
    <2> QED BY <1>2, <2>4, <2>7, <2>8, <2>9 DEF Trees
  <1>6. PICK A, lv : A = {-2} /\ lv = [x \in {-2} |-> 1]
    OBVIOUS
  <1>7. ToSet(Items(t, -2)) = {} /\ ~ IsData(-2) /\ IsInjective(<<>>) /\ Len(<<>>) = 0
    BY <1>4 DEF ToSet, IsData, IsInjective
  <1>8. lv \in [A -> Nat] /\ lv[-2] = 1
    BY <1>6
  <1>9. Levels(t, A, lv, {t.root})
    BY <1>2, <1>3, <1>6, <1>7, <1>8 DEF Levels
  <1>10. Kinds(t, A, lv, 1)
    BY <1>4, <1>6, <1>7, <1>8 DEF Kinds
  <1>11. Downward(t, A, lv, {t.root}) /\ Upward(t, A, lv, {t.root}) /\ Full(t, A, {t.root}) /\ Owned(t, A) /\ Snug(t, A, {})
    BY <1>2, <1>4, <1>6, <1>7 DEF Downward, Upward, Full, Owned, Snug
  <1>12. Linked(t) /\ Fits(t, {})
    <2>1. 0 <= MaxChildItems /\ 0 <= MaxChildItems + 1
      BY RtreeAssumption
    <2> QED BY <2>1, <1>3, <1>4, <1>7 DEF Linked, Fits
  <1>13. Settled(t, A, lv, 1)
    BY <1>5, <1>9, <1>10, <1>11, <1>12 DEF Settled, Whole, Shape
  <1>14. {o \in A : IsData(o)} = {} /\ Cardinality({}) = 0
    BY <1>6, <1>7, FS_EmptySet
  <1>15. Holding(t, m, {}, A, lv, 1)
    BY <1>2, <1>4, <1>6, <1>7, <1>13, <1>14 DEF Holding
  <1> QED BY <1>1, <1>2, <1>5, <1>15 DEF Holds

-----------------------------------------------------------------------------
(* Deserialize *)

Loaded(s, k) == {s[i] : i \in 1..k}

LoadStep(m, s, h) == [k \in 0..Len(s) |-> IF k = 0 THEN NewRtree ELSE Inserted(h[k - 1], s[k], m[s[k]].box)]

Loads(m, s) == CHOOSE h : h = LoadStep(m, s, h)

LEMMA LoadIs ==
  ASSUME NEW m \in Maps, NEW s \in Saved
  PROVE  /\ Holds(Load(m, s), m, ToSet(s)) /\ Load(m, s) \in Trees
         /\ ToSet(s) \subseteq DOMAIN m /\ IsFiniteSet(ToSet(s))
  <1> DEFINE l == Len(s)
             Good(k) == {u \in Trees : Holds(u, m, Loaded(s, k)) /\ ~ u.lopped}
             W == [k \in 0..l |-> Good(k)]
             T(k, v) == Inserted(v, s[k], m[s[k]].box)
             G == [kv \in (1..l) \X Trees |-> T(kv[1], kv[2])]
  <1>1. s \in Seq(Nat) /\ IsInjective(s) /\ ToSet(s) \subseteq DOMAIN m
    BY RtreeAssumption
  <1>2. l \in Nat /\ DOMAIN s = 1..l /\ ToSet(s) = Loaded(s, l) /\ IsFiniteSet(ToSet(s))
    BY <1>1, SeqIs, LenSet DEF Loaded
  <1> HIDE DEF l
  <1>3. \A k \in 1..l : s[k] \in DOMAIN m /\ s[k] \notin Loaded(s, k - 1) /\ Loaded(s, k) = Loaded(s, k - 1) \cup {s[k]}
                        /\ IsFiniteSet(Loaded(s, k - 1))
    <2> SUFFICES ASSUME NEW k \in 1..l
                 PROVE  s[k] \in DOMAIN m /\ s[k] \notin Loaded(s, k - 1) /\ Loaded(s, k) = Loaded(s, k - 1) \cup {s[k]}
                        /\ IsFiniteSet(Loaded(s, k - 1))
      OBVIOUS
    <2>1. s[k] \in DOMAIN m
      BY <1>1, <1>2 DEF Loaded
    <2>2. \A i \in 1..(k - 1) : i \in 1..l /\ i # k
      BY <1>2
    <2>3. s[k] \notin Loaded(s, k - 1)
      BY <2>2, <1>1, <1>2 DEF Loaded, IsInjective
    <2>4. Loaded(s, k) = Loaded(s, k - 1) \cup {s[k]}
      <3>1. \A i \in 1..k : i = k \/ i \in 1..(k - 1)
        BY <1>2
      <3>2. k \in 1..k /\ \A i \in 1..(k - 1) : i \in 1..k
        BY <1>2
      <3> QED BY <3>1, <3>2 DEF Loaded
    <2>5. Loaded(s, k - 1) \subseteq ToSet(s)
      BY <2>2, <1>2 DEF Loaded
    <2> QED BY <2>1, <2>3, <2>4, <2>5, <1>2, FS_Subset
  <1>4. NewRtree \in W[0]
    <2>1. Loaded(s, 0) = {}
      BY DEF Loaded
    <2>2. 0 \in 0..l
      BY <1>2
    <2> QED BY <2>1, <2>2, NewRtreeIs
  <1>5. ASSUME NEW k \in 1..l, NEW v \in W[k - 1]
        PROVE  v \in Trees /\ T(k, v) \in W[k]
    <2>1. k - 1 \in 0..l /\ k \in 0..l
      BY <1>2
    <2>2. v \in Trees /\ Holds(v, m, Loaded(s, k - 1)) /\ ~ v.lopped
      BY <2>1
    <2>3. PICK A, lv, c : Holding(v, m, Loaded(s, k - 1), A, lv, c)
      BY <2>2 DEF Holds
    <2>4. s[k] \notin A
      <3>1. IsData(s[k])
        BY <1>3, MapIs DEF IsData
      <3> QED BY <2>2, <2>3, <3>1, <1>3 DEF Holding
    <2>5. PICK p, o : p = Loaded(s, k - 1) /\ o = s[k]
      OBVIOUS
    <2>6. PICK u : u = Inserted(v, o, m[o].box)
      OBVIOUS
    <2> HIDE DEF T, W, Good
    <2>7. Holds(u, m, p \cup {o}) /\ u \in Trees /\ SameLopped(v, u)
      <3>1. IsFiniteSet(p) /\ Holding(v, m, p, A, lv, c) /\ o \in DOMAIN m /\ o \notin p /\ o \notin A
        BY <2>3, <2>4, <2>5, <1>3
      <3> QED BY <3>1, <2>6, InsertedHolds
    <2>8. T(k, v) \in Good(k)
      BY <2>2, <2>5, <2>6, <2>7, <1>3 DEF T, Good, SameLopped
    <2> QED BY <2>1, <2>2, <2>8 DEF W
  <1>6. \A k \in 1..l : \A v \in W[k - 1] : G[<<k, v>>] = T(k, v)
    <2> SUFFICES ASSUME NEW k \in 1..l, NEW v \in W[k - 1]
                 PROVE  G[<<k, v>>] = T(k, v)
      OBVIOUS
    <2>1. v \in Trees
      BY <1>5
    <2> HIDE DEF W, T
    <2> QED BY <2>1
  <1> HIDE DEF W, G, T, Good
  <1>7. Turns0(l, W, NewRtree, G)
    BY <1>4, <1>5, <1>6 DEF Turns0
  <1>8. PICK f : Turned0(f, l, W, NewRtree, G)
    BY <1>2, <1>7, LoopExists
  <1>9. f = LoadStep(m, s, f)
    <2>1. \A k \in 1..l : k \in 0..l /\ k - 1 \in 0..l /\ k # 0
      BY <1>2
    <2>2. \A k \in 1..l : f[k] = T(k, f[k - 1])
      BY <2>1, <1>6, <1>8 DEF Turned0
    <2>3. \A k \in 0..l : f[k] = IF k = 0 THEN NewRtree ELSE T(k, f[k - 1])
      <3>1. \A k \in 0..l : k = 0 \/ k \in 1..l
        BY <1>2
      <3> QED BY <2>1, <2>2, <3>1, <1>8 DEF Turned0
    <2>4. f = [k \in 0..l |-> f[k]]
      BY <1>8 DEF Turned0
    <2>5. f = [k \in 0..l |-> IF k = 0 THEN NewRtree ELSE T(k, f[k - 1])]
      BY <2>3, <2>4
    <2> QED BY <2>5 DEF LoadStep, T, l
  <1>10. PICK h : h = Loads(m, s)
    OBVIOUS
  <1>11. h = LoadStep(m, s, h)
    BY <1>9, <1>10 DEF Loads
  <1>12. h[0] = NewRtree /\ \A k \in 1..l : h[k] = T(k, h[k - 1])
    <2>1. 0 \in 0..l /\ \A k \in 1..l : k \in 0..l /\ k # 0
      BY <1>2
    <2>2. h = [k \in 0..l |-> IF k = 0 THEN NewRtree ELSE T(k, h[k - 1])]
      BY <1>11 DEF LoadStep, T, l
    <2>3. \A k \in 0..l : h[k] = IF k = 0 THEN NewRtree ELSE T(k, h[k - 1])
      BY <2>2
    <2> QED BY <2>1, <2>3
  <1>13. \A k \in 1..l : h[k - 1] \in W[k - 1] => h[k] \in W[k]
    BY <1>5, <1>12
  <1>14. h[l] \in W[l]
    <2>1. h[0] \in W[0]
      BY <1>4, <1>12
    <2>2. \A k \in 0..l : h[k] \in W[k]
      BY <1>2, <2>1, <1>13, LoopStays
    <2> QED BY <2>2, <1>2
  <1>15. Load(m, s) = h[l]
    BY <1>10 DEF Load, Loads, LoadStep, l
  <1>16. h[l] \in Good(l)
    <2>1. l \in 0..l
      BY <1>2
    <2> QED BY <2>1, <1>14 DEF W
  <1> QED BY <1>1, <1>2, <1>15, <1>16 DEF Good

-----------------------------------------------------------------------------
(* What hangs below a node *)

Closed(t, S) == \A y \in S : ToSet(Items(t, y)) \subseteq S

\* The node n and everything it leads to.
Desc(t, n) == {y \in Names(t) : \A S \in SUBSET Names(t) : n \in S /\ Closed(t, S) => y \in S}

LEMMA DescIs ==
  ASSUME NEW t \in Trees, Linked(t), NEW n \in Names(t)
  PROVE  /\ Desc(t, n) \subseteq Names(t) /\ n \in Desc(t, n) /\ Closed(t, Desc(t, n))
         /\ \A S \in SUBSET Names(t) : n \in S /\ Closed(t, S) => Desc(t, n) \subseteq S
  <1>1. Desc(t, n) \subseteq Names(t) /\ n \in Desc(t, n)
    BY DEF Desc
  <1>2. ASSUME NEW y \in Desc(t, n), NEW x \in ToSet(Items(t, y))
        PROVE  x \in Desc(t, n)
    <2>1. x \in Names(t)
      BY <1>1, <1>2 DEF Linked
    <2>2. ASSUME NEW S \in SUBSET Names(t), n \in S, Closed(t, S)
          PROVE  x \in S
      <3>1. y \in S
        BY <1>2, <2>2 DEF Desc
      <3> QED BY <3>1, <1>2, <2>2 DEF Closed
    <2> QED BY <2>1, <2>2 DEF Desc
  <1>3. Closed(t, Desc(t, n))
    BY <1>2 DEF Closed
  <1>4. \A S \in SUBSET Names(t) : n \in S /\ Closed(t, S) => Desc(t, n) \subseteq S
    BY DEF Desc
  <1> QED BY <1>1, <1>3, <1>4

\* Everything below a node is an entry of something below it.
LEMMA DescEntry ==
  ASSUME NEW t \in Trees, Linked(t), NEW n \in Names(t), NEW y \in Desc(t, n), y # n
  PROVE  \E p \in Desc(t, n) : y \in ToSet(Items(t, p))
  <1> DEFINE S == {n} \cup {x \in Names(t) : \E p \in Desc(t, n) : x \in ToSet(Items(t, p))}
  <1>1. /\ Desc(t, n) \subseteq Names(t) /\ n \in Desc(t, n) /\ Closed(t, Desc(t, n))
        /\ \A Z \in SUBSET Names(t) : n \in Z /\ Closed(t, Z) => Desc(t, n) \subseteq Z
    BY DescIs
  <1>2. S \in SUBSET Names(t) /\ n \in S
    OBVIOUS
  <1>3. S \subseteq Desc(t, n)
    BY <1>1 DEF Closed
  <1>4. Closed(t, S)
    <2>1. \A x \in S : ToSet(Items(t, x)) \subseteq Names(t)
      BY <1>2 DEF Linked
    <2>2. \A x \in S : \A z \in ToSet(Items(t, x)) : z \in S
      BY <2>1, <1>3
    <2> HIDE DEF S
    <2> QED BY <2>2 DEF Closed
  <1>5. y \in S
    BY <1>1, <1>2, <1>4
  <1> QED BY <1>5

LEMMA DescClosed ==
  ASSUME NEW t \in Trees, Linked(t), NEW n \in Names(t), NEW x \in Desc(t, n)
  PROVE  Desc(t, x) \subseteq Desc(t, n)
  <1>1. Desc(t, n) \in SUBSET Names(t) /\ Closed(t, Desc(t, n)) /\ x \in Names(t)
    BY DescIs
  <1> QED BY <1>1, DescIs

\* A node, and what is below its entries.
LEMMA DescUnion ==
  ASSUME NEW t \in Trees, Linked(t), NEW n \in Names(t)
  PROVE  Desc(t, n) = {n} \cup UNION {Desc(t, x) : x \in ToSet(Items(t, n))}
  <1> DEFINE S == {n} \cup UNION {Desc(t, x) : x \in ToSet(Items(t, n))}
  <1>1. ToSet(Items(t, n)) \subseteq Names(t)
    BY DEF Linked
  <1>2. n \in Desc(t, n) /\ ToSet(Items(t, n)) \subseteq Desc(t, n)
    BY DescIs DEF Closed
  <1>3. S \subseteq Desc(t, n)
    <2>1. \A x \in ToSet(Items(t, n)) : Desc(t, x) \subseteq Desc(t, n)
      BY <1>2, DescClosed
    <2> QED BY <2>1, <1>2
  <1>4. S \in SUBSET Names(t)
    BY <1>3, DescIs
  <1>5. Closed(t, S)
    <2>1. \A x \in ToSet(Items(t, n)) : x \in Desc(t, x) /\ Closed(t, Desc(t, x))
      BY <1>1, DescIs
    <2>2. \A y \in S : \A z \in ToSet(Items(t, y)) : z \in S
      <3> SUFFICES ASSUME NEW y \in S, NEW z \in ToSet(Items(t, y))
                   PROVE  z \in S
        OBVIOUS
      <3>1. CASE y = n
        BY <3>1, <2>1
      <3>2. CASE y # n
        <4>1. PICK x \in ToSet(Items(t, n)) : y \in Desc(t, x)
          BY <3>2
        <4>2. z \in Desc(t, x)
          BY <4>1, <2>1 DEF Closed
        <4> QED BY <4>1, <4>2
      <3> QED BY <3>1, <3>2
    <2> HIDE DEF S
    <2> QED BY <2>2 DEF Closed
  <1>6. Desc(t, n) \subseteq S
    <2>1. n \in S
      OBVIOUS
    <2> HIDE DEF S
    <2> QED BY <2>1, <1>4, <1>5, DescIs
  <1> HIDE DEF S
  <1>7. Desc(t, n) = S
    BY <1>3, <1>6
  <1> QED BY <1>7 DEF S

\* What is below a node is in the tree and on lower levels.
LEMMA DescLevels ==
  ASSUME NEW t \in Trees, Linked(t), NEW A, NEW lv, NEW R, NEW c, Shape(t, A, lv, R, c), NEW n \in A
  PROVE  /\ n \in Names(t) /\ Desc(t, n) \subseteq A
         /\ \A y \in Desc(t, n) : lv[y] >= lv[n] /\ (lv[y] = lv[n] => y = n) /\ (y # n => y \notin R)
  <1> DEFINE S == {n} \cup {y \in A : lv[y] > lv[n] /\ y \notin R}
  <1>1. n \in Names(t) /\ A \subseteq Names(t) /\ \A y \in A : lv[y] \in Nat
    BY DEF Shape, Levels
  <1>2. S \in SUBSET Names(t) /\ S \subseteq A /\ n \in S
    BY <1>1
  <1>3. \A y \in S : \A x \in ToSet(Items(t, y)) : x \in S
    <2> SUFFICES ASSUME NEW y \in S, NEW x \in ToSet(Items(t, y))
                 PROVE  x \in S
      OBVIOUS
    <2>1. y \in A /\ lv[y] >= lv[n]
      BY <1>1
    <2>2. x \in A /\ lv[x] = lv[y] + 1 /\ x \notin R
      BY <2>1 DEF Shape, Downward
    <2> QED BY <2>1, <2>2, <1>1
  <1>4. Desc(t, n) \subseteq S
    <2> HIDE DEF S
    <2>1. Closed(t, S)
      BY <1>3 DEF Closed
    <2> QED BY <2>1, <1>1, <1>2, DescIs
  <1>5. \A y \in S : lv[y] >= lv[n] /\ (lv[y] = lv[n] => y = n) /\ (y # n => y \notin R)
    BY <1>1
  <1> QED BY <1>1, <1>2, <1>4, <1>5

LEMMA DescUp ==
  ASSUME NEW t \in Trees, Linked(t), NEW A, NEW lv, NEW R, NEW c, Shape(t, A, lv, R, c), Owned(t, A), ~ t.twin,
         NEW n \in A, NEW y \in Desc(t, n), y # n
  PROVE  Up(t, y) \in Desc(t, n) /\ y \in ToSet(Items(t, Up(t, y))) /\ lv[y] = lv[Up(t, y)] + 1
  <1>1. n \in Names(t) /\ Desc(t, n) \subseteq A
    BY DescLevels
  <1>2. PICK p \in Desc(t, n) : y \in ToSet(Items(t, p))
    BY <1>1, DescEntry
  <1>3. Up(t, y) = p /\ p \in A
    BY <1>1, <1>2 DEF Owned
  <1>4. lv[y] = lv[p] + 1
    BY <1>2, <1>3 DEF Shape, Downward
  <1> QED BY <1>2, <1>3, <1>4

\* Nothing is below two nodes of one level.
LEMMA DescApart ==
  ASSUME NEW t \in Trees, Linked(t), NEW A, NEW lv, NEW R, NEW c, Shape(t, A, lv, R, c), Owned(t, A), ~ t.twin,
         NEW m \in A, NEW n \in A, lv[m] = lv[n], m # n
  PROVE  Desc(t, m) \cap Desc(t, n) = {}
  <1> DEFINE Z == Desc(t, m) \cap Desc(t, n)
  <1>1. SUFFICES ASSUME Z # {}
                 PROVE  FALSE
    OBVIOUS
  <1>2. Z \subseteq A /\ \A y \in A : lv[y] \in Nat
    BY DescLevels DEF Shape, Levels
  <1>3. PICK z \in Z : \A y \in Z : lv[z] <= lv[y]
    <2>1. {lv[y] : y \in Z} \in SUBSET Nat /\ {lv[y] : y \in Z} # {}
      BY <1>1, <1>2
    <2>2. PICK k \in {lv[y] : y \in Z} : \A j \in {lv[y] : y \in Z} : k <= j
      BY <2>1, LeastNat
    <2> QED BY <2>2
  <1>4. z # m /\ z # n
    <2>1. lv[m] = lv[n] /\ m \in A /\ n \in A
      OBVIOUS
    <2>2. z = m => z = n
      BY <2>1, DescLevels
    <2>3. z = n => z = m
      BY <2>1, DescLevels
    <2> QED BY <2>2, <2>3
  <1>5. Up(t, z) \in Z /\ lv[z] = lv[Up(t, z)] + 1
    BY <1>4, DescUp
  <1>6. lv[Up(t, z)] \in Nat /\ lv[z] <= lv[Up(t, z)]
    BY <1>2, <1>3, <1>5
  <1> QED BY <1>5, <1>6

\* If no split dropped an entry, everything is below the root.
LEMMA DescRoot ==
  ASSUME NEW t \in Trees, Linked(t), NEW A, NEW lv, NEW c, Shape(t, A, lv, {t.root}, c), Full(t, A, {t.root}), ~ t.tied
  PROVE  Desc(t, t.root) = A
  <1> DEFINE Z == A \ Desc(t, t.root)
  <1>1. t.root \in A /\ t.root \in Names(t) /\ Desc(t, t.root) \subseteq A /\ \A y \in A : lv[y] \in Nat
    <2>1. t.root \in A /\ \A y \in A : lv[y] \in Nat
      BY DEF Shape, Levels
    <2> QED BY <2>1, DescLevels
  <1>2. SUFFICES ASSUME Z # {}
                 PROVE  FALSE
    BY <1>1
  <1>3. PICK z \in Z : \A y \in Z : lv[z] <= lv[y]
    <2>1. {lv[y] : y \in Z} \in SUBSET Nat /\ {lv[y] : y \in Z} # {}
      BY <1>1, <1>2
    <2>2. PICK k \in {lv[y] : y \in Z} : \A j \in {lv[y] : y \in Z} : k <= j
      BY <2>1, LeastNat
    <2> QED BY <2>2
  <1>4. t.root \in Desc(t, t.root) /\ Closed(t, Desc(t, t.root))
    BY <1>1, DescIs
  <1>5. z \in A \ {t.root}
    BY <1>4
  <1>6. Up(t, z) \in A /\ lv[z] = lv[Up(t, z)] + 1 /\ z \in ToSet(Items(t, Up(t, z)))
    BY <1>5 DEF Shape, Upward, Full
  <1>7. Up(t, z) \notin Desc(t, t.root)
    BY <1>4, <1>6 DEF Closed
  <1>8. lv[Up(t, z)] \in Nat /\ lv[z] <= lv[Up(t, z)]
    BY <1>1, <1>3, <1>6, <1>7
  <1> QED BY <1>6, <1>8

\* A box inside another one.
Within(b, c) == \A a \in Axes : c[a][1] <= b[a][1] /\ b[a][2] <= c[a][2]

\* The box of a node is around the boxes of all that is below it.
LEMMA DescWithin ==
  ASSUME NEW t \in Trees, Linked(t), NEW A, NEW lv, NEW R, NEW c, Shape(t, A, lv, R, c), Snug(t, A, {}), ~ t.twin,
         NEW n \in A, NEW y \in Desc(t, n)
  PROVE  Within(Bound(t, y), Bound(t, n))
  <1> DEFINE S == {x \in A : Within(Bound(t, x), Bound(t, n))}
  <1>1. n \in Names(t) /\ A \subseteq Names(t)
    BY DEF Shape, Levels
  <1>2. \A x \in A : Bound(t, x) \in BoxSet
    BY <1>1, NodeIs
  <1>3. n \in S /\ S \in SUBSET Names(t)
    <2>1. \A a \in Axes : Bound(t, n)[a][1] <= Bound(t, n)[a][1] /\ Bound(t, n)[a][2] <= Bound(t, n)[a][2]
      BY <1>2, BoxIs
    <2> QED BY <2>1, <1>1 DEF Within
  <1>4. \A x \in S : \A z \in ToSet(Items(t, x)) : z \in S
    <2> SUFFICES ASSUME NEW x \in S, NEW z \in ToSet(Items(t, x))
                 PROVE  z \in S
      OBVIOUS
    <2>1. z \in A /\ ToSet(Items(t, x)) \subseteq A /\ Items(t, x) \in Seq(Int)
      BY <1>1, NodeIs DEF Shape, Downward
    <2>2. Items(t, x) # <<>>
      BY <2>1, SeqIs
    <2>3. Bound(t, x) = ComputeBB(t, Items(t, x))
      BY <2>2 DEF Snug
    <2>4. \A a \in Axes : Bound(t, x)[a][1] <= Bound(t, z)[a][1] /\ Bound(t, z)[a][2] <= Bound(t, x)[a][2]
      BY <2>1, <2>2, <2>3, <1>1, ComputeBBIs
    <2>5. ASSUME NEW a \in Axes
          PROVE  Bound(t, n)[a][1] <= Bound(t, z)[a][1] /\ Bound(t, z)[a][2] <= Bound(t, n)[a][2]
      <3>1. /\ Bound(t, n)[a][1] \in Int /\ Bound(t, x)[a][1] \in Int /\ Bound(t, z)[a][1] \in Int
            /\ Bound(t, n)[a][2] \in Int /\ Bound(t, x)[a][2] \in Int /\ Bound(t, z)[a][2] \in Int
        BY <2>1, <1>2, BoxIs
      <3>2. Bound(t, n)[a][1] <= Bound(t, x)[a][1] /\ Bound(t, x)[a][2] <= Bound(t, n)[a][2]
        BY DEF Within
      <3> QED BY <3>1, <3>2, <2>4
    <2> QED BY <2>1, <2>5 DEF Within
  <1>5. Desc(t, n) \subseteq S
    <2> HIDE DEF S
    <2>1. Closed(t, S)
      BY <1>4 DEF Closed
    <2> QED BY <2>1, <1>1, <1>3, DescIs
  <1> QED BY <1>5

LEMMA OverlapsWithin ==
  ASSUME NEW x \in BoxSet, NEW y \in BoxSet, NEW b \in BoxSet, Within(x, y)
  PROVE  (Overlaps(x, b) => Overlaps(y, b)) /\ (Overlaps(b, x) => Overlaps(b, y))
  <1>1. \A a \in Axes : /\ x[a][1] \in Int /\ x[a][2] \in Int /\ y[a][1] \in Int /\ y[a][2] \in Int
                        /\ b[a][1] \in Int /\ b[a][2] \in Int /\ y[a][1] <= x[a][1] /\ x[a][2] <= y[a][2]
    BY BoxIs DEF Within
  <1> QED BY <1>1 DEF Overlaps

-----------------------------------------------------------------------------
(* Sequences put one after another *)

LEMMA ConcatSet ==
  ASSUME NEW X, NEW s \in Seq(X), NEW t \in Seq(X)
  PROVE  /\ s \o t \in Seq(X)
         /\ Len(s \o t) = Len(s) + Len(t)
         /\ ToSet(s \o t) = ToSet(s) \cup ToSet(t)
  <1>1. /\ s \o t \in Seq(X) /\ Len(s \o t) = Len(s) + Len(t)
        /\ \A i \in 1..(Len(s) + Len(t)) : (s \o t)[i] = IF i <= Len(s) THEN s[i] ELSE t[i - Len(s)]
    BY ConcatProperties
  <1>2. Len(s) \in Nat /\ Len(t) \in Nat /\ DOMAIN s = 1..Len(s) /\ DOMAIN t = 1..Len(t)
        /\ DOMAIN (s \o t) = 1..(Len(s) + Len(t))
    BY <1>1, LenProperties
  <1>3. ASSUME NEW x \in ToSet(s \o t)
        PROVE  x \in ToSet(s) \cup ToSet(t)
    <2>1. PICK i \in 1..(Len(s) + Len(t)) : x = (s \o t)[i]
      BY <1>2 DEF ToSet
    <2>2. CASE i <= Len(s)
      BY <2>1, <2>2, <1>1, <1>2 DEF ToSet
    <2>3. CASE ~ (i <= Len(s))
      <3>1. i - Len(s) \in 1..Len(t) /\ x = t[i - Len(s)]
        BY <2>1, <2>3, <1>1, <1>2
      <3> QED BY <3>1, <1>2 DEF ToSet
    <2> QED BY <2>2, <2>3
  <1>4. ASSUME NEW x \in ToSet(s)
        PROVE  x \in ToSet(s \o t)
    <2>1. PICK i \in 1..Len(s) : x = s[i]
      BY <1>2 DEF ToSet
    <2>2. i \in 1..(Len(s) + Len(t)) /\ (s \o t)[i] = x
      BY <2>1, <1>1, <1>2
    <2> QED BY <2>2, <1>2 DEF ToSet
  <1>5. ASSUME NEW x \in ToSet(t)
        PROVE  x \in ToSet(s \o t)
    <2>1. PICK i \in 1..Len(t) : x = t[i]
      BY <1>2 DEF ToSet
    <2>2. i + Len(s) \in 1..(Len(s) + Len(t)) /\ ~ (i + Len(s) <= Len(s)) /\ (i + Len(s)) - Len(s) = i
      BY <1>2
    <2>3. (s \o t)[i + Len(s)] = x
      BY <2>1, <2>2, <1>1
    <2> QED BY <2>2, <2>3, <1>2 DEF ToSet
  <1> QED BY <1>1, <1>3, <1>4, <1>5

LEMMA ConcatInjective ==
  ASSUME NEW X, NEW s \in Seq(X), NEW t \in Seq(X), IsInjective(s), IsInjective(t),
         ToSet(s) \cap ToSet(t) = {}
  PROVE  IsInjective(s \o t)
  <1>1. /\ s \o t \in Seq(X) /\ Len(s \o t) = Len(s) + Len(t)
        /\ \A i \in 1..(Len(s) + Len(t)) : (s \o t)[i] = IF i <= Len(s) THEN s[i] ELSE t[i - Len(s)]
    BY ConcatProperties
  <1>2. Len(s) \in Nat /\ Len(t) \in Nat /\ DOMAIN s = 1..Len(s) /\ DOMAIN t = 1..Len(t)
        /\ DOMAIN (s \o t) = 1..(Len(s) + Len(t))
    BY <1>1, LenProperties
  <1>3. ASSUME NEW i \in DOMAIN (s \o t), NEW j \in DOMAIN (s \o t), (s \o t)[i] = (s \o t)[j],
               i <= Len(s)
        PROVE  i = j
    <2>1. i \in DOMAIN s /\ (s \o t)[i] = s[i]
      BY <1>1, <1>2, <1>3
    <2>2. j <= Len(s)
      <3> SUFFICES ASSUME ~ (j <= Len(s))
                   PROVE  FALSE
        OBVIOUS
      <3>1. j - Len(s) \in DOMAIN t /\ (s \o t)[j] = t[j - Len(s)]
        BY <1>1, <1>2
      <3>2. s[i] \in ToSet(s) /\ s[i] \in ToSet(t)
        BY <2>1, <3>1, <1>3 DEF ToSet
      <3> QED BY <3>2
    <2>3. j \in DOMAIN s /\ (s \o t)[j] = s[j]
      BY <2>2, <1>1, <1>2
    <2> QED BY <2>1, <2>3, <1>3 DEF IsInjective
  <1>4. ASSUME NEW i \in DOMAIN (s \o t), NEW j \in DOMAIN (s \o t), (s \o t)[i] = (s \o t)[j],
               ~ (i <= Len(s)), ~ (j <= Len(s))
        PROVE  i = j
    <2>1. i - Len(s) \in DOMAIN t /\ (s \o t)[i] = t[i - Len(s)]
      BY <1>1, <1>2, <1>4
    <2>2. j - Len(s) \in DOMAIN t /\ (s \o t)[j] = t[j - Len(s)]
      BY <1>1, <1>2, <1>4
    <2>3. i - Len(s) = j - Len(s)
      BY <2>1, <2>2, <1>4 DEF IsInjective
    <2>4. i \in Nat /\ j \in Nat
      BY <1>2
    <2> QED BY <2>3, <2>4, <1>2
  <1> QED BY <1>3, <1>4 DEF IsInjective

FlattenStep(ss, h) ==
  [i \in 1..Len(ss) |-> IF i = 1 THEN ss[i] ELSE h[i - 1] \o ss[i]]

Flattened(ss) == CHOOSE h : h = FlattenStep(ss, h)

\* What the first k sequences put one after another are.
Joint(X, ss, k, v) ==
  /\ v \in Seq(X) /\ ToSet(v) = UNION {ToSet(ss[i]) : i \in 1..k}
  /\ (\A i \in 1..Len(ss) : IsInjective(ss[i])) /\
     (\A i, j \in 1..Len(ss) : i # j => ToSet(ss[i]) \cap ToSet(ss[j]) = {})
       => IsInjective(v)

LEMMA JointMore ==
  ASSUME NEW X, NEW ss \in Seq(Seq(X)), NEW k \in 2..Len(ss), NEW v, Joint(X, ss, k - 1, v)
  PROVE  Joint(X, ss, k, v \o ss[k])
  <1>1. v \in Seq(X) /\ k \in 1..Len(ss) /\ ss[k] \in Seq(X)
    <2>1. k \in 1..Len(ss)
      BY SeqIs
    <2> QED BY <2>1, SeqIs DEF Joint
  <1>2. v \o ss[k] \in Seq(X) /\ ToSet(v \o ss[k]) = ToSet(v) \cup ToSet(ss[k])
    BY <1>1, ConcatSet
  <1>3. ToSet(v) = UNION {ToSet(ss[i]) : i \in 1..(k - 1)} /\ 1..k = 1..(k - 1) \cup {k} /\ k \notin 1..(k - 1)
        /\ 1..(k - 1) \subseteq 1..Len(ss)
    <2>1. Len(ss) \in Nat
      BY SeqIs
    <2>2. /\ 1..k = 1..(k - 1) \cup {k} /\ k \notin 1..(k - 1)
          /\ 1..(k - 1) \subseteq 1..Len(ss)
      BY <2>1, <1>1
    <2> QED BY <2>2 DEF Joint
  <1>4. ToSet(v \o ss[k]) = UNION {ToSet(ss[i]) : i \in 1..k}
    BY <1>2, <1>3
  <1>5. ASSUME \A i \in 1..Len(ss) : IsInjective(ss[i]),
               \A i, j \in 1..Len(ss) : i # j => ToSet(ss[i]) \cap ToSet(ss[j]) = {}
        PROVE  IsInjective(v \o ss[k])
    <2>1. IsInjective(v) /\ IsInjective(ss[k])
      BY <1>1, <1>5 DEF Joint
    <2>2. \A i \in 1..(k - 1) : ToSet(ss[i]) \cap ToSet(ss[k]) = {}
      BY <1>1, <1>3, <1>5
    <2>3. ToSet(v) \cap ToSet(ss[k]) = {}
      BY <2>2, <1>3
    <2> QED BY <2>1, <2>3, <1>1, ConcatInjective
  <1> QED BY <1>2, <1>4, <1>5 DEF Joint

LEMMA FlattenJoint ==
  ASSUME NEW X, NEW ss \in Seq(Seq(X))
  PROVE  /\ FlattenSeq(ss) \in Seq(X)
         /\ ToSet(FlattenSeq(ss)) = UNION {ToSet(ss[i]) : i \in 1..Len(ss)}
         /\ (\A i \in 1..Len(ss) : IsInjective(ss[i])) /\
            (\A i, j \in 1..Len(ss) : i # j => ToSet(ss[i]) \cap ToSet(ss[j]) = {})
              => IsInjective(FlattenSeq(ss))
  <1>1. Len(ss) \in Nat /\ (ss = <<>> <=> Len(ss) = 0)
    BY SeqIs
  <1>2. CASE Len(ss) = 0
    <2>1. FlattenSeq(ss) = <<>>
      BY <1>1, <1>2 DEF FlattenSeq
    <2>2. <<>> \in Seq(X) /\ ToSet(<<>>) = {} /\ IsInjective(<<>>)
      BY DEF ToSet, IsInjective
    <2>3. 1..Len(ss) = {}
      BY <1>2
    <2>4. ToSet(<<>>) = UNION {ToSet(ss[i]) : i \in 1..Len(ss)}
      BY <2>2, <2>3
    <2> QED BY <2>1, <2>2, <2>4
  <1>3. CASE Len(ss) # 0
    <2> DEFINE l == Len(ss)
               Good(k) == {v \in Seq(X) : Joint(X, ss, k, v)}
               W == [k \in 1..l |-> Good(k)]
               T(k, v) == v \o ss[k]
               G == [kv \in (2..l) \X Seq(X) |-> T(kv[1], kv[2])]
    <2>1. l \in Nat \ {0} /\ 1 \in 1..l /\ \A k \in 2..l : k \in 1..l /\ k - 1 \in 1..l
      BY <1>1, <1>3
    <2>2. ss[1] \in W[1]
      <3>1. ss[1] \in Seq(X) /\ 1..1 = {1}
        BY <2>1, SeqIs
      <3>2. ToSet(ss[1]) = UNION {ToSet(ss[i]) : i \in 1..1}
        BY <3>1
      <3>3. Joint(X, ss, 1, ss[1])
        BY <3>1, <3>2, <2>1 DEF Joint
      <3> QED BY <3>1, <3>3, <2>1
    <2>3. ASSUME NEW k \in 2..l, NEW v \in W[k - 1]
          PROVE  v \in Seq(X) /\ T(k, v) \in W[k]
      <3>1. v \in Seq(X) /\ Joint(X, ss, k - 1, v)
        BY <2>1
      <3>2. Joint(X, ss, k, T(k, v))
        BY <3>1, JointMore
      <3>3. T(k, v) \in Seq(X)
        BY <3>2 DEF Joint
      <3> HIDE DEF T
      <3> QED BY <3>1, <3>2, <3>3, <2>1
    <2>4. \A k \in 2..l : \A v \in W[k - 1] : G[<<k, v>>] = T(k, v)
      <3> SUFFICES ASSUME NEW k \in 2..l, NEW v \in W[k - 1]
                   PROVE  G[<<k, v>>] = T(k, v)
        OBVIOUS
      <3>1. v \in Seq(X)
        BY <2>3
      <3> HIDE DEF W, T
      <3> QED BY <3>1
    <2> HIDE DEF W, G, T, Good
    <2>5. Turns1(l, W, ss[1], G)
      BY <2>2, <2>3, <2>4 DEF Turns1
    <2>6. PICK f : Turned1(f, l, W, ss[1], G)
      BY <2>1, <2>5, Loop1Exists
    <2>7. f = FlattenStep(ss, f)
      <3>1. \A k \in 2..l : k \in 1..l /\ k - 1 \in 1..l /\ k # 1
        BY <2>1
      <3>2. \A k \in 2..l : f[k] = T(k, f[k - 1])
        BY <3>1, <2>4, <2>6 DEF Turned1
      <3>3. \A k \in 1..l : f[k] = IF k = 1 THEN ss[k] ELSE T(k, f[k - 1])
        <4>1. \A k \in 1..l : k = 1 \/ k \in 2..l
          BY <2>1
        <4> QED BY <3>1, <3>2, <4>1, <2>6 DEF Turned1
      <3>4. f = [k \in 1..l |-> f[k]]
        BY <2>6 DEF Turned1
      <3>5. f = [k \in 1..l |-> IF k = 1 THEN ss[k] ELSE T(k, f[k - 1])]
        BY <3>3, <3>4
      <3> QED BY <3>5 DEF FlattenStep, T, l
    <2>8. PICK h : h = Flattened(ss)
      OBVIOUS
    <2>9. h = FlattenStep(ss, h)
      BY <2>7, <2>8 DEF Flattened
    <2>10. h[1] = ss[1] /\ \A k \in 2..l : h[k] = T(k, h[k - 1])
      <3>1. h = [k \in 1..l |-> IF k = 1 THEN ss[k] ELSE T(k, h[k - 1])]
        BY <2>9 DEF FlattenStep, T, l
      <3>2. \A k \in 1..l : h[k] = IF k = 1 THEN ss[k] ELSE T(k, h[k - 1])
        BY <3>1
      <3>3. \A k \in 2..l : k # 1
        BY <2>1
      <3> QED BY <2>1, <3>2, <3>3
    <2>11. \A k \in 2..l : h[k - 1] \in W[k - 1] => h[k] \in W[k]
      BY <2>3, <2>10
    <2>12. h[l] \in W[l]
      <3>1. h[1] \in W[1]
        BY <2>2, <2>10
      <3>2. \A k \in 1..l : h[k] \in W[k]
        BY <2>1, <3>1, <2>11, Loop1Stays
      <3>3. l \in 1..l
        BY <2>1
      <3> QED BY <3>2, <3>3
    <2>13. FlattenSeq(ss) = h[l]
      BY <1>3, <2>8 DEF FlattenSeq, Flattened, FlattenStep, l
    <2>14. Joint(X, ss, l, h[l])
      <3>1. l \in 1..l
        BY <2>1
      <3> QED BY <3>1, <2>12 DEF W, Good
    <2> QED BY <2>13, <2>14 DEF Joint, l
  <1> QED BY <1>2, <1>3

LEMMA FlattenIs ==
  ASSUME NEW X, NEW ss \in Seq(Seq(X))
  PROVE  FlattenSeq(ss) \in Seq(X) /\ ToSet(FlattenSeq(ss)) = UNION {ToSet(ss[i]) : i \in 1..Len(ss)}
  BY FlattenJoint

LEMMA FlattenInjective ==
  ASSUME NEW X, NEW ss \in Seq(Seq(X)), \A i \in 1..Len(ss) : IsInjective(ss[i]),
         \A i, j \in 1..Len(ss) : i # j => ToSet(ss[i]) \cap ToSet(ss[j]) = {}
  PROVE  IsInjective(FlattenSeq(ss))
  BY FlattenJoint

-----------------------------------------------------------------------------
(* Parts of a tree that are taken out of it *)

Only(lv, D) == [n \in D |-> lv[n]]

LEMMA OnlyIs ==
  ASSUME NEW lv, NEW M, NEW D, D \subseteq M
  PROVE  Only(Only(lv, M), D) = Only(lv, D) /\ \A n \in M : Only(lv, M)[n] = lv[n]
  <1>1. \A n \in M : Only(lv, M)[n] = lv[n]
    BY DEF Only
  <1>2. [n \in D |-> Only(lv, M)[n]] = [n \in D |-> lv[n]]
    BY <1>1
  <1> QED BY <1>1, <1>2 DEF Only

LEMMA OnlyNat ==
  ASSUME NEW A, NEW lv \in [A -> Nat], NEW D, D \subseteq A
  PROVE  Only(lv, D) \in [D -> Nat] /\ Only(lv, A) = lv
  <1>1. \A n \in D : lv[n] \in Nat
    OBVIOUS
  <1>2. [n \in D |-> lv[n]] \in [D -> Nat]
    BY <1>1
  <1>3. [n \in A |-> lv[n]] = lv
    OBVIOUS
  <1> QED BY <1>2, <1>3 DEF Only

\* What is below a node is the same in two trees that agree on it.
LEMMA DescAgree ==
  ASSUME NEW t \in Trees, Linked(t), NEW u \in Trees, Linked(u), NEW n \in Names(t), Desc(t, n) \subseteq Names(u),
         \A y \in Desc(t, n) : Items(u, y) = Items(t, y)
  PROVE  Desc(u, n) = Desc(t, n)
  <1>1. /\ Desc(t, n) \subseteq Names(t) /\ n \in Desc(t, n) /\ Closed(t, Desc(t, n))
        /\ \A S \in SUBSET Names(t) : n \in S /\ Closed(t, S) => Desc(t, n) \subseteq S
    BY DescIs
  <1>2. n \in Names(u)
    BY <1>1
  <1>3. /\ n \in Desc(u, n) /\ Closed(u, Desc(u, n))
        /\ \A S \in SUBSET Names(u) : n \in S /\ Closed(u, S) => Desc(u, n) \subseteq S
    BY <1>2, DescIs
  <1>4. Closed(u, Desc(t, n)) /\ Desc(t, n) \in SUBSET Names(u)
    BY <1>1 DEF Closed
  <1>5. Desc(u, n) \subseteq Desc(t, n)
    BY <1>1, <1>3, <1>4
  <1>6. Closed(t, Desc(u, n)) /\ Desc(u, n) \in SUBSET Names(t)
    <2>1. \A y \in Desc(u, n) : Items(u, y) = Items(t, y)
      BY <1>5
    <2> QED BY <2>1, <1>1, <1>3, <1>5 DEF Closed
  <1>7. Desc(t, n) \subseteq Desc(u, n)
    BY <1>1, <1>3, <1>6
  <1> QED BY <1>5, <1>7

\* No split dropped an entry of the nodes of M.
Joined(t, M) == \A x \in M \ {t.root} : x \in ToSet(Items(t, Up(t, x)))

\* A part of a tree nothing was ever dropped from or doubled in.
Tree(t, M, lv, c) ==
  /\ t \in Trees /\ Shape(t, M, lv, {t.root}, c) /\ Linked(t) /\ Fits(t, {}) /\ Owned(t, M) /\ Joined(t, M)
  /\ ~ t.twin /\ ~ t.tied

LEMMA HangsOff ==
  ASSUME NEW t, NEW M, NEW lv, NEW c, Tree(t, M, lv, c), NEW x \in M \ {t.root}, NEW P, Snug(t, M, P),
         Desc(t, x) \cap P = {}, \A m \in Desc(t, x) : ~ IsData(m) => Len(Items(t, m)) >= MinChildItems
  PROVE  Hanging(t, Desc(t, x), Only(lv, Desc(t, x)), x, c) /\ Desc(t, x) \subseteq M
  <1>1. PICK D, ld : D = Desc(t, x) /\ ld = Only(lv, Desc(t, x))
    OBVIOUS
  <1>2. /\ t \in Trees /\ Levels(t, M, lv, {t.root}) /\ Kinds(t, M, lv, c) /\ Downward(t, M, lv, {t.root})
        /\ Upward(t, M, lv, {t.root}) /\ Linked(t) /\ Owned(t, M) /\ ~ t.twin /\ ~ t.tied
    BY DEF Tree, Shape
  <1>3. x \in Names(t) /\ D \subseteq M /\ \A y \in D : y # x => y \notin {t.root}
    <2>1. Shape(t, M, lv, {t.root}, c)
      BY DEF Tree
    <2> QED BY <2>1, <1>1, <1>2, DescLevels
  <1>4. x \in D /\ D \subseteq Names(t) /\ Closed(t, D)
    BY <1>1, <1>2, <1>3, DescIs
  <1>5. ld \in [D -> Nat] /\ \A y \in D : ld[y] = lv[y]
    <2>1. lv \in [M -> Nat]
      BY <1>2 DEF Levels
    <2> QED BY <2>1, <1>1, <1>3, OnlyNat DEF Only
  <1>6. \A y \in D : y # x => Up(t, y) \in D /\ y \in ToSet(Items(t, Up(t, y)))
    <2>1. Shape(t, M, lv, {t.root}, c)
      BY DEF Tree
    <2> QED BY <2>1, <1>1, <1>2, DescUp
  <1>7. t.root \notin D
    BY <1>3
  <1>8. \A n \in D : ld[n] >= 1 /\ (~ IsData(n) => ld[n] <= t.height)
    BY <1>2, <1>3, <1>5 DEF Levels
  <1>9. Kinds(t, D, ld, c)
    BY <1>2, <1>3, <1>5 DEF Kinds
  <1>10. Downward(t, D, ld, {x})
    <2> SUFFICES ASSUME NEW n \in D, NEW y \in ToSet(Items(t, n))
                 PROVE  y \in D /\ y \notin {x} /\ ld[y] = ld[n] + 1 /\ (IsData(y) <=> Leaf(t, n))
      BY DEF Downward
    <2>1. y \in D /\ lv[y] = lv[n] + 1 /\ (IsData(y) <=> Leaf(t, n))
      BY <1>2, <1>3, <1>4 DEF Downward, Closed
    <2>2. y # x
      <3>1. lv[n] >= lv[x] /\ lv[n] \in Nat /\ lv[x] \in Nat
        <4>1. Shape(t, M, lv, {t.root}, c)
          BY DEF Tree
        <4> QED BY <4>1, <1>1, <1>2, <1>3, <1>4, DescLevels DEF Levels
      <3> QED BY <3>1, <2>1
    <2> QED BY <2>1, <2>2, <1>5
  <1>11. Upward(t, D, ld, {x})
    BY <1>2, <1>3, <1>5, <1>6 DEF Upward
  <1>12. Full(t, D, {x})
    BY <1>1, <1>6 DEF Full
  <1>13. Owned(t, D)
    BY <1>2, <1>3 DEF Owned
  <1>14. Snug(t, D, {})
    BY <1>1, <1>3 DEF Snug
  <1> QED BY <1>1, <1>2, <1>3, <1>4, <1>5, <1>7, <1>8, <1>9, <1>10, <1>11, <1>12, <1>13, <1>14 DEF Hanging

\* Node p loses its entry x.
IsCut(t, u, p, x) ==
  /\ u \in Trees /\ Names(u) = Names(t) /\ SameTop(t, u)
  /\ IsInjective(Items(u, p)) /\ ToSet(Items(u, p)) = ToSet(Items(t, p)) \ {x}
  /\ Len(Items(u, p)) = Len(Items(t, p)) - 1
  /\ \A y \in Names(t) : /\ y # p => Items(u, y) = Items(t, y)
                         /\ Bound(u, y) = Bound(t, y) /\ Leaf(u, y) = Leaf(t, y) /\ Up(u, y) = Up(t, y)

LEMMA CutIs ==
  ASSUME NEW t \in Trees, NEW p \in Names(t), IsInjective(Items(t, p)), NEW i \in 1..Len(Items(t, p))
  PROVE  IsCut(t, SetItems(t, p, SwapOut(Items(t, p), i)), p, Items(t, p)[i])
  <1>1. PICK s : s = Items(t, p)
    OBVIOUS
  <1>2. s \in Seq(Int) /\ i \in 1..Len(s) /\ IsInjective(s)
    BY <1>1, NodeIs
  <1>3. PICK r : r = SwapOut(s, i)
    OBVIOUS
  <1>4. r \in Seq(Int) /\ Len(r) = Len(s) - 1 /\ ToSet(r) = ToSet(s) \ {s[i]} /\ IsInjective(r)
    BY <1>2, <1>3, SwapOutIs, SwapOutSet
  <1>5. PICK u : u = SetItems(t, p, r)
    OBVIOUS
  <1>6. /\ u \in Trees /\ Names(u) = Names(t) /\ SameTop(t, u)
        /\ \A x \in Names(t) : /\ Items(u, x) = IF x = p THEN r ELSE Items(t, x)
                               /\ Bound(u, x) = Bound(t, x)
                               /\ u.node[x].leaf = t.node[x].leaf /\ u.node[x].up = t.node[x].up
    BY <1>4, <1>5, SetItemsIs
  <1>7. IsCut(t, u, p, s[i])
    BY <1>1, <1>4, <1>6 DEF IsCut, Leaf, Up
  <1> QED BY <1>1, <1>3, <1>5, <1>7

-----------------------------------------------------------------------------
\* What is left of a tree when the part below x is taken out.
LEMMA CutTree ==
  ASSUME NEW t, NEW M, NEW lv, NEW c, Tree(t, M, lv, c), NEW p \in M, NEW x \in ToSet(Items(t, p)), NEW u, IsCut(t, u, p, x),
         Len(Items(t, p)) >= 2 \/ Leaf(t, p)
  PROVE  /\ Tree(u, M \ Desc(t, x), Only(lv, M \ Desc(t, x)), c)
         /\ x \in M \ {t.root} /\ p \notin Desc(t, x) /\ Desc(t, x) \subseteq M
  <1>1. PICK D, N, lw : D = Desc(t, x) /\ N = M \ Desc(t, x) /\ lw = Only(lv, N)
    OBVIOUS
  <1>2. /\ t \in Trees /\ Levels(t, M, lv, {t.root}) /\ Kinds(t, M, lv, c) /\ Downward(t, M, lv, {t.root})
        /\ Upward(t, M, lv, {t.root}) /\ Linked(t) /\ Fits(t, {}) /\ Owned(t, M) /\ Joined(t, M) /\ ~ t.twin /\ ~ t.tied
        /\ Shape(t, M, lv, {t.root}, c)
    BY DEF Tree, Shape
  <1>3. x \in M /\ x # t.root /\ lv[x] = lv[p] + 1 /\ Up(t, x) = p
    BY <1>2 DEF Downward, Owned
  <1>4. /\ u \in Trees /\ Names(u) = Names(t) /\ u.root = t.root /\ u.height = t.height /\ u.twin = t.twin /\ u.tied = t.tied
        /\ IsInjective(Items(u, p)) /\ ToSet(Items(u, p)) = ToSet(Items(t, p)) \ {x}
        /\ Len(Items(u, p)) = Len(Items(t, p)) - 1
        /\ \A y \in Names(t) : /\ y # p => Items(u, y) = Items(t, y)
                               /\ Bound(u, y) = Bound(t, y) /\ Leaf(u, y) = Leaf(t, y) /\ Up(u, y) = Up(t, y)
    BY DEF IsCut, SameTop
  <1>5. /\ x \in Names(t) /\ D \subseteq M /\ x \in D /\ Closed(t, D) /\ M \subseteq Names(t)
        /\ \A y \in D : lv[y] >= lv[x] /\ (y # x => y # t.root)
    <2>1. /\ x \in Names(t) /\ D \subseteq M
          /\ \A y \in D : lv[y] >= lv[x] /\ (y # x => y \notin {t.root})
      BY <1>1, <1>2, <1>3, DescLevels
    <2> QED BY <2>1, <1>1, <1>2, DescIs DEF Levels
  <1>6. \A y \in D : y # x => Up(t, y) \in D
    BY <1>1, <1>2, <1>3, DescUp
  <1>7. p \notin D /\ p \in N /\ p \in Names(t) /\ t.root \in N
    <2>1. lv[p] \in Nat /\ lv[x] \in Nat
      BY <1>2, <1>3 DEF Levels
    <2>2. p \notin D
      BY <2>1, <1>3, <1>5
    <2>3. t.root \notin D /\ t.root \in M
      BY <1>2, <1>3, <1>5 DEF Levels
    <2> QED BY <2>2, <2>3, <1>1, <1>5
  <1>8. N \subseteq M /\ N \subseteq Names(u) /\ lw \in [N -> Nat] /\ \A y \in N : lw[y] = lv[y]
    <2>1. lv \in [M -> Nat]
      BY <1>2 DEF Levels
    <2> QED BY <2>1, <1>1, <1>4, <1>5, OnlyNat DEF Only
  <1>9. \A y \in Names(t) : ToSet(Items(u, y)) \subseteq ToSet(Items(t, y))
    BY <1>4
  <1>10. Levels(u, N, lw, {u.root})
    BY <1>2, <1>4, <1>7, <1>8 DEF Levels
  <1>11. Kinds(u, N, lw, c)
    <2>1. \A n \in N : n # p => Items(u, n) = Items(t, n)
      BY <1>4, <1>5, <1>8
    <2>2. ~ IsData(p) /\ Items(t, p) # <<>>
      <3>1. Items(t, p) \in Seq(Int)
        BY <1>2, <1>7, NodeIs
      <3>2. Items(t, p) # <<>>
        BY <3>1, SeqIs
      <3> QED BY <3>2, <1>2 DEF Kinds
    <2>3. Leaf(u, p) \/ Items(u, p) # <<>>
      <3>1. Items(t, p) \in Seq(Int) /\ Items(u, p) \in Seq(Int)
        BY <1>2, <1>4, <1>7, NodeIs
      <3>2. PICK i \in Nat, j \in Nat : i = Len(Items(t, p)) /\ j = Len(Items(u, p))
        BY <3>1, SeqIs
      <3>3. i >= 2 => j >= 1
        BY <3>2, <1>4
      <3>4. i >= 2 => Items(u, p) # <<>>
        BY <3>1, <3>2, <3>3, SeqIs
      <3> QED BY <3>2, <3>4, <1>4, <1>7
    <2>4. \A n \in N : Leaf(u, n) = Leaf(t, n)
      BY <1>4, <1>5, <1>8
    <2> SUFFICES ASSUME NEW n \in N
                 PROVE  /\ IsInjective(Items(u, n))
                        /\ IsData(n) => Items(u, n) = <<>> /\ ~ Leaf(u, n)
                        /\ ~ IsData(n) => Leaf(u, n) \/ Items(u, n) # <<>>
                        /\ Leaf(u, n) => lw[n] >= c
      BY DEF Kinds
    <2>5. /\ IsInjective(Items(t, n)) /\ (IsData(n) => Items(t, n) = <<>> /\ ~ Leaf(t, n))
          /\ (~ IsData(n) => Leaf(t, n) \/ Items(t, n) # <<>>) /\ (Leaf(t, n) => lw[n] >= c)
      BY <1>2, <1>8 DEF Kinds
    <2>6. CASE n = p
      BY <2>2, <2>3, <2>4, <2>5, <2>6, <1>4
    <2>7. CASE n # p
      BY <2>1, <2>4, <2>5, <2>7
    <2> QED BY <2>6, <2>7
  <1>12. Downward(u, N, lw, {u.root})
    <2> SUFFICES ASSUME NEW n \in N, NEW y \in ToSet(Items(u, n))
                 PROVE  y \in N /\ y \notin {u.root} /\ lw[y] = lw[n] + 1 /\ (IsData(y) <=> Leaf(u, n))
      BY DEF Downward
    <2>1. n \in M /\ n \in Names(t) /\ y \in ToSet(Items(t, n)) /\ lw[n] = lv[n] /\ Leaf(u, n) = Leaf(t, n)
      BY <1>4, <1>5, <1>8, <1>9
    <2>2. y \in M /\ y # t.root /\ lv[y] = lv[n] + 1 /\ (IsData(y) <=> Leaf(t, n)) /\ Up(t, y) = n
      BY <2>1, <1>2 DEF Downward, Owned
    <2>3. y \notin D
      <3> SUFFICES ASSUME y \in D
                   PROVE  FALSE
        OBVIOUS
      <3>1. y = x
        BY <2>2, <1>1, <1>6
      <3> QED BY <3>1, <2>2, <1>3, <1>4
    <2> QED BY <2>1, <2>2, <2>3, <1>1, <1>4, <1>8
  <1>13. \A y \in N \ {t.root} : /\ y \in M \ {t.root} /\ y \in Names(t) /\ Up(t, y) \in N /\ Up(t, y) \in Names(t)
                                 /\ y \in ToSet(Items(t, Up(t, y)))
    <2> SUFFICES ASSUME NEW y \in N \ {t.root}
                 PROVE  /\ y \in M \ {t.root} /\ y \in Names(t) /\ Up(t, y) \in N /\ Up(t, y) \in Names(t)
                        /\ y \in ToSet(Items(t, Up(t, y)))
      OBVIOUS
    <2>1. y \in M \ {t.root} /\ y \in Names(t) /\ Up(t, y) \in M /\ y \in ToSet(Items(t, Up(t, y)))
      BY <1>2, <1>5, <1>8 DEF Upward, Joined
    <2>2. Up(t, y) \notin D
      BY <2>1, <1>1, <1>5 DEF Closed
    <2> QED BY <2>1, <2>2, <1>1, <1>5
  <1>14. Upward(u, N, lw, {u.root})
    <2> SUFFICES ASSUME NEW y \in N \ {t.root}
                 PROVE  Up(u, y) \in N /\ ~ IsData(Up(u, y)) /\ lw[y] = lw[Up(u, y)] + 1 /\ (IsData(y) <=> Leaf(u, Up(u, y)))
      BY <1>4 DEF Upward
    <2>1. y \in M \ {t.root} /\ Up(u, y) = Up(t, y) /\ Up(t, y) \in N /\ Up(t, y) \in Names(t)
      BY <1>4, <1>13
    <2>2. ~ IsData(Up(t, y)) /\ lv[y] = lv[Up(t, y)] + 1 /\ (IsData(y) <=> Leaf(t, Up(t, y)))
      BY <2>1, <1>2 DEF Upward
    <2> QED BY <2>1, <2>2, <1>4, <1>8
  <1>15. Joined(u, N)
    <2> SUFFICES ASSUME NEW y \in N \ {t.root}
                 PROVE  y \in ToSet(Items(u, Up(u, y)))
      BY <1>4 DEF Joined
    <2>1. Up(u, y) = Up(t, y) /\ Up(t, y) \in Names(t) /\ y \in ToSet(Items(t, Up(t, y))) /\ y # x
      BY <1>1, <1>4, <1>5, <1>13
    <2> QED BY <2>1, <1>4
  <1>16. Owned(u, N)
    <2> SUFFICES ASSUME NEW n \in N, NEW y \in ToSet(Items(u, n))
                 PROVE  Up(u, y) = n
      BY DEF Owned
    <2>1. n \in M /\ n \in Names(t) /\ y \in ToSet(Items(t, n))
      BY <1>5, <1>8, <1>9
    <2>2. Up(t, y) = n /\ y \in Names(t)
      BY <2>1, <1>2 DEF Owned, Linked
    <2> QED BY <2>2, <1>4
  <1>17. Linked(u)
    BY <1>2, <1>4, <1>9 DEF Linked
  <1>18. Fits(u, {})
    <2> SUFFICES ASSUME NEW n \in Names(t)
                 PROVE  Len(Items(u, n)) <= MaxChildItems + 1 /\ Len(Items(u, n)) <= MaxChildItems
      BY <1>4 DEF Fits
    <2>1. PICK i \in Nat, j \in Nat : i = Len(Items(t, n)) /\ j = Len(Items(u, n))
      BY <1>2, <1>4, NodeIs, SeqIs
    <2>2. j <= i /\ i <= MaxChildItems /\ MaxChildItems \in Nat
      <3>1. i <= MaxChildItems
        BY <2>1, <1>2 DEF Fits
      <3>2. n = p => j = i - 1
        BY <2>1, <1>4
      <3>3. n # p => j = i
        BY <2>1, <1>4
      <3> QED BY <3>1, <3>2, <3>3, RtreeAssumption
    <2> QED BY <2>1, <2>2
  <1>19. Tree(u, N, lw, c)
    BY <1>2, <1>4, <1>10, <1>11, <1>12, <1>14, <1>15, <1>16, <1>17, <1>18 DEF Tree, Shape
  <1> QED BY <1>1, <1>3, <1>5, <1>7, <1>19

LEMMA CutSnug ==
  ASSUME NEW t, NEW M, NEW lv, NEW c, Tree(t, M, lv, c), NEW p \in M, NEW x, NEW u, IsCut(t, u, p, x),
         NEW P, Snug(t, M, P), p \in P, NEW N, N \subseteq M, NEW Q, N \cap P \subseteq Q
  PROVE  Snug(u, N, Q)
  <1>1. /\ t \in Trees /\ u \in Trees /\ ~ t.twin /\ Downward(t, M, lv, {t.root}) /\ M \subseteq Names(t)
        /\ \A y \in Names(t) : (y # p => Items(u, y) = Items(t, y)) /\ Bound(u, y) = Bound(t, y)
    BY DEF Tree, Shape, Levels, IsCut
  <1>2. SUFFICES ASSUME NEW n \in N \ Q, Items(u, n) # <<>>
                 PROVE  Bound(u, n) = ComputeBB(u, Items(u, n))
    BY DEF Snug
  <1>3. n \in M \ P /\ n # p /\ n \in Names(t)
    BY <1>1
  <1>4. Items(u, n) = Items(t, n) /\ Bound(u, n) = Bound(t, n)
    BY <1>1, <1>3
  <1>5. Bound(t, n) = ComputeBB(t, Items(t, n))
    BY <1>1, <1>2, <1>3, <1>4 DEF Snug
  <1>6. \A y \in ToSet(Items(t, n)) : Bound(t, y) = Bound(u, y)
    BY <1>1, <1>3 DEF Downward
  <1>7. ComputeBB(t, Items(t, n)) = ComputeBB(u, Items(t, n))
    BY <1>1, <1>6, ComputeBBSame
  <1> QED BY <1>4, <1>5, <1>7

LEMMA CutPath ==
  ASSUME NEW t, NEW M, NEW lv, NEW c, Tree(t, M, lv, c), NEW p \in M, NEW x, NEW u, IsCut(t, u, p, x),
         NEW n, NEW P, Path(t, M, lv, {t.root}, n, P), x \notin P, NEW N, N \subseteq M, P \subseteq N
  PROVE  Path(u, N, Only(lv, N), {u.root}, n, P)
  <1>1. /\ ~ t.twin /\ M \subseteq Names(t) /\ u.root = t.root
        /\ ToSet(Items(u, p)) = ToSet(Items(t, p)) \ {x}
        /\ \A y \in Names(t) : (y # p => Items(u, y) = Items(t, y)) /\ Up(u, y) = Up(t, y)
    BY DEF Tree, Shape, Levels, IsCut, SameTop
  <1>2. /\ P \subseteq M /\ n \in P
        /\ \A y \in P : lv[y] <= lv[n] /\ (y # t.root => Up(t, y) \in P /\ y \in ToSet(Items(t, Up(t, y))))
        /\ \A y, z \in P : lv[y] = lv[z] => y = z
    BY <1>1 DEF Path
  <1>3. \A y \in P : Only(lv, N)[y] = lv[y]
    BY DEF Only
  <1>4. \A y \in P : y # t.root => Up(u, y) \in P /\ y \in ToSet(Items(u, Up(u, y)))
    <2> SUFFICES ASSUME NEW y \in P, y # t.root
                 PROVE  Up(u, y) \in P /\ y \in ToSet(Items(u, Up(u, y)))
      OBVIOUS
    <2>1. Up(u, y) = Up(t, y) /\ Up(t, y) \in P /\ Up(t, y) \in Names(t) /\ y \in ToSet(Items(t, Up(t, y))) /\ y # x
      BY <1>1, <1>2
    <2> QED BY <2>1, <1>1
  <1> QED BY <1>1, <1>2, <1>3, <1>4 DEF Path

\* The way from the root to a node goes through its parent.
LEMMA PathUp ==
  ASSUME NEW t, NEW M, NEW lv, NEW c, Tree(t, M, lv, c), NEW n \in M \ {t.root}, NEW P, Path(t, M, lv, {t.root}, n, P)
  PROVE  /\ Path(t, M, lv, {t.root}, Up(t, n), P \ {n}) /\ Up(t, n) \in P \ {n} /\ Up(t, n) \in M
         /\ \A y \in P \ {n} : lv[y] < lv[n]
         /\ lv[n] = lv[Up(t, n)] + 1 /\ lv[Up(t, n)] \in Nat /\ n \in ToSet(Items(t, Up(t, n))) /\ ~ IsData(Up(t, n))
         /\ Leaf(t, Up(t, n)) <=> IsData(n)
  <1>1. PICK p : p = Up(t, n)
    OBVIOUS
  <1>2. /\ ~ t.twin /\ (\A y \in M : lv[y] \in Nat) /\ p \in M /\ ~ IsData(p) /\ lv[n] = lv[p] + 1 /\ n \in ToSet(Items(t, p))
        /\ (Leaf(t, p) <=> IsData(n))
        /\ \A y \in M \ {t.root} : lv[y] = lv[Up(t, y)] + 1 /\ Up(t, y) \in M
    BY <1>1 DEF Tree, Shape, Levels, Upward, Joined
  <1>3. /\ P \subseteq M /\ n \in P
        /\ \A y \in P : lv[y] <= lv[n] /\ (y # t.root => Up(t, y) \in P /\ y \in ToSet(Items(t, Up(t, y))))
        /\ \A y, z \in P : lv[y] = lv[z] => y = z
    BY <1>2 DEF Path
  <1>4. \A y \in P \ {n} : lv[y] < lv[n]
    BY <1>2, <1>3
  <1>5. p \in P \ {n}
    BY <1>1, <1>2, <1>3
  <1>6. \A y \in P \ {n} : lv[y] <= lv[p]
    BY <1>2, <1>3, <1>4
  <1>7. \A y \in P \ {n} : y # t.root => Up(t, y) \in P \ {n}
    <2> SUFFICES ASSUME NEW y \in P \ {n}, y # t.root
                 PROVE  Up(t, y) # n
      BY <1>3
    <2>1. lv[y] = lv[Up(t, y)] + 1 /\ lv[y] < lv[n] /\ lv[y] \in Nat /\ lv[n] \in Nat /\ lv[Up(t, y)] \in Nat
      BY <1>2, <1>3, <1>4
    <2> QED BY <2>1
  <1>8. Path(t, M, lv, {t.root}, p, P \ {n})
    BY <1>3, <1>5, <1>6, <1>7 DEF Path
  <1> QED BY <1>1, <1>2, <1>4, <1>5, <1>8

-----------------------------------------------------------------------------
(* The parts that wait while an under-full path is condensed *)

Entry == [entry : Int, leaf : BOOLEAN, level : Int]

\* The part below entry e.entry, as it was in u0, hangs in u.
Waits(u0, u, lv, h, e) ==
  /\ e.entry \in Names(u0)
  /\ Hanging(u, Desc(u0, e.entry), Only(lv, Desc(u0, e.entry)), e.entry, h)
  /\ e.level \in Nat \ {0} /\ lv[e.entry] = e.level + 1 /\ (IsData(e.entry) <=> e.leaf)
  /\ ~ e.leaf => e.level < h /\ Items(u, e.entry) # <<>>
  /\ e.leaf => Desc(u0, e.entry) = {e.entry}

\* Those of q after the k-th wait outside B.
Queued(u0, u, lv, h, q, k, B) ==
  \A j \in (k + 1)..Len(q) : Waits(u0, u, lv, h, q[j]) /\ Desc(u0, q[j].entry) \cap B = {}

Apart(u0, q) ==
  \A i, j \in 1..Len(q) : i # j => Desc(u0, q[i].entry) \cap Desc(u0, q[j].entry) = {}

Rest(u0, q, k) == UNION {Desc(u0, q[j].entry) : j \in (k + 1)..Len(q)}

LEMMA WaitsOn ==
  ASSUME NEW u0, NEW u, NEW v, NEW lv, NEW h, NEW e, Waits(u0, u, lv, h, e), Agree(u, v, Desc(u0, e.entry)),
         v.height >= u.height, v.root \notin Desc(u0, e.entry)
  PROVE  Waits(u0, v, lv, h, e)
  <1>1. PICK D, ld, x : D = Desc(u0, e.entry) /\ ld = Only(lv, D) /\ x = e.entry
    OBVIOUS
  <1>2. Hanging(u, D, ld, x, h) /\ Agree(u, v, D)
    BY <1>1 DEF Waits
  <1>3. Hanging(v, D, ld, x, h)
    BY <1>1, <1>2, AgreeHanging
  <1>4. Items(v, x) = Items(u, x)
    BY <1>2 DEF Hanging, Agree, Alike
  <1> QED BY <1>1, <1>3, <1>4 DEF Waits

LEMMA QueueOn ==
  ASSUME NEW u, NEW v, NEW lv, NEW h, NEW q, NEW M, Queued(u, u, lv, h, q, 0, M), Apart(u, q),
         u \in Trees, v \in Trees, Linked(u), Linked(v), Names(u) = Names(v), SameTop(u, v),
         \A y \in Names(u) \ M : Alike(u, v, y), u.root \in M
  PROVE  Queued(v, v, lv, h, q, 0, M) /\ Apart(v, q) /\ Rest(v, q, 0) = Rest(u, q, 0)
  <1>1. ASSUME NEW j \in 1..Len(q)
        PROVE  Desc(v, q[j].entry) = Desc(u, q[j].entry) /\ Waits(v, v, lv, h, q[j]) /\ Desc(v, q[j].entry) \cap M = {}
    <2>1. Waits(u, u, lv, h, q[j]) /\ Desc(u, q[j].entry) \cap M = {}
      <3>1. j \in (0 + 1)..Len(q)
        BY <1>1
      <3> QED BY <3>1 DEF Queued
    <2>2. PICK x, D : x = q[j].entry /\ D = Desc(u, x)
      OBVIOUS
    <2>3. x \in Names(u) /\ D \subseteq Names(u) /\ D \cap M = {}
      BY <2>1, <2>2 DEF Waits, Hanging
    <2>4. \A y \in D : Alike(u, v, y)
      BY <2>3
    <2>5. Desc(v, x) = D
      BY <2>2, <2>3, <2>4, DescAgree DEF Alike
    <2>6. Agree(u, v, D)
      BY <2>3, <2>4 DEF Agree, SameTop
    <2>7. v.height >= u.height /\ v.root \notin D
      <3>1. u.height \in Nat /\ v.height = u.height /\ v.root = u.root
        BY TreeIs DEF SameTop
      <3> QED BY <3>1, <2>3
    <2>8. Waits(u, v, lv, h, q[j])
      BY <2>1, <2>2, <2>6, <2>7, WaitsOn
    <2>9. Waits(v, v, lv, h, q[j])
      BY <2>2, <2>5, <2>8 DEF Waits
    <2> QED BY <2>2, <2>3, <2>5, <2>9
  <1>2. Queued(v, v, lv, h, q, 0, M)
    <2>1. \A j \in (0 + 1)..Len(q) : j \in 1..Len(q)
      OBVIOUS
    <2> QED BY <2>1, <1>1 DEF Queued
  <1>3. Apart(v, q)
    BY <1>1 DEF Apart
  <1>4. Rest(v, q, 0) = Rest(u, q, 0)
    <2>1. \A j \in (0 + 1)..Len(q) : Desc(v, q[j].entry) = Desc(u, q[j].entry)
      BY <1>1
    <2> QED BY <2>1 DEF Rest
  <1> QED BY <1>2, <1>3, <1>4

\* The indices of two sequences in their concatenation.
Joins(q, r, s, m, n) ==
  /\ m \in Nat /\ n \in Nat /\ m = Len(q) /\ n = Len(r) /\ s = q \o r /\ s \in Seq(Entry) /\ Len(s) = m + n
  /\ \A j \in 1..m : j \in 1..(m + n) /\ s[j] = q[j]
  /\ \A j \in 1..n : m + j \in 1..(m + n) /\ s[m + j] = r[j]
  /\ \A j \in 1..(m + n) : j \in 1..m \/ (j - m \in 1..n /\ s[j] = r[j - m])

LEMMA ConcatIndex ==
  ASSUME NEW q \in Seq(Entry), NEW r \in Seq(Entry)
  PROVE  \E s, m, n : Joins(q, r, s, m, n)
  <1>1. PICK m \in Nat, n \in Nat : m = Len(q) /\ n = Len(r)
    BY SeqIs
  <1>2. PICK s : s = q \o r
    OBVIOUS
  <1>3. /\ s \in Seq(Entry) /\ Len(s) = m + n
        /\ \A j \in 1..(m + n) : s[j] = IF j <= m THEN q[j] ELSE r[j - m]
    BY <1>1, <1>2
  <1>9. \A j \in 1..m : j \in 1..(m + n) /\ s[j] = q[j]
    <2> SUFFICES ASSUME NEW j \in 1..m
                 PROVE  j \in 1..(m + n) /\ s[j] = q[j]
      OBVIOUS
    <2>1. j \in 1..(m + n) /\ j <= m
      OBVIOUS
    <2> QED BY <2>1, <1>3
  <1>10. \A j \in 1..n : m + j \in 1..(m + n) /\ s[m + j] = r[j]
    <2> SUFFICES ASSUME NEW j \in 1..n
                 PROVE  m + j \in 1..(m + n) /\ s[m + j] = r[j]
      OBVIOUS
    <2>1. m + j \in 1..(m + n) /\ ~ (m + j <= m) /\ (m + j) - m = j
      OBVIOUS
    <2> QED BY <2>1, <1>3
  <1>11. \A j \in 1..(m + n) : j \in 1..m \/ (j - m \in 1..n /\ s[j] = r[j - m])
    <2> SUFFICES ASSUME NEW j \in 1..(m + n), ~ (j <= m)
                 PROVE  j - m \in 1..n /\ s[j] = r[j - m]
      OBVIOUS
    <2>1. j - m \in 1..n
      OBVIOUS
    <2> QED BY <2>1, <1>3
  <1>4. Joins(q, r, s, m, n)
    BY <1>1, <1>2, <1>3, <1>9, <1>10, <1>11 DEF Joins
  <1> QED BY <1>4

LEMMA RestMore ==
  ASSUME NEW v, NEW q \in Seq(Entry), NEW r \in Seq(Entry)
  PROVE  Rest(v, q \o r, 0) = Rest(v, q, 0) \cup Rest(v, r, 0)
  <1>1. PICK s, m, n : Joins(q, r, s, m, n)
    BY ConcatIndex
  <1>2. m \in Nat /\ n \in Nat /\ m = Len(q) /\ n = Len(r) /\ s = q \o r
    BY <1>1 DEF Joins
  <1>3. s \in Seq(Entry) /\ Len(s) = m + n
    BY <1>1 DEF Joins
  <1>4. /\ \A j \in 1..m : j \in 1..(m + n) /\ s[j] = q[j]
        /\ \A j \in 1..n : m + j \in 1..(m + n) /\ s[m + j] = r[j]
        /\ \A j \in 1..(m + n) : j \in 1..m \/ (j - m \in 1..n /\ s[j] = r[j - m])
    BY <1>1 DEF Joins
  <1>8. Rest(v, s, 0) = Rest(v, q, 0) \cup Rest(v, r, 0)
    <2>1. (0 + 1)..Len(s) = 1..(m + n) /\ (0 + 1)..Len(q) = 1..m /\ (0 + 1)..Len(r) = 1..n
      BY <1>2, <1>3
    <2>2. \A j \in 1..(m + n) : \/ j \in 1..m /\ Desc(v, s[j].entry) = Desc(v, q[j].entry)
                                \/ j - m \in 1..n /\ Desc(v, s[j].entry) = Desc(v, r[j - m].entry)
      BY <1>4
    <2>3. Rest(v, s, 0) \subseteq Rest(v, q, 0) \cup Rest(v, r, 0)
      BY <2>1, <2>2 DEF Rest
    <2>4. Rest(v, q, 0) \subseteq Rest(v, s, 0)
      BY <2>1, <1>4 DEF Rest
    <2>5. Rest(v, r, 0) \subseteq Rest(v, s, 0)
      BY <2>1, <1>4 DEF Rest
    <2> QED BY <2>3, <2>4, <2>5
  <1> QED BY <1>2, <1>8

\* More parts, taken out of M, of which N is left.
LEMMA QueueMore ==
  ASSUME NEW v, NEW lv, NEW h, NEW q \in Seq(Entry), NEW r \in Seq(Entry), NEW M, NEW N, N \subseteq M,
         Queued(v, v, lv, h, q, 0, M), Apart(v, q), Apart(v, r),
         \A j \in 1..Len(r) : Waits(v, v, lv, h, r[j]) /\ Desc(v, r[j].entry) \subseteq M \ N
  PROVE  q \o r \in Seq(Entry) /\ Queued(v, v, lv, h, q \o r, 0, N) /\ Apart(v, q \o r)
  <1>1. PICK s, m, n : Joins(q, r, s, m, n)
    BY ConcatIndex
  <1>2. m \in Nat /\ n \in Nat /\ m = Len(q) /\ n = Len(r) /\ s = q \o r
    BY <1>1 DEF Joins
  <1>3. s \in Seq(Entry) /\ Len(s) = m + n
    BY <1>1 DEF Joins
  <1>4. /\ \A j \in 1..m : j \in 1..(m + n) /\ s[j] = q[j]
        /\ \A j \in 1..n : m + j \in 1..(m + n) /\ s[m + j] = r[j]
        /\ \A j \in 1..(m + n) : j \in 1..m \/ (j - m \in 1..n /\ s[j] = r[j - m])
    BY <1>1 DEF Joins
  <1>5. \A j \in 1..m : Waits(v, v, lv, h, q[j]) /\ Desc(v, q[j].entry) \cap M = {}
    <2>1. \A j \in 1..m : j \in (0 + 1)..Len(q)
      BY <1>2
    <2> QED BY <2>1 DEF Queued
  <1>6. Queued(v, v, lv, h, s, 0, N)
    <2> SUFFICES ASSUME NEW j \in (0 + 1)..Len(s)
                 PROVE  Waits(v, v, lv, h, s[j]) /\ Desc(v, s[j].entry) \cap N = {}
      BY DEF Queued
    <2>1. j \in 1..(m + n)
      BY <1>3
    <2>2. CASE j \in 1..m
      BY <2>2, <1>4, <1>5
    <2>3. CASE j - m \in 1..n /\ s[j] = r[j - m]
      BY <2>3, <1>2
    <2> QED BY <2>1, <2>2, <2>3, <1>4
  <1>7. Apart(v, s)
    <2> SUFFICES ASSUME NEW i \in 1..Len(s), NEW j \in 1..Len(s), i # j
                 PROVE  Desc(v, s[i].entry) \cap Desc(v, s[j].entry) = {}
      BY DEF Apart
    <2>1. i \in 1..(m + n) /\ j \in 1..(m + n)
      BY <1>3
    <2>2. CASE i \in 1..m /\ j \in 1..m
      BY <2>2, <1>2, <1>4 DEF Apart
    <2>3. CASE i \in 1..m /\ j - m \in 1..n /\ s[j] = r[j - m]
      BY <2>3, <1>2, <1>4, <1>5
    <2>4. CASE j \in 1..m /\ i - m \in 1..n /\ s[i] = r[i - m]
      BY <2>4, <1>2, <1>4, <1>5
    <2>5. CASE i - m \in 1..n /\ s[i] = r[i - m] /\ j - m \in 1..n /\ s[j] = r[j - m]
      <3>1. i - m # j - m
        BY <2>1, <1>2
      <3> QED BY <3>1, <2>5, <1>2 DEF Apart
    <2> QED BY <2>1, <2>2, <2>3, <2>4, <2>5, <1>4
  <1> QED BY <1>2, <1>3, <1>6, <1>7

-----------------------------------------------------------------------------
\* The sizes of the nodes of M while node a may have one entry too few.
Filled(t, M, a) ==
  /\ \A m \in M : ~ IsData(m) /\ m # t.root /\ m # a => Len(Items(t, m)) >= MinChildItems
  /\ a # t.root => Len(Items(t, a)) >= MinChildItems - 1
  /\ a # t.root => Leaf(t, t.root) \/ Len(Items(t, t.root)) >= 2

\* The state s of the loop of condenseTree: M is what is left of tree t, and Q the objects
\* of M and of the parts that wait; the boxes on the way from s.at to the root are out of date.
Condensing(t, lv, Q, s, M, P) ==
  /\ SameTop(t, s.tree) /\ Names(s.tree) = Names(t)
  /\ Tree(s.tree, M, Only(lv, M), t.height)
  /\ s.at \in M /\ ~ IsData(s.at) /\ lv[s.at] = s.level
  /\ Filled(s.tree, M, s.at)
  /\ Snug(s.tree, M, P) /\ Path(s.tree, M, Only(lv, M), {t.root}, s.at, P)
  /\ s.queue \in Seq(Entry)
  /\ Queued(s.tree, s.tree, lv, t.height, s.queue, 0, M) /\ Apart(s.tree, s.queue)
  /\ Q = {x \in M \cup Rest(s.tree, s.queue, 0) : IsData(x)}
  /\ \A x \in Q : Bound(s.tree, x) = Bound(t, x)

EntriesOf(u, a, level) ==
  [j \in DOMAIN Items(u, a) |-> [entry |-> Items(u, a)[j], leaf |-> Leaf(u, a), level |-> level]]

\* The parts below the entries of node a wait, once a is cut off.
LEMMA EntriesWait ==
  ASSUME NEW u, NEW M, NEW lv, NEW h, Tree(u, M, Only(lv, M), h), h = u.height, NEW a \in M \ {u.root}, NEW P, Snug(u, M, P),
         \A y \in P : lv[y] <= lv[a], ~ IsData(a), Filled(u, M, a), NEW p \in M, p \notin Desc(u, a), NEW v, IsCut(u, v, p, a),
         Linked(v)
  PROVE  /\ EntriesOf(u, a, lv[a]) \in Seq(Entry) /\ Apart(v, EntriesOf(u, a, lv[a]))
         /\ \A j \in 1..Len(EntriesOf(u, a, lv[a])) :
              /\ Waits(v, v, lv, h, EntriesOf(u, a, lv[a])[j])
              /\ Desc(v, EntriesOf(u, a, lv[a])[j].entry) \subseteq Desc(u, a)
         /\ Desc(u, a) = {a} \cup Rest(v, EntriesOf(u, a, lv[a]), 0)
  <1>1. PICK lw, D : lw = Only(lv, M) /\ D = Desc(u, a)
    OBVIOUS
  <1>2. /\ u \in Trees /\ Shape(u, M, lw, {u.root}, h) /\ Levels(u, M, lw, {u.root}) /\ Kinds(u, M, lw, h)
        /\ Downward(u, M, lw, {u.root}) /\ Linked(u) /\ Owned(u, M) /\ ~ u.twin /\ ~ u.tied /\ Tree(u, M, lw, h)
    BY <1>1 DEF Tree, Shape
  <1>3. M \subseteq Names(u) /\ a \in Names(u) /\ \A y \in M : lv[y] = lw[y] /\ lv[y] \in Nat /\ lv[y] >= 1
    <2>1. \A y \in M : lw[y] = lv[y]
      BY <1>1, OnlyIs
    <2> QED BY <2>1, <1>2 DEF Levels
  <1>4. PICK s : s = Items(u, a)
    OBVIOUS
  <1>5. PICK n \in Nat : n = Len(s) /\ s \in Seq(Int) /\ DOMAIN s = 1..n /\ IsInjective(s) /\ ToSet(s) = {s[i] : i \in 1..n}
    <2>1. s \in Seq(Int) /\ IsInjective(s)
      BY <1>2, <1>3, <1>4, NodeIs DEF Kinds
    <2> QED BY <2>1, SeqIs
  <1>6. PICK r : r = EntriesOf(u, a, lv[a])
    OBVIOUS
  <1>7. /\ r \in Seq(Entry) /\ Len(r) = n
        /\ \A j \in 1..n : r[j].entry = s[j] /\ r[j].leaf = Leaf(u, a) /\ r[j].level = lv[a]
    <2>1. \A j \in 1..n : [entry |-> s[j], leaf |-> Leaf(u, a), level |-> lv[a]] \in Entry
      <3>1. \A j \in 1..n : s[j] \in Int
        BY <1>5, SeqIs
      <3>2. Leaf(u, a) \in BOOLEAN /\ lv[a] \in Int
        BY <1>2, <1>3, NodeIs DEF Leaf
      <3> QED BY <3>1, <3>2 DEF Entry
    <2>2. r = [j \in 1..n |-> [entry |-> s[j], leaf |-> Leaf(u, a), level |-> lv[a]]]
      BY <1>4, <1>5, <1>6 DEF EntriesOf
    <2> QED BY <2>1, <2>2
  <1>8. /\ D \subseteq M /\ a \in D /\ Closed(u, D) /\ D = {a} \cup UNION {Desc(u, x) : x \in ToSet(s)}
    <2>1. D \subseteq M
      BY <1>1, <1>2, DescLevels
    <2>2. a \in D /\ Closed(u, D)
      BY <1>1, <1>2, <1>3, DescIs
    <2>3. D = {a} \cup UNION {Desc(u, x) : x \in ToSet(s)}
      BY <1>1, <1>2, <1>3, <1>4, DescUnion
    <2> QED BY <2>1, <2>2, <2>3
  <1>9. /\ v \in Trees /\ Names(v) = Names(u) /\ v.root = u.root /\ v.height = u.height /\ v.twin = u.twin /\ v.tied = u.tied
        /\ \A y \in Names(u) : y # p => Alike(u, v, y)
    BY DEF IsCut, SameTop, Alike
  <1>10. ASSUME NEW x \in ToSet(s)
         PROVE  /\ Hanging(v, Desc(u, x), Only(lv, Desc(u, x)), x, h) /\ Desc(v, x) = Desc(u, x) /\ Desc(u, x) \subseteq D
                /\ x \in M \ {u.root} /\ lv[x] = lv[a] + 1 /\ (IsData(x) <=> Leaf(u, a)) /\ x \in Names(v)
                /\ ~ IsData(x) => lv[x] <= h /\ Items(v, x) # <<>>
                /\ IsData(x) => Desc(u, x) = {x}
    <2>1. x \in M \ {u.root} /\ lv[x] = lv[a] + 1 /\ (IsData(x) <=> Leaf(u, a))
      BY <1>2, <1>3, <1>4, <1>10 DEF Downward
    <2>2. PICK E : E = Desc(u, x)
      OBVIOUS
    <2>3. /\ x \in Names(u) /\ E \subseteq M /\ \A y \in E : lv[y] >= lv[x] /\ (y # x => y # u.root)
      <3>1. /\ x \in Names(u) /\ Desc(u, x) \subseteq M /\ \A y \in Desc(u, x) : lw[y] >= lw[x] /\ (y # x => y \notin {u.root})
        BY <1>2, <2>1, DescLevels
      <3> QED BY <3>1, <2>1, <2>2, <1>3
    <2>4. E \subseteq D
      <3>1. x \in Desc(u, a)
        BY <1>1, <1>4, <1>8, <1>10 DEF Closed
      <3> QED BY <3>1, <2>2, <1>1, <1>2, <1>3, DescClosed
    <2>5. \A y \in E : lv[y] > lv[a] /\ y # u.root /\ y # a
      BY <2>1, <2>3, <1>3
    <2>6. E \cap P = {}
      <3> SUFFICES ASSUME NEW y \in E, y \in P
                   PROVE  FALSE
        OBVIOUS
      <3>1. lv[y] > lv[a] /\ lv[y] <= lv[a] /\ lv[y] \in Nat /\ lv[a] \in Nat
        BY <2>3, <2>5, <1>3
      <3> QED BY <3>1
    <2>7. \A m \in E : ~ IsData(m) => Len(Items(u, m)) >= MinChildItems
      BY <2>3, <2>5 DEF Filled
    <2>8. Hanging(u, E, Only(lv, E), x, h)
      <3>1. Hanging(u, E, Only(lw, E), x, h)
        BY <2>1, <2>2, <2>6, <2>7, <1>2, HangsOff
      <3>2. Only(lw, E) = Only(lv, E)
        BY <2>3, <1>1, OnlyIs
      <3> QED BY <3>1, <3>2
    <2>9. Agree(u, v, E)
      <3>1. p \notin E
        BY <2>4, <1>1
      <3> QED BY <3>1, <2>3, <1>2, <1>3, <1>9 DEF Agree
    <2>10. Hanging(v, E, Only(lv, E), x, h)
      <3>1. v.root \notin E
        BY <2>5, <1>9
      <3>2. v.height >= u.height
        BY <1>2, <1>9, TreeIs
      <3> QED BY <3>1, <3>2, <2>8, <2>9, AgreeHanging
    <2>11. Desc(v, x) = E
      <3>1. \A y \in E : Items(v, y) = Items(u, y)
        BY <2>9 DEF Agree, Alike
      <3> QED BY <3>1, <2>2, <2>3, <1>2, <1>3, <1>9, DescAgree
    <2>12. ~ IsData(x) => lv[x] <= h /\ Items(v, x) # <<>>
      <3> SUFFICES ASSUME ~ IsData(x)
                   PROVE  lv[x] <= h /\ Items(v, x) # <<>>
        OBVIOUS
      <3>1. lv[x] <= h
        BY <2>1, <1>2, <1>3 DEF Levels
      <3>2. x \in E
        BY <2>2, <2>3, <1>2, DescIs
      <3>3. Len(Items(u, x)) >= MinChildItems /\ Items(v, x) = Items(u, x) /\ Items(u, x) \in Seq(Int)
        BY <3>2, <2>3, <2>7, <2>9, <1>2, NodeIs DEF Agree, Alike
      <3>4. Len(Items(u, x)) # 0
        BY <3>3, SeqIs, RtreeAssumption
      <3> QED BY <3>1, <3>3, <3>4, SeqIs
    <2>13. IsData(x) => E = {x}
      <3> SUFFICES ASSUME IsData(x)
                   PROVE  E = {x}
        OBVIOUS
      <3>1. Items(u, x) = <<>>
        BY <2>1, <1>2 DEF Kinds
      <3>2. ToSet(Items(u, x)) = {}
        BY <3>1, <2>3, <1>2, NodeIs, SeqIs
      <3> QED BY <3>2, <2>2, <2>3, <1>2, DescUnion
    <2> QED BY <2>1, <2>2, <2>3, <2>4, <2>10, <2>11, <2>12, <2>13, <1>9
  <1>11. \A j \in 1..n : s[j] \in ToSet(s)
    BY <1>5
  <1>12. ASSUME NEW j \in 1..n
         PROVE  Waits(v, v, lv, h, r[j]) /\ Desc(v, r[j].entry) \subseteq D
    <2>1. PICK x : x = s[j] /\ x \in ToSet(s)
      BY <1>11
    <2>2. /\ Hanging(v, Desc(v, x), Only(lv, Desc(v, x)), x, h) /\ Desc(v, x) \subseteq D
          /\ lv[x] = lv[a] + 1 /\ (IsData(x) <=> Leaf(u, a)) /\ x \in Names(v)
          /\ ~ IsData(x) => lv[x] <= h /\ Items(v, x) # <<>>
          /\ IsData(x) => Desc(v, x) = {x}
      BY <2>1, <1>10
    <2>3. r[j].entry = x /\ r[j].leaf = Leaf(u, a) /\ r[j].level = lv[a]
      BY <2>1, <1>7
    <2>4. h \in Nat
      BY <1>2, TreeIs
    <2>5. ~ IsData(x) => lv[a] < h
      BY <2>2, <2>4, <1>3
    <2> QED BY <2>2, <2>3, <2>5, <1>3 DEF Waits
  <1>13. Apart(v, r)
    <2> SUFFICES ASSUME NEW i \in 1..n, NEW j \in 1..n, i # j
                 PROVE  Desc(v, r[i].entry) \cap Desc(v, r[j].entry) = {}
      BY <1>7 DEF Apart
    <2>1. PICK x, y : x = s[i] /\ y = s[j] /\ x \in ToSet(s) /\ y \in ToSet(s)
      BY <1>11
    <2>2. x # y
      BY <2>1, <1>5 DEF IsInjective
    <2>3. x \in M /\ y \in M /\ lw[x] = lw[y]
      BY <2>1, <1>3, <1>10
    <2>4. Desc(u, x) \cap Desc(u, y) = {}
      BY <2>2, <2>3, <1>2, DescApart
    <2>5. Desc(v, x) = Desc(u, x) /\ Desc(v, y) = Desc(u, y)
      BY <2>1, <1>10
    <2> QED BY <2>1, <2>4, <2>5, <1>7
  <1>14. D = {a} \cup Rest(v, r, 0)
    <2>1. (0 + 1)..Len(r) = 1..n
      BY <1>7
    <2>2. \A j \in 1..n : Desc(v, r[j].entry) = Desc(u, s[j])
      BY <1>7, <1>10, <1>11
    <2>3. Rest(v, r, 0) = UNION {Desc(u, s[j]) : j \in 1..n}
      BY <2>1, <2>2 DEF Rest
    <2>4. UNION {Desc(u, x) : x \in ToSet(s)} = UNION {Desc(u, s[j]) : j \in 1..n}
      BY <1>5
    <2> QED BY <2>3, <2>4, <1>8
  <1> QED BY <1>1, <1>6, <1>7, <1>12, <1>13, <1>14

-----------------------------------------------------------------------------
\* What the two cases of a turn start from: u is the tree, a the node, p its parent.
Turning(t, lv, s, M, P, u, a, p, lw) ==
  /\ u = s.tree /\ a = s.at /\ p = Up(u, a) /\ lw = Only(lv, M)
  /\ Tree(u, M, lw, t.height) /\ u \in Trees /\ Linked(u) /\ u.root = t.root /\ u.height = t.height
  /\ M \subseteq Names(u) /\ a \in M \ {u.root} /\ ~ IsData(a)
  /\ p \in M /\ p \in P \ {a} /\ p # a /\ ~ IsData(p) /\ a \in ToSet(Items(u, p)) /\ ~ Leaf(u, p)
  /\ Path(u, M, lw, {u.root}, p, P \ {a}) /\ P \subseteq M
  /\ \A y \in P \ {a} : lv[y] < lv[a]
  /\ \A y \in M : lv[y] \in Nat /\ lv[y] >= 1
  /\ lv[p] = lv[a] - 1 /\ lv[a] = s.level

LEMMA UpLevels ==
  ASSUME NEW u, NEW M, NEW lw, NEW c, NEW a, NEW P, Tree(u, M, lw, c), a \in M \ {u.root},
         Path(u, M, lw, {u.root}, a, P)
  PROVE  /\ Path(u, M, lw, {u.root}, Up(u, a), P \ {a}) /\ Up(u, a) \in P \ {a} /\ Up(u, a) \in M
         /\ \A y \in P \ {a} : lw[y] < lw[a]
  BY PathUp

LEMMA CondensingIs ==
  ASSUME NEW t \in Trees, NEW lv, NEW Q, NEW s, NEW M, NEW P, Condensing(t, lv, Q, s, M, P), s.at # t.root
  PROVE  \E u, a, p, lw : Turning(t, lv, s, M, P, u, a, p, lw)
  <1>1. PICK u, a, lw, c : u = s.tree /\ a = s.at /\ lw = Only(lv, M) /\ c = t.height
    OBVIOUS
  <1>2. /\ Tree(u, M, lw, c) /\ u.root = t.root /\ u.height = c /\ a \in M \ {u.root} /\ ~ IsData(a)
        /\ Path(u, M, lw, {u.root}, a, P) /\ lv[a] = s.level
    BY <1>1 DEF Condensing, SameTop
  <1>3. PICK p : p = Up(u, a)
    OBVIOUS
  <1>4. Path(u, M, lw, {u.root}, p, P \ {a}) /\ p \in P \ {a} /\ p \in M
    BY <1>2, <1>3, PathUp, ZenonT(60)
  <1>5. /\ Path(u, M, lw, {u.root}, Up(u, a), P \ {a}) /\ Up(u, a) \in P \ {a} /\ Up(u, a) \in M
        /\ \A y \in P \ {a} : lw[y] < lw[a]
    BY <1>2, UpLevels
  <1>6. /\ lw[a] = lw[Up(u, a)] + 1 /\ lw[Up(u, a)] \in Nat
        /\ a \in ToSet(Items(u, Up(u, a))) /\ ~ IsData(Up(u, a))
    BY <1>2, PathUp, ZenonT(60)
  <1>7. a \in ToSet(Items(u, p)) /\ ~ IsData(p)
    BY <1>2, <1>3, PathUp
  <1>8. Leaf(u, p) <=> IsData(a)
    BY <1>2, <1>3, PathUp
  <1>9. \A y \in M : lv[y] = lw[y]
    BY <1>1, OnlyIs
  <1>10. u \in Trees /\ Linked(u) /\ ~ u.twin /\ M \subseteq Names(u) /\ \A y \in M : lw[y] \in Nat /\ lw[y] >= 1
    BY <1>2 DEF Tree, Shape, Levels
  <1>11. P \subseteq M
    BY <1>2, <1>10 DEF Path
  <1>12. \A y \in P \ {a} : lv[y] < lv[a]
    BY <1>2, <1>5, <1>9, <1>11
  <1>13. lv[p] = lv[a] - 1
    BY <1>2, <1>3, <1>4, <1>6, <1>9
  <1>14. \A y \in M : lv[y] \in Nat /\ lv[y] >= 1
    BY <1>9, <1>10
  <1>15. Turning(t, lv, s, M, P, u, a, p, lw)
    BY <1>1, <1>2, <1>3, <1>4, <1>7, <1>8, <1>10, <1>11, <1>12, <1>13, <1>14 DEF Turning
  <1> QED BY <1>15

LEMMA CondensedUnder ==
  ASSUME NEW t \in Trees, NEW lv, NEW Q, NEW s, NEW M, NEW P, Condensing(t, lv, Q, s, M, P), s.at # t.root,
         Len(Items(s.tree, s.at)) < MinChildItems
  PROVE  \E N, R : Condensing(t, lv, Q, Condensed(s), N, R) /\ Condensed(s).level = s.level - 1
  <1>1. PICK u, a, p, lw, q, h : Turning(t, lv, s, M, P, u, a, p, lw) /\ q = s.queue /\ h = t.height
    BY CondensingIs
  <1>0. u = s.tree /\ a = s.at /\ p = Up(u, a) /\ lw = Only(lv, M) /\ q = s.queue /\ h = t.height
    BY <1>1 DEF Turning
  <1>2. /\ Tree(u, M, lw, h) /\ u \in Trees /\ Linked(u) /\ u.root = t.root /\ u.height = h
        /\ M \subseteq Names(u) /\ a \in M \ {u.root} /\ ~ IsData(a)
        /\ p \in M /\ p \in P \ {a} /\ p # a /\ ~ IsData(p) /\ a \in ToSet(Items(u, p))
        /\ Path(u, M, lw, {u.root}, p, P \ {a}) /\ P \subseteq M
        /\ \A y \in P \ {a} : lv[y] < lv[a]
        /\ \A y \in M : lv[y] \in Nat /\ lv[y] >= 1
        /\ lv[p] = lv[a] - 1 /\ lv[a] = s.level
    BY <1>1 DEF Turning
  <1>3. /\ SameTop(t, u) /\ Names(u) = Names(t) /\ Filled(u, M, a) /\ Snug(u, M, P) /\ q \in Seq(Entry)
        /\ Queued(u, u, lv, h, q, 0, M) /\ Apart(u, q)
        /\ Q = {x \in M \cup Rest(u, q, 0) : IsData(x)} /\ \A x \in Q : Bound(u, x) = Bound(t, x)
    BY <1>0 DEF Condensing
  <1>4. PICK i : i = CHOOSE j \in DOMAIN Items(u, p) : Items(u, p)[j] = a
    OBVIOUS
  <1>5. i \in 1..Len(Items(u, p)) /\ Items(u, p)[i] = a
    <2>1. Items(u, p) \in Seq(Int)
      BY <1>2, NodeIs
    <2>2. \E j \in 1..Len(Items(u, p)) : Items(u, p)[j] = a
      BY <2>1, <1>2, SetIndex
    <2>3. DOMAIN Items(u, p) = 1..Len(Items(u, p))
      BY <2>1
    <2> QED BY <2>2, <2>3, <1>4
  <1>6. PICK v : v = SetItems(u, p, SwapOut(Items(u, p), i))
    OBVIOUS
  <1>7. IsCut(u, v, p, a)
    <2>1. IsInjective(Items(u, p)) /\ p \in Names(u)
      BY <1>2 DEF Tree, Shape, Kinds
    <2> QED BY <2>1, <1>2, <1>5, <1>6, CutIs
  <1>8. Len(Items(u, p)) >= 2 \/ Leaf(u, p)
    <2>1. CASE p = u.root
      BY <2>1, <1>2, <1>3 DEF Filled
    <2>2. CASE p # u.root
      <3>1. Len(Items(u, p)) >= MinChildItems
        BY <2>2, <1>2, <1>3 DEF Filled
      <3>2. Len(Items(u, p)) \in Nat
        BY <1>2, NodeIs, SeqIs
      <3> QED BY <3>1, <3>2, RtreeAssumption
    <2> QED BY <2>1, <2>2
  <1>9. PICK D, N : D = Desc(u, a) /\ N = M \ D
    OBVIOUS
  <1>10. /\ Tree(v, N, Only(lw, N), h) /\ p \notin D /\ D \subseteq M
    BY <1>2, <1>7, <1>8, <1>9, CutTree
  <1>11. Only(lw, N) = Only(lv, N)
    BY <1>0, <1>9, OnlyIs
  <1>12. a \in D /\ \A y \in D : lv[y] >= lv[a]
    <2>1. a \in D
      BY <1>2, <1>9, DescIs
    <2>2. \A y \in D : lw[y] >= lw[a]
      <3>1. Shape(u, M, lw, {u.root}, h)
        BY <1>2 DEF Tree
      <3> QED BY <3>1, <1>2, <1>9, DescLevels
    <2>3. \A y \in M : lw[y] = lv[y]
      BY <1>0, OnlyIs
    <2> QED BY <2>1, <2>2, <2>3, <1>2, <1>10
  <1>13. P \ {a} \subseteq N
    <2> SUFFICES ASSUME NEW y \in P \ {a}, y \in D
                 PROVE  FALSE
      BY <1>2, <1>9
    <2>1. lv[y] < lv[a] /\ lv[y] >= lv[a] /\ lv[y] \in Nat /\ lv[a] \in Nat
      BY <1>2, <1>12
    <2> QED BY <2>1
  <1>14. Path(v, N, Only(lv, N), {v.root}, p, P \ {a})
    <2>1. a \notin P \ {a} /\ N \subseteq M
      BY <1>9
    <2>2. PICK R : R = P \ {a}
      OBVIOUS
    <2>3. Path(u, M, lw, {u.root}, p, R) /\ a \notin R /\ R \subseteq N
      BY <2>1, <2>2, <1>2, <1>13
    <2>4. Path(v, N, Only(lw, N), {v.root}, p, R)
      BY <2>1, <2>3, <1>2, <1>7, CutPath
    <2> QED BY <2>2, <2>4, <1>11
  <1>15. Snug(v, N, P \ {a})
    <2>1. N \subseteq M /\ N \cap P \subseteq P \ {a} /\ p \in P
      BY <1>2, <1>9, <1>12
    <2> QED BY <2>1, <1>2, <1>3, <1>7, CutSnug
  <1>16. /\ v \in Trees /\ Linked(v) /\ Names(v) = Names(u) /\ SameTop(u, v) /\ v.root = u.root /\ v.height = u.height
         /\ Len(Items(v, p)) = Len(Items(u, p)) - 1
         /\ \A y \in Names(u) : /\ y # p => Alike(u, v, y) /\ Items(v, y) = Items(u, y)
                                /\ Bound(v, y) = Bound(u, y) /\ Leaf(v, y) = Leaf(u, y)
    BY <1>7, <1>10 DEF Tree, IsCut, SameTop, Alike
  <1>17. Filled(v, N, p)
    <2>1. ASSUME NEW m \in N, ~ IsData(m), m # v.root, m # p
          PROVE  Len(Items(v, m)) >= MinChildItems
      <3>1. m \in M /\ m # a /\ m # u.root
        BY <2>1, <1>9, <1>12, <1>16
      <3>2. Len(Items(u, m)) >= MinChildItems
        BY <3>1, <2>1, <1>3 DEF Filled
      <3> QED BY <3>1, <3>2, <2>1, <1>2, <1>16
    <2>2. p # v.root => Len(Items(v, p)) >= MinChildItems - 1
      <3> SUFFICES ASSUME p # v.root
                   PROVE  Len(Items(v, p)) >= MinChildItems - 1
        OBVIOUS
      <3>1. Len(Items(u, p)) >= MinChildItems
        BY <1>2, <1>3, <1>16 DEF Filled
      <3>2. Len(Items(u, p)) \in Nat
        BY <1>2, NodeIs, SeqIs
      <3> QED BY <3>1, <3>2, <1>16, RtreeAssumption
    <2>3. p # v.root => Leaf(v, v.root) \/ Len(Items(v, v.root)) >= 2
      <3>1. Leaf(u, u.root) \/ Len(Items(u, u.root)) >= 2
        BY <1>2, <1>3 DEF Filled
      <3>2. u.root \in Names(u)
        BY <1>2, TreeIs
      <3> QED BY <3>1, <3>2, <1>16
    <2> QED BY <2>1, <2>2, <2>3 DEF Filled
  <1>18. PICK r : r = EntriesOf(u, a, lv[a])
    OBVIOUS
  <1>19. /\ r \in Seq(Entry) /\ Apart(v, r)
         /\ \A j \in 1..Len(r) : Waits(v, v, lv, h, r[j]) /\ Desc(v, r[j].entry) \subseteq D
         /\ D = {a} \cup Rest(v, r, 0)
    <2>1. \A y \in P : lv[y] <= lv[a]
      <3>1. \A y \in P \ {a} : lv[y] <= lv[a]
        BY <1>2
      <3> QED BY <3>1, <1>2
    <2>2. Tree(u, M, Only(lv, M), h) /\ h = u.height
      BY <1>0, <1>2
    <2>3. p \notin Desc(u, a)
      BY <1>9, <1>10
    <2>4. /\ r \in Seq(Entry) /\ Apart(v, r)
          /\ \A j \in 1..Len(r) : Waits(v, v, lv, h, r[j]) /\ Desc(v, r[j].entry) \subseteq Desc(u, a)
          /\ Desc(u, a) = {a} \cup Rest(v, r, 0)
      BY <2>1, <2>2, <2>3, <1>2, <1>3, <1>7, <1>16, <1>18, EntriesWait
    <2> QED BY <2>4, <1>9
  <1>20. Queued(v, v, lv, h, q, 0, M) /\ Apart(v, q) /\ Rest(v, q, 0) = Rest(u, q, 0)
    <2>1. \A y \in Names(u) \ M : Alike(u, v, y)
      BY <1>2, <1>16
    <2>2. u.root \in M
      BY <1>2 DEF Tree, Shape, Levels
    <2> QED BY <2>1, <2>2, <1>2, <1>3, <1>16, QueueOn
  <1>21. PICK z : z = q \o r
    OBVIOUS
  <1>22. z \in Seq(Entry) /\ Queued(v, v, lv, h, z, 0, N) /\ Apart(v, z) /\ Rest(v, z, 0) = Rest(v, q, 0) \cup Rest(v, r, 0)
    <2>1. N \subseteq M /\ D = M \ N
      BY <1>9, <1>10
    <2>2. \A j \in 1..Len(r) : Waits(v, v, lv, h, r[j]) /\ Desc(v, r[j].entry) \subseteq M \ N
      BY <2>1, <1>19
    <2>3. N \subseteq M /\ q \in Seq(Entry) /\ r \in Seq(Entry) /\ Queued(v, v, lv, h, q, 0, M) /\ Apart(v, q) /\ Apart(v, r)
      BY <2>1, <1>3, <1>19, <1>20
    <2>4. z \in Seq(Entry) /\ Queued(v, v, lv, h, z, 0, N) /\ Apart(v, z)
      BY <2>2, <2>3, <1>21, QueueMore
    <2>5. Rest(v, q \o r, 0) = Rest(v, q, 0) \cup Rest(v, r, 0)
      BY <2>3, RestMore
    <2> QED BY <2>4, <2>5, <1>21
  <1>23. Q = {x \in N \cup Rest(v, z, 0) : IsData(x)}
    <2>1. M = N \cup {a} \cup Rest(v, r, 0)
      BY <1>9, <1>10, <1>19
    <2> QED BY <2>1, <1>2, <1>3, <1>20, <1>22
  <1>24. \A x \in Q : Bound(v, x) = Bound(t, x)
    <2> SUFFICES ASSUME NEW x \in Q
                 PROVE  Bound(v, x) = Bound(t, x)
      OBVIOUS
    <2>1. x \in Names(u)
      <3>1. Rest(u, q, 0) \subseteq Names(u)
        <4>1. \A j \in (0 + 1)..Len(q) : Desc(u, q[j].entry) \subseteq Names(u)
          BY <1>3 DEF Queued, Waits, Hanging
        <4> QED BY <4>1 DEF Rest
      <3> QED BY <3>1, <1>2, <1>3
    <2> QED BY <2>1, <1>3, <1>16
  <1>25. PICK c : c = Condensed(s)
    OBVIOUS
  <1>26. c.tree = v /\ c.queue = z /\ c.at = p /\ c.level = s.level - 1
    <2>1. r = [j \in DOMAIN Items(s.tree, s.at) |->
                 [entry |-> Items(s.tree, s.at)[j], leaf |-> s.tree.node[s.at].leaf, level |-> s.level]]
      BY <1>0, <1>2, <1>18 DEF EntriesOf, Leaf
    <2> QED BY <2>1, <1>0, <1>4, <1>6, <1>21, <1>25 DEF Condensed, Up
  <1>27. SameTop(t, v) /\ Names(v) = Names(t)
    BY <1>3, <1>16 DEF SameTop
  <1>28. Condensing(t, lv, Q, c, N, P \ {a})
    <2>1. p \in N
      BY <1>2, <1>9, <1>10
    <2>2. lv[p] = c.level
      BY <1>2, <1>26
    <2> QED BY <2>1, <2>2, <1>0, <1>2, <1>10, <1>11, <1>14, <1>15, <1>16, <1>17, <1>22, <1>23, <1>24, <1>26, <1>27 DEF Condensing
  <1> QED BY <1>25, <1>26, <1>28

LEMMA CondensedKept ==
  ASSUME NEW t \in Trees, NEW lv, NEW Q, NEW s, NEW M, NEW P, Condensing(t, lv, Q, s, M, P), s.at # t.root,
         ~ (Len(Items(s.tree, s.at)) < MinChildItems)
  PROVE  \E N, R : Condensing(t, lv, Q, Condensed(s), N, R) /\ Condensed(s).level = s.level - 1
  <1>1. PICK u, a, p, lw, q, h : Turning(t, lv, s, M, P, u, a, p, lw) /\ q = s.queue /\ h = t.height
    BY CondensingIs
  <1>0. u = s.tree /\ a = s.at /\ p = Up(u, a) /\ lw = Only(lv, M) /\ q = s.queue /\ h = t.height
    BY <1>1 DEF Turning
  <1>2. /\ Tree(u, M, lw, h) /\ u \in Trees /\ Linked(u) /\ u.root = t.root /\ u.height = h
        /\ M \subseteq Names(u) /\ a \in M \ {u.root} /\ ~ IsData(a)
        /\ p \in M /\ p \in P \ {a} /\ p # a /\ ~ IsData(p) /\ a \in ToSet(Items(u, p))
        /\ Path(u, M, lw, {u.root}, p, P \ {a})
        /\ lv[p] = lv[a] - 1 /\ lv[a] = s.level
    BY <1>1 DEF Turning
  <1>3. /\ SameTop(t, u) /\ Names(u) = Names(t) /\ Filled(u, M, a) /\ Snug(u, M, P) /\ q \in Seq(Entry)
        /\ Queued(u, u, lv, h, q, 0, M) /\ Apart(u, q)
        /\ Q = {x \in M \cup Rest(u, q, 0) : IsData(x)} /\ \A x \in Q : Bound(u, x) = Bound(t, x)
    BY <1>0 DEF Condensing
  <1>4. Len(Items(u, a)) >= MinChildItems /\ Items(u, a) # <<>> /\ Items(u, a) \in Seq(Int) /\ ToSet(Items(u, a)) \subseteq Names(u)
    <2>1. Items(u, a) \in Seq(Int) /\ ToSet(Items(u, a)) \subseteq Names(u)
      BY <1>2, NodeIs DEF Linked
    <2>2. PICK i \in Nat : i = Len(Items(u, a))
      BY <2>1, SeqIs
    <2>3. i >= MinChildItems /\ i # 0
      BY <2>2, <1>0, RtreeAssumption
    <2> QED BY <2>1, <2>2, <2>3, SeqIs
  <1>5. PICK b : b = ComputeBB(u, Items(u, a)) /\ b \in BoxSet
    BY <1>2, <1>4, ComputeBBIs
  <1>6. PICK v : v = SetBox(u, a, b)
    OBVIOUS
  <1>7. SameLinks(u, v) /\ \A x \in Names(u) : Bound(v, x) = IF x = a THEN b ELSE Bound(u, x)
    BY <1>2, <1>5, <1>6, BoxSameLinks
  <1>8. /\ v \in Trees /\ Names(v) = Names(u) /\ SameTop(u, v) /\ v.root = u.root /\ v.height = u.height
        /\ v.twin = u.twin /\ v.tied = u.tied
        /\ \A n \in Names(u) : Items(v, n) = Items(u, n) /\ Leaf(v, n) = Leaf(u, n) /\ Up(v, n) = Up(u, n)
    BY <1>7 DEF SameLinks, SameTop
  <1>9. /\ Shape(u, M, lw, {u.root}, h) /\ Owned(u, M) /\ Joined(u, M) /\ Fits(u, {}) /\ ~ u.twin /\ ~ u.tied
        /\ Upward(u, M, lw, {u.root}) /\ u.root \in M
    BY <1>2 DEF Tree, Shape, Levels
  <1>10. /\ Shape(v, M, lw, {u.root}, h) /\ Linked(v) /\ Fits(v, {}) /\ Owned(v, M)
         /\ Path(v, M, lw, {u.root}, p, P \ {a})
    BY <1>2, <1>7, <1>9, SameLinksKeep
  <1>11. Joined(v, M)
    <2> SUFFICES ASSUME NEW x \in M \ {u.root}
                 PROVE  x \in ToSet(Items(v, Up(v, x)))
      BY <1>8 DEF Joined
    <2>1. x \in ToSet(Items(u, Up(u, x))) /\ Up(u, x) \in Names(u) /\ x \in Names(u)
      BY <1>2, <1>9 DEF Joined, Upward
    <2> QED BY <2>1, <1>8
  <1>12. Tree(v, M, lw, h)
    BY <1>8, <1>9, <1>10, <1>11 DEF Tree
  <1>13. Snug(v, M, P \ {a})
    <2>1. \A m \in M : a \in ToSet(Items(u, m)) => m \in P
      BY <1>0, <1>2, <1>9 DEF Owned
    <2> QED BY <2>1, <1>2, <1>3, <1>4, <1>5, <1>6, <1>9, BoxSnug
  <1>14. Filled(v, M, p)
    <2>1. \A m \in M : ~ IsData(m) /\ m # u.root => Len(Items(u, m)) >= MinChildItems
      BY <1>3, <1>4 DEF Filled
    <2>2. \A m \in M : Items(v, m) = Items(u, m)
      BY <1>2, <1>8
    <2>3. p # u.root => Len(Items(v, p)) >= MinChildItems - 1
      <3>1. Len(Items(u, p)) \in Nat
        BY <1>2, NodeIs, SeqIs
      <3>2. \A i \in Nat : i >= MinChildItems => i >= MinChildItems - 1
        BY RtreeAssumption
      <3> QED BY <3>1, <3>2, <2>1, <2>2, <1>2
    <2>4. Leaf(v, v.root) \/ Len(Items(v, v.root)) >= 2
      BY <2>2, <1>2, <1>3, <1>8, <1>9 DEF Filled
    <2> QED BY <2>1, <2>2, <2>3, <2>4, <1>8 DEF Filled
  <1>15. Queued(v, v, lv, h, q, 0, M) /\ Apart(v, q) /\ Rest(v, q, 0) = Rest(u, q, 0)
    <2>1. \A y \in Names(u) \ M : Alike(u, v, y)
      BY <1>2, <1>7, <1>8 DEF Alike
    <2> QED BY <2>1, <1>2, <1>3, <1>8, <1>9, <1>10, QueueOn
  <1>16. \A x \in Q : Bound(v, x) = Bound(t, x)
    <2> SUFFICES ASSUME NEW x \in Q
                 PROVE  Bound(v, x) = Bound(t, x)
      OBVIOUS
    <2>1. x \in Names(u) /\ x # a
      <3>1. Rest(u, q, 0) \subseteq Names(u)
        <4>1. \A j \in (0 + 1)..Len(q) : Desc(u, q[j].entry) \subseteq Names(u)
          BY <1>3 DEF Queued, Waits, Hanging
        <4> QED BY <4>1 DEF Rest
      <3> QED BY <3>1, <1>2, <1>3
    <2> QED BY <2>1, <1>3, <1>7
  <1>17. PICK c : c = Condensed(s)
    OBVIOUS
  <1>18. c.tree = v /\ c.queue = q /\ c.at = p /\ c.level = s.level - 1
    BY <1>0, <1>5, <1>6, <1>17 DEF Condensed, Up, SetBound
  <1>19. SameTop(t, v) /\ Names(v) = Names(t)
    BY <1>3, <1>8 DEF SameTop
  <1>20. Condensing(t, lv, Q, c, M, P \ {a})
    <2>1. Path(v, M, lw, {t.root}, p, P \ {a})
      BY <1>2, <1>10
    <2> QED BY <2>1, <1>0, <1>2, <1>3, <1>12, <1>13, <1>14, <1>15, <1>16, <1>18, <1>19 DEF Condensing
  <1> QED BY <1>17, <1>18, <1>20

-----------------------------------------------------------------------------
\* The states of condenseTree's loop.
Turns4 == [tree : Trees, queue : Seq(Entry), at : Int, level : Int]

\* A state of the loop at that level.
Condenses(t, lv, Q, s, level) == s \in Turns4 /\ s.level = level /\ \E M, P : Condensing(t, lv, Q, s, M, P)

LEMMA CondensingRoot ==
  ASSUME NEW t \in Trees, NEW lv, NEW Q, NEW s, NEW M, NEW P, Condensing(t, lv, Q, s, M, P)
  PROVE  s.at = t.root <=> s.level = 1
  <1>1. PICK u, lw : u = s.tree /\ lw = Only(lv, M)
    OBVIOUS
  <1>2. u.root = t.root /\ Levels(u, M, lw, {u.root}) /\ Upward(u, M, lw, {u.root}) /\ s.at \in M /\ lv[s.at] = s.level
    BY <1>1 DEF Condensing, Tree, Shape, SameTop
  <1>3. lw[s.at] = s.level
    BY <1>1, <1>2, OnlyIs, ZenonT(60)
  <1>4. s.at = t.root => s.level = 1
    BY <1>2, <1>3 DEF Levels
  <1>5. CASE s.at # t.root
    <2>1. lw[s.at] = lw[Up(u, s.at)] + 1 /\ Up(u, s.at) \in M
      BY <1>2, <1>5 DEF Upward
    <2>2. lw[Up(u, s.at)] >= 1 /\ lw[Up(u, s.at)] \in Nat
      BY <1>2, <2>1 DEF Levels
    <2>3. lw[s.at] # 1
      BY <2>1, <2>2
    <2> QED BY <1>3, <1>5, <2>3
  <1> QED BY <1>4, <1>5

LEMMA CondensesOn ==
  ASSUME NEW t \in Trees, NEW lv, NEW Q, NEW s, NEW level \in Nat, level >= 2, Condenses(t, lv, Q, s, level)
  PROVE  Condenses(t, lv, Q, Condensed(s), level - 1)
  <1>1. PICK M, P : Condensing(t, lv, Q, s, M, P)
    BY DEF Condenses
  <1>2. s.level = level /\ s.at # t.root
    BY <1>1, CondensingRoot DEF Condenses
  <1>3. \E N, R : Condensing(t, lv, Q, Condensed(s), N, R) /\ Condensed(s).level = s.level - 1
    BY <1>1, <1>2, CondensedUnder, CondensedKept
  <1>4. PICK r : r = Condensed(s)
    OBVIOUS
  <1>5. PICK N, R : Condensing(t, lv, Q, r, N, R) /\ r.level = level - 1
    BY <1>2, <1>3, <1>4
  <1>6. PICK a, b, c, d : r = [tree |-> a, queue |-> b, at |-> c, level |-> d]
    BY <1>4 DEF Condensed
  <1>7. r.tree \in Trees /\ r.queue \in Seq(Entry) /\ r.at \in Int /\ r.level \in Int
    <2>1. r.tree \in Trees /\ r.at \in Names(r.tree)
      BY <1>5 DEF Condensing, Tree, Shape, Levels
    <2> QED BY <2>1, <1>5, TreeIs DEF Condensing
  <1>8. r \in Turns4
    BY <1>6, <1>7 DEF Turns4
  <1> QED BY <1>4, <1>5, <1>8 DEF Condenses

CondenseStep(t, n, level, h) ==
  [k \in 1..level |->
     IF k = 1 THEN [tree |-> t, queue |-> <<>>, at |-> n, level |-> level] ELSE Condensed(h[k - 1])]

CondenseLoop(t, n, level) == CHOOSE h : h = CondenseStep(t, n, level, h)

\* The loop ends at the root, in a state the entries that wait are put back from.
LEMMA CondenseTreeIs ==
  ASSUME NEW t \in Trees, NEW lv, NEW Q, NEW w \in Trees, NEW n, NEW level \in Nat \ {0}, NEW base,
         base = [tree |-> w, queue |-> <<>>, at |-> n, level |-> level],
         Condenses(t, lv, Q, base, level)
  PROVE  \E s : Condenses(t, lv, Q, s, 1) /\ CondenseTree(w, n, level) = ReinsertAll(s)
  <1> DEFINE W == [k \in 1..level |-> {s \in Turns4 : Condenses(t, lv, Q, s, (level - k) + 1)}]
             G == [kv \in (2..level) \X Turns4 |-> Condensed(kv[2])]
  <1>1. base \in W[1]
    <2>1. 1 \in 1..level /\ (level - 1) + 1 = level
      OBVIOUS
    <2>2. base \in Turns4
      BY DEF Condenses
    <2> QED BY <2>1, <2>2
  <1>2. ASSUME NEW k \in 2..level, NEW v \in W[k - 1]
        PROVE  v \in Turns4 /\ Condensed(v) \in W[k]
    <2>1. k - 1 \in 1..level /\ k \in 1..level /\ (level - (k - 1)) + 1 \in Nat /\ (level - (k - 1)) + 1 >= 2
          /\ ((level - (k - 1)) + 1) - 1 = (level - k) + 1
      OBVIOUS
    <2>2. v \in Turns4 /\ Condenses(t, lv, Q, v, (level - (k - 1)) + 1)
      BY <2>1
    <2>3. Condenses(t, lv, Q, Condensed(v), ((level - (k - 1)) + 1) - 1)
      BY <2>1, <2>2, CondensesOn
    <2>4. Condenses(t, lv, Q, Condensed(v), (level - k) + 1)
      BY <2>1, <2>3
    <2>5. Condensed(v) \in Turns4
      BY <2>4 DEF Condenses
    <2> QED BY <2>1, <2>2, <2>4, <2>5
  <1>3. \A k \in 2..level : \A v \in W[k - 1] : G[<<k, v>>] = Condensed(v)
    <2> SUFFICES ASSUME NEW k \in 2..level, NEW v \in W[k - 1]
                 PROVE  G[<<k, v>>] = Condensed(v)
      OBVIOUS
    <2>1. v \in Turns4
      BY <1>2
    <2> HIDE DEF W
    <2> QED BY <2>1
  <1> HIDE DEF W, G
  <1>4. Turns1(level, W, base, G)
    BY <1>1, <1>2, <1>3 DEF Turns1
  <1>5. PICK f : Turned1(f, level, W, base, G)
    BY <1>4, Loop1Exists
  <1>6. \A k \in 2..level : k - 1 \in 1..level /\ k \in 1..level /\ k # 1
    OBVIOUS
  <1>7. f = CondenseStep(w, n, level, f)
    <2>1. \A k \in 2..level : f[k] = Condensed(f[k - 1])
      BY <1>3, <1>5, <1>6 DEF Turned1
    <2>2. \A k \in 1..level : f[k] = IF k = 1 THEN base ELSE Condensed(f[k - 1])
      <3>1. \A k \in 1..level : k = 1 \/ k \in 2..level
        OBVIOUS
      <3> QED BY <2>1, <3>1, <1>5, <1>6 DEF Turned1
    <2>3. f = [k \in 1..level |-> f[k]]
      BY <1>5 DEF Turned1
    <2>4. f = [k \in 1..level |-> IF k = 1 THEN base ELSE Condensed(f[k - 1])]
      BY <2>2, <2>3
    <2> QED BY <2>4 DEF CondenseStep
  <1>8. PICK h : h = CondenseLoop(w, n, level)
    OBVIOUS
  <1>9. h = CondenseStep(w, n, level, h)
    BY <1>7, <1>8 DEF CondenseLoop
  <1>10. h[1] = base /\ \A k \in 2..level : h[k] = Condensed(h[k - 1])
    <2>1. 1 \in 1..level
      OBVIOUS
    <2>2. h = [k \in 1..level |-> IF k = 1 THEN base ELSE Condensed(h[k - 1])]
      BY <1>9 DEF CondenseStep
    <2>3. \A k \in 1..level : h[k] = IF k = 1 THEN base ELSE Condensed(h[k - 1])
      BY <2>2
    <2> QED BY <2>1, <2>3, <1>6
  <1>11. h[level] \in W[level]
    <2>1. h[1] \in W[1]
      BY <1>1, <1>10
    <2>2. \A k \in 2..level : h[k - 1] \in W[k - 1] => h[k] \in W[k]
      BY <1>2, <1>10
    <2>3. \A k \in 1..level : h[k] \in W[k]
      BY <2>1, <2>2, Loop1Stays
    <2> QED BY <2>3
  <1>12. Condenses(t, lv, Q, h[level], 1)
    <2>1. level \in 1..level /\ (level - level) + 1 = 1
      OBVIOUS
    <2> QED BY <2>1, <1>11 DEF W
  <1>13. CondenseTree(w, n, level) = ReinsertAll(h[level])
    BY <1>8 DEF CondenseTree, CondenseLoop, CondenseStep
  <1> QED BY <1>12, <1>13

-----------------------------------------------------------------------------
(* Putting the entries that wait back *)

\* After k entries: a tree at rest with the nodes B, whose leaves are at level c.
Refilled(t, lv, Q, u0, q, k, h, w, B, lw, c) ==
  /\ Settled(w, B, lw, c) /\ c \in Int /\ c >= h /\ (~ w.skewed => c = w.height) /\ w.height >= h
  /\ Queued(u0, w, lv, h, q, k, B)
  /\ Q = {x \in B \cup Rest(u0, q, k) : IsData(x)}
  /\ \A x \in Q : Bound(w, x) = Bound(t, x)
  /\ w.size = t.size /\ w.lopped = t.lopped
  /\ Len(Items(w, w.root)) >= 2 \/ B \cap Strays(w) = {}

\* The part D, with root x, is in the tree.
Grafted(w, B, D, x, u, C, c) ==
  /\ Names(w) \subseteq Names(u) /\ C = B \cup D \cup (Names(u) \ Names(w)) /\ D \subseteq Names(w) /\ x \in D
  /\ \A n \in Names(u) \ Names(w) : ~ IsData(n)
  /\ \A n \in Names(w) : IsData(n) => Bound(u, n) = Bound(w, n)
  /\ \A n \in Names(w) \ (B \cup D) : Alike(w, u, n)
  /\ u.size = w.size /\ u.lopped = w.lopped /\ (~ u.twin => ~ w.twin) /\ (~ u.tied => ~ w.tied)
  /\ (\E lw : Settled(u, C, lw, c)) /\ c \in Int
  /\ \E g : Tops(w, x, u, g)

LEMMA TopsHeight ==
  ASSUME NEW t \in Trees, NEW x, NEW u, NEW g, Tops(t, x, u, g)
  PROVE  u.height >= t.height
  <1>1. t.height \in Nat
    BY TreeIs
  <1> QED BY <1>1 DEF Tops

LEMMA RefilledOn ==
  ASSUME NEW t, NEW lv, NEW Q, NEW u0, NEW q \in Seq(Entry), NEW k \in 1..Len(q), NEW h \in Nat, NEW w, NEW B, NEW lw, NEW c,
         Refilled(t, lv, Q, u0, q, k - 1, h, w, B, lw, c), Apart(u0, q),
         NEW x, x = q[k].entry, NEW D, D = Desc(u0, x),
         NEW u, NEW C, NEW e, Grafted(w, B, D, x, u, C, e), e >= h, ~ u.skewed => e = u.height
  PROVE  \E lx : Refilled(t, lv, Q, u0, q, k, h, u, C, lx, e)
  <1>1. PICK n \in Nat : n = Len(q)
    BY SeqIs
  <1>2. k \in (k - 1 + 1)..Len(q) /\ \A j \in (k + 1)..Len(q) : j \in (k - 1 + 1)..Len(q) /\ j \in 1..Len(q) /\ j # k
    BY <1>1
  <1>3. Waits(u0, w, lv, h, q[k]) /\ D \cap B = {}
    BY <1>2 DEF Refilled, Queued
  <1>4. /\ w \in Trees /\ B \subseteq Names(w) /\ w.root \in B /\ D \subseteq Names(w) /\ x \in D /\ w.root \notin D
        /\ \A y \in D \ {x} : Up(w, y) \in D
    BY <1>3 DEF Refilled, Settled, Whole, Shape, Levels, Waits, Hanging, Upward
  <1>5. PICK lx, g : Settled(u, C, lx, e) /\ Tops(w, x, u, g)
    BY DEF Grafted
  <1>6. u \in Trees /\ u.root \in C /\ u.height >= w.height
    <2>1. u \in Trees /\ u.root \in C
      BY <1>5 DEF Settled, Whole, Shape, Levels
    <2>2. u.height >= w.height
      BY <1>4, <1>5, TopsHeight
    <2> QED BY <2>1, <2>2
  <1>7. Queued(u0, u, lv, h, q, k, C)
    <2> SUFFICES ASSUME NEW j \in (k + 1)..Len(q)
                 PROVE  Waits(u0, u, lv, h, q[j]) /\ Desc(u0, q[j].entry) \cap C = {}
      BY DEF Queued
    <2>1. PICK E : E = Desc(u0, q[j].entry)
      OBVIOUS
    <2>2. Waits(u0, w, lv, h, q[j]) /\ E \cap B = {}
      BY <1>2, <2>1 DEF Refilled, Queued
    <2>3. E \cap D = {}
      BY <1>2, <2>1 DEF Apart
    <2>4. E \subseteq Names(w)
      BY <2>1, <2>2 DEF Waits, Hanging
    <2>5. E \cap C = {}
      BY <2>2, <2>3, <2>4 DEF Grafted
    <2>6. Agree(w, u, E)
      BY <2>2, <2>3, <2>4, <1>4, <1>6 DEF Agree, Grafted
    <2>7. u.root \notin E
      BY <2>5, <1>6
    <2> QED BY <2>1, <2>2, <2>5, <2>6, <2>7, <1>6, WaitsOn
  <1>8. Rest(u0, q, k - 1) = D \cup Rest(u0, q, k)
    <2>1. \A j \in (k - 1 + 1)..Len(q) : j = k \/ j \in (k + 1)..Len(q)
      BY <1>1
    <2>2. \A j \in (k - 1 + 1)..Len(q) : Desc(u0, q[j].entry) \subseteq D \cup Rest(u0, q, k)
      BY <2>1 DEF Rest
    <2>3. Rest(u0, q, k - 1) \subseteq D \cup Rest(u0, q, k)
      BY <2>2 DEF Rest
    <2>4. D \cup Rest(u0, q, k) \subseteq Rest(u0, q, k - 1)
      BY <1>2 DEF Rest
    <2> QED BY <2>3, <2>4
  <1>9. Q = {y \in C \cup Rest(u0, q, k) : IsData(y)}
    <2>1. Q = {y \in B \cup (D \cup Rest(u0, q, k)) : IsData(y)}
      BY <1>8 DEF Refilled
    <2>2. C = B \cup D \cup (Names(u) \ Names(w)) /\ \A y \in Names(u) \ Names(w) : ~ IsData(y)
      BY DEF Grafted
    <2> QED BY <2>1, <2>2
  <1>10. \A y \in Q : Bound(u, y) = Bound(t, y)
    <2> SUFFICES ASSUME NEW y \in Q
                 PROVE  Bound(u, y) = Bound(t, y)
      OBVIOUS
    <2>1. IsData(y) /\ y \in B \cup Rest(u0, q, k - 1) /\ Bound(w, y) = Bound(t, y)
      BY DEF Refilled
    <2>2. Rest(u0, q, k - 1) \subseteq Names(w)
      <3>1. \A j \in (k - 1 + 1)..Len(q) : Desc(u0, q[j].entry) \subseteq Names(w)
        BY DEF Refilled, Queued, Waits, Hanging
      <3> QED BY <3>1 DEF Rest
    <2>3. y \in Names(w)
      BY <2>1, <2>2, <1>4
    <2> QED BY <2>1, <2>3 DEF Grafted
  <1>11. Len(Items(u, u.root)) >= 2 \/ C \cap Strays(u) = {}
    <2>1. CASE g = 1
      <3>1. Len(Items(u, u.root)) = 2
        BY <2>1, <1>5 DEF Tops
      <3> QED BY <3>1
    <2>2. CASE g = 0
      <3>1. /\ u.root = w.root /\ Len(Items(u, u.root)) >= Len(Items(w, w.root))
            /\ Strays(u) \subseteq Strays(w) \ {x}
        <4>1. Waiting(x) = {x}
          <5>1. x # Nil
            BY <1>4, TreeIs DEF Nil
          <5> QED BY <5>1 DEF Waiting
        <4> QED BY <4>1, <2>2, <1>5 DEF Tops
      <3>2. ASSUME Len(Items(w, w.root)) >= 2
            PROVE  Len(Items(u, u.root)) >= 2 \/ C \cap Strays(u) = {}
        <4>1. Len(Items(w, w.root)) \in Nat /\ Len(Items(u, u.root)) \in Nat
          <5>1. w.root \in Names(w) /\ u.root \in Names(u)
            BY <1>4, <1>6, TreeIs
          <5> QED BY <5>1, <1>4, <1>6, NodeIs, SeqIs
        <4> QED BY <4>1, <3>1, <3>2
      <3>3. ASSUME B \cap Strays(w) = {}
            PROVE  Len(Items(u, u.root)) >= 2 \/ C \cap Strays(u) = {}
        <4> SUFFICES ASSUME NEW y \in C, y \in Strays(u)
                     PROVE  FALSE
          OBVIOUS
        <4>1. y \in Names(w) /\ y # x /\ Up(w, y) = w.root /\ y \in Strays(w)
          BY <3>1 DEF Strays
        <4>2. y \in D
          BY <4>1, <3>3 DEF Grafted
        <4> QED BY <4>1, <4>2, <1>4
      <3>4. Len(Items(w, w.root)) >= 2 \/ B \cap Strays(w) = {}
        BY DEF Refilled
      <3> QED BY <3>2, <3>3, <3>4
    <2>3. g = 0 \/ g = 1
      BY <1>5 DEF Tops
    <2> QED BY <2>1, <2>2, <2>3
  <1>12. u.height >= h
    <2>1. w.height >= h /\ w.height \in Nat /\ u.height \in Nat
      BY <1>4, <1>6, TreeIs DEF Refilled
    <2> QED BY <2>1, <1>6
  <1>13. e \in Int /\ u.size = t.size /\ u.lopped = t.lopped
    BY DEF Grafted, Refilled
  <1> QED BY <1>5, <1>7, <1>9, <1>10, <1>11, <1>12, <1>13 DEF Refilled

-----------------------------------------------------------------------------
\* An entry of a leaf.
LEMMA LeafBack ==
  ASSUME NEW t, NEW lv, NEW Q, NEW u0, NEW q \in Seq(Entry), NEW k \in 1..Len(q), NEW h \in Nat, NEW w, NEW B, NEW lw, NEW c,
         Refilled(t, lv, Q, u0, q, k - 1, h, w, B, lw, c), Apart(u0, q), q[k].leaf
  PROVE  \E C, lx, e : Refilled(t, lv, Q, u0, q, k, h, Reinsert(w, q[k], h), C, lx, e)
  <1>1. PICK x, D, u, b : x = q[k].entry /\ D = Desc(u0, x) /\ u = InsertLeaf(w, x, b, TRUE) /\ b = Bound(w, x)
    OBVIOUS
  <1>2. Waits(u0, w, lv, h, q[k]) /\ D \cap B = {}
    <2>1. k \in (k - 1 + 1)..Len(q)
      <3>1. Len(q) \in Nat
        BY SeqIs
      <3> QED BY <3>1
    <2> QED BY <2>1, <1>1 DEF Refilled, Queued
  <1>3. D = {x} /\ IsData(x) /\ D \subseteq Names(w) /\ w \in Trees /\ x \notin B
    BY <1>1, <1>2 DEF Waits, Hanging
  <1>4. Settled(w, B, lw, c) /\ c \in Int /\ c >= h /\ (~ w.skewed => c = w.height) /\ w.height \in Nat /\ w.size \in Int
    BY <1>3, TreeIs DEF Refilled
  <1>5. x \in Nat /\ b \in BoxSet
    <2>1. x \in Int
      BY <1>3, TreeIs
    <2> QED BY <2>1, <1>1, <1>3, NodeIs DEF IsData
  <1>6. IsInserted(w, B, c, x, b, w.size, u)
    BY <1>1, <1>3, <1>4, <1>5, InsertLeafIs
  <1>7. PICK C : C = Grew(B \cup {x}, w, u)
    OBVIOUS
  <1>8. PICK lx, g : Tops(w, x, u, g) /\ Settled(u, C, lx, c + g)
    BY <1>6, <1>7 DEF IsInserted
  <1>9. g \in {0, 1} /\ u.height = w.height + g
    BY <1>8 DEF Tops
  <1>10. PICK e : e = c + g
    OBVIOUS
  <1>11. e \in Int /\ e >= h
    BY <1>4, <1>9, <1>10
  <1>12. ~ u.skewed => e = u.height
    BY <1>4, <1>6, <1>9, <1>10 DEF IsInserted, Puts
  <1>13. Grafted(w, B, D, x, u, C, e)
    <2>1. /\ Names(w) \subseteq Names(u) /\ C = B \cup D \cup (Names(u) \ Names(w))
          /\ \A n \in Names(u) \ Names(w) : ~ IsData(n)
      BY <1>3, <1>6, <1>7 DEF IsInserted, Puts, Grew
    <2>2. \A n \in Names(w) : IsData(n) => Bound(u, n) = Bound(w, n)
      BY <1>1, <1>6 DEF IsInserted, Puts
    <2>3. \A n \in Names(w) \ (B \cup D) : Alike(w, u, n)
      BY <1>3, <1>6 DEF IsInserted, Puts
    <2>4. u.size = w.size /\ u.lopped = w.lopped /\ (~ u.twin => ~ w.twin) /\ (~ u.tied => ~ w.tied)
      BY <1>6 DEF IsInserted, Puts
    <2> QED BY <2>1, <2>2, <2>3, <2>4, <1>3, <1>8, <1>10, <1>11 DEF Grafted
  <1>14. Reinsert(w, q[k], h) = u
    BY <1>1 DEF Reinsert
  <1>15. \E ly : Refilled(t, lv, Q, u0, q, k, h, u, C, ly, e)
    BY <1>1, <1>11, <1>12, <1>13, RefilledOn
  <1> QED BY <1>14, <1>15

LEMMA HangingBox ==
  ASSUME NEW t, NEW D, NEW ld, NEW x, NEW c, Hanging(t, D, ld, x, c), Linked(t), Items(t, x) # <<>>, NEW u, u = SetBound(t, x)
  PROVE  /\ Hanging(u, D, ld, x, c) /\ SameLinks(t, u)
         /\ \A y \in Names(t) : y # x => Alike(t, u, y)
  <1>1. t \in Trees /\ x \in D /\ D \subseteq Names(t) /\ ~ (t.root \in D)
    BY DEF Hanging
  <1>2. PICK b : b = ComputeBB(t, Items(t, x)) /\ b \in BoxSet
    <2>1. Items(t, x) \in Seq(Int) /\ ToSet(Items(t, x)) \subseteq Names(t)
      BY <1>1, NodeIs DEF Linked
    <2> QED BY <2>1, <1>1, ComputeBBIs
  <1>3. u = SetBox(t, x, b)
    BY <1>2 DEF SetBound
  <1>4. SameLinks(t, u) /\ \A y \in Names(t) : Bound(u, y) = IF y = x THEN b ELSE Bound(t, y)
    BY <1>1, <1>2, <1>3, BoxSameLinks
  <1>5. /\ u \in Trees /\ Names(u) = Names(t) /\ u.root = t.root /\ u.height = t.height /\ u.twin = t.twin /\ u.tied = t.tied
        /\ \A n \in Names(t) : Items(u, n) = Items(t, n) /\ Leaf(u, n) = Leaf(t, n) /\ Up(u, n) = Up(t, n)
    BY <1>4 DEF SameLinks, SameTop
  <1>6. \A y \in Names(t) : y # x => Alike(t, u, y)
    BY <1>4, <1>5 DEF Alike
  <1>7. CASE ~ t.twin
    <2>1. Bound(t, x) = b
      BY <1>1, <1>2, <1>7 DEF Hanging, Snug
    <2>2. \A y \in D : Alike(t, u, y)
      BY <2>1, <1>1, <1>4, <1>5 DEF Alike
    <2>3. Agree(t, u, D)
      BY <2>2, <1>1, <1>5 DEF Agree
    <2>4. u.height >= t.height /\ u.root \notin D
      BY <1>1, <1>5, TreeIs
    <2>5. Hanging(u, D, ld, x, c)
      BY <2>3, <2>4, AgreeHanging
    <2> QED BY <2>5, <1>4, <1>6
  <1>8. CASE t.twin
    <2>1. Kinds(u, D, ld, c) /\ Downward(u, D, ld, {x}) /\ Upward(u, D, ld, {x})
      <3>1. Kinds(t, D, ld, c) /\ Downward(t, D, ld, {x}) /\ Upward(t, D, ld, {x})
        BY DEF Hanging
      <3>2. Kinds(u, D, ld, c)
        BY <3>1, <1>1, <1>5 DEF Kinds
      <3>3. Downward(u, D, ld, {x})
        BY <3>1, <1>1, <1>5 DEF Downward
      <3>4. Upward(u, D, ld, {x})
        <4> SUFFICES ASSUME NEW y \in D \ {x}
                     PROVE  Up(u, y) \in D /\ ~ IsData(Up(u, y)) /\ ld[y] = ld[Up(u, y)] + 1
                            /\ (IsData(y) <=> Leaf(u, Up(u, y)))
          BY DEF Upward
        <4>1. Up(t, y) \in D /\ ~ IsData(Up(t, y)) /\ ld[y] = ld[Up(t, y)] + 1 /\ (IsData(y) <=> Leaf(t, Up(t, y)))
          BY <3>1 DEF Upward
        <4> QED BY <4>1, <1>1, <1>5
      <3> QED BY <3>2, <3>3, <3>4
    <2>2. Full(u, D, {x})
      <3>1. Full(t, D, {x}) /\ \A y \in D \ {x} : Up(t, y) \in D
        BY DEF Hanging, Upward
      <3> QED BY <3>1, <1>1, <1>5 DEF Full
    <2>3. Owned(u, D) /\ Snug(u, D, {})
      BY <1>5, <1>8 DEF Owned, Snug
    <2>4. \A n \in D : ld[n] >= 1 /\ (~ IsData(n) => ld[n] <= u.height)
      BY <1>5 DEF Hanging
    <2> QED BY <2>1, <2>2, <2>3, <2>4, <1>1, <1>4, <1>5, <1>6 DEF Hanging
  <1> QED BY <1>7, <1>8

Skew(t, b) == [t EXCEPT !.skewed = b]

LEMMA SkewIs ==
  ASSUME NEW t \in Trees, NEW b \in BOOLEAN
  PROVE  LET u == Skew(t, b)
         IN  /\ u \in Trees /\ Names(u) = Names(t) /\ u.node = t.node /\ u.root = t.root /\ u.height = t.height
             /\ u.size = t.size /\ u.twin = t.twin /\ u.tied = t.tied /\ u.lopped = t.lopped /\ u.skewed = b
  BY DEF Skew, Trees, Names

LEMMA SettledAbove ==
  ASSUME NEW t, NEW A, NEW lv, NEW c \in Int, Settled(t, A, lv, c), NEW h \in Int, c >= h
  PROVE  Settled(t, A, lv, h)
  <1>1. Kinds(t, A, lv, c) /\ \A n \in A : lv[n] \in Int
    BY DEF Settled, Whole, Shape, Levels
  <1>2. Kinds(t, A, lv, h)
    <2>1. \A n \in A : Leaf(t, n) => lv[n] >= h
      BY <1>1 DEF Kinds
    <2> QED BY <2>1, <1>1 DEF Kinds
  <1> QED BY <1>2 DEF Settled, Whole, Shape

-----------------------------------------------------------------------------
\* A node put in place of another with the same links in what a part is of.
LEMMA SameLinksLinked ==
  ASSUME NEW t \in Trees, NEW u, SameLinks(t, u), Linked(t), Fits(t, {})
  PROVE  Linked(u) /\ Fits(u, {})
  BY DEF SameLinks, Linked, Fits

\* An entry of an inner node.
LEMMA InnerReady ==
  ASSUME NEW w, NEW B, NEW lw, NEW c \in Int, Settled(w, B, lw, c), NEW h \in Nat, c >= h,
         NEW D, NEW ld, NEW x, Hanging(w, D, ld, x, h), D \cap B = {}, ~ IsData(x), Items(w, x) # <<>>,
         NEW level \in Nat \ {0}, ld[x] = level + 1, level < h,
         NEW b \in BOOLEAN, NEW v, v = Skew(SetBound(w, x), b)
  PROVE  /\ Settled(v, B, lw, h) /\ Joinable(v, B, lw, h, D, ld, ChooseLevel(v, Bound(v, x), level), x)
         /\ v \in Trees /\ Names(v) = Names(w) /\ v.root = w.root /\ v.height = w.height /\ v.size = w.size
         /\ v.twin = w.twin /\ v.tied = w.tied /\ v.lopped = w.lopped /\ v.skewed = b
         /\ \A y \in Names(w) : y # x => Alike(w, v, y)
         /\ Items(v, x) = Items(w, x) /\ Leaf(v, x) = Leaf(w, x) /\ Up(v, x) = Up(w, x)
  <1>1. PICK u : u = SetBound(w, x)
    OBVIOUS
  <1>2. w \in Trees /\ Linked(w) /\ Fits(w, {}) /\ B \subseteq Names(w) /\ x \in D /\ D \subseteq Names(w)
    BY DEF Settled, Whole, Shape, Levels, Hanging
  <1>3. /\ Hanging(u, D, ld, x, h) /\ SameLinks(w, u)
        /\ \A y \in Names(w) : y # x => Alike(w, u, y)
    BY <1>1, <1>2, HangingBox
  <1>4. u \in Trees /\ Linked(u) /\ Fits(u, {}) /\ Names(u) = Names(w) /\ SameTop(w, u)
    BY <1>2, <1>3, SameLinksLinked DEF SameLinks
  <1>5. /\ v \in Trees /\ Names(v) = Names(u) /\ v.node = u.node /\ v.root = u.root /\ v.height = u.height
        /\ v.size = u.size /\ v.twin = u.twin /\ v.tied = u.tied /\ v.lopped = u.lopped /\ v.skewed = b
    BY <1>1, <1>4, SkewIs
  <1>6. /\ v \in Trees /\ Names(v) = Names(w) /\ v.root = w.root /\ v.height = w.height /\ v.size = w.size
        /\ v.twin = w.twin /\ v.tied = w.tied /\ v.lopped = w.lopped /\ v.skewed = b
    BY <1>4, <1>5 DEF SameTop
  <1>7. \A y \in Names(u) : Alike(u, v, y)
    BY <1>5 DEF Alike, Items, Bound, Leaf, Up
  <1>8. \A y \in Names(w) : y # x => Alike(w, v, y)
    BY <1>3, <1>4, <1>7 DEF Alike
  <1>9. Linked(v) /\ Fits(v, {})
    BY <1>4, <1>5, <1>7 DEF Linked, Fits, Alike
  <1>10. Settled(v, B, lw, h)
    <2>1. Agree(w, v, B)
      <3>1. x \notin B
        BY <1>2
      <3> QED BY <3>1, <1>2, <1>6, <1>8 DEF Agree
    <2>2. Settled(v, B, lw, c)
      BY <2>1, <1>6, <1>9, AgreeSettled
    <2> QED BY <2>2, SettledAbove
  <1>11. Hanging(v, D, ld, x, h)
    <2>1. Agree(u, v, D)
      BY <1>2, <1>4, <1>5, <1>7 DEF Agree
    <2>2. v.height >= u.height /\ v.root \notin D
      BY <1>2, <1>3, <1>4, <1>5, TreeIs DEF Hanging
    <2> QED BY <2>1, <2>2, <1>3, AgreeHanging
  <1>12. PICK n : n = ChooseLevel(v, Bound(v, x), level)
    OBVIOUS
  <1>13. Reached(v, B, lw, n) /\ lw[n] = level
    BY <1>10, <1>12, ChooseLevelIs
  <1>14. ~ Leaf(v, n)
    <2>1. n \in B /\ (Leaf(v, n) => lw[n] >= h)
      BY <1>10, <1>13 DEF Reached, Settled, Whole, Shape, Kinds
    <2> QED BY <2>1, <1>13
  <1>15. Joinable(v, B, lw, h, D, ld, n, x)
    BY <1>10, <1>11, <1>13, <1>14 DEF Joinable
  <1>16. Items(v, x) = Items(w, x) /\ Leaf(v, x) = Leaf(w, x) /\ Up(v, x) = Up(w, x)
    BY <1>2, <1>3, <1>4, <1>7 DEF SameLinks, Alike
  <1> QED BY <1>6, <1>8, <1>10, <1>12, <1>15, <1>16

LEMMA InnerBack ==
  ASSUME NEW t, NEW lv, NEW Q, NEW u0, NEW q \in Seq(Entry), NEW k \in 1..Len(q), NEW h \in Nat, NEW w, NEW B, NEW lw, NEW c,
         Refilled(t, lv, Q, u0, q, k - 1, h, w, B, lw, c), Apart(u0, q), ~ q[k].leaf
  PROVE  \E C, lx, e : Refilled(t, lv, Q, u0, q, k, h, Reinsert(w, q[k], h), C, lx, e)
  <1>1. PICK x, D, ld, level, b : x = q[k].entry /\ D = Desc(u0, x) /\ ld = Only(lv, D) /\ level = q[k].level
                                  /\ b = (w.skewed \/ w.height # h)
    OBVIOUS
  <1>2. PICK v : v = Skew(SetBound(w, x), b)
    OBVIOUS
  <1>3. PICK u : u = AddEntry(v, ChooseLevel(v, Bound(v, x), level), x)
    OBVIOUS
  <1>4. Waits(u0, w, lv, h, q[k]) /\ D \cap B = {}
    <2>1. k \in (k - 1 + 1)..Len(q)
      <3>1. Len(q) \in Nat
        BY SeqIs
      <3> QED BY <3>1
    <2> QED BY <2>1, <1>1 DEF Refilled, Queued
  <1>5. /\ ~ IsData(x) /\ Hanging(w, D, ld, x, h) /\ level \in Nat \ {0} /\ lv[x] = level + 1 /\ level < h
        /\ Items(w, x) # <<>> /\ w \in Trees /\ D \subseteq Names(w) /\ x \in D
    BY <1>1, <1>4 DEF Waits, Hanging
  <1>6. ld[x] = level + 1
    BY <1>1, <1>5 DEF Only
  <1>7. Settled(w, B, lw, c) /\ c \in Int /\ c >= h /\ w.skewed \in BOOLEAN /\ b \in BOOLEAN
    BY <1>1, <1>5, TreeIs DEF Refilled
  <1>8. /\ Settled(v, B, lw, h) /\ Joinable(v, B, lw, h, D, ld, ChooseLevel(v, Bound(v, x), level), x)
    BY <1>2, <1>4, <1>5, <1>6, <1>7, InnerReady
  <1>9. /\ v \in Trees /\ Names(v) = Names(w) /\ v.root = w.root /\ v.height = w.height /\ v.size = w.size
        /\ v.twin = w.twin /\ v.tied = w.tied /\ v.lopped = w.lopped /\ v.skewed = b
        /\ \A y \in Names(w) : y # x => Alike(w, v, y)
        /\ Items(v, x) = Items(w, x) /\ Leaf(v, x) = Leaf(w, x) /\ Up(v, x) = Up(w, x)
    BY <1>2, <1>4, <1>5, <1>6, <1>7, InnerReady, SMTT(60)
  <1>10. IsAdded(v, B \cup D, h, x, u)
    BY <1>3, <1>8, JoinedIs
  <1>11. PICK C, lx, g : Tops(v, x, u, g) /\ Settled(u, C, lx, h + g) /\ Keeps(v, u, B \cup D) /\ C = Grew(B \cup D, v, u)
    BY <1>10 DEF IsAdded
  <1>12. g \in {0, 1} /\ u.height = v.height + g
    BY <1>11 DEF Tops
  <1>13. PICK e : e = h + g
    OBVIOUS
  <1>14. e \in Int /\ e >= h
    BY <1>12, <1>13
  <1>15. ~ u.skewed => e = u.height
    <2>1. ~ u.skewed => w.height = h
      BY <1>1, <1>9, <1>11 DEF Keeps
    <2> QED BY <2>1, <1>9, <1>12, <1>13
  <1>16. Tops(w, x, u, g)
    <2>1. Items(v, v.root) = Items(w, w.root) /\ Strays(v) = Strays(w)
      <3>1. \A y \in Names(w) : Items(v, y) = Items(w, y) /\ Up(v, y) = Up(w, y)
        BY <1>9 DEF Alike
      <3> QED BY <3>1, <1>5, <1>9, TreeIs DEF Strays
    <2> QED BY <2>1, <1>9, <1>11 DEF Tops
  <1>17. Grafted(w, B, D, x, u, C, e)
    <2>1. /\ Names(w) \subseteq Names(u) /\ C = B \cup D \cup (Names(u) \ Names(w))
          /\ \A n \in Names(u) \ Names(w) : ~ IsData(n)
      BY <1>9, <1>11 DEF Keeps, Grew
    <2>2. \A n \in Names(w) : IsData(n) => Bound(u, n) = Bound(w, n)
      BY <1>5, <1>9, <1>11 DEF Keeps, Alike
    <2>3. \A n \in Names(w) \ (B \cup D) : Alike(w, u, n)
      BY <1>5, <1>9, <1>11 DEF Keeps, Alike
    <2>4. u.size = w.size /\ u.lopped = w.lopped /\ (~ u.twin => ~ w.twin) /\ (~ u.tied => ~ w.tied)
      BY <1>9, <1>11 DEF Keeps
    <2> QED BY <2>1, <2>2, <2>3, <2>4, <1>5, <1>11, <1>13, <1>14, <1>16 DEF Grafted
  <1>18. Reinsert(w, q[k], h) = u
    <2>1. SetBound(w, x).skewed = w.skewed
      BY DEF SetBound, SetBox, Put
    <2>2. Skew(SetBound(w, x), b) = [SetBound(w, x) EXCEPT !.skewed = w.skewed \/ w.height # h]
      BY <1>1 DEF Skew
    <2> QED BY <2>2, <1>1, <1>2, <1>3 DEF Reinsert, InsertLevel
  <1>19. \E ly : Refilled(t, lv, Q, u0, q, k, h, u, C, ly, e)
    BY <1>1, <1>14, <1>15, <1>17, RefilledOn
  <1> QED BY <1>18, <1>19

-----------------------------------------------------------------------------
\* The tree the entries are put back in: the root's box is set, if it has entries.
RootSet(w) == IF Items(w, w.root) = <<>> THEN w ELSE SetBound(w, w.root)

LEMMA RootSetIs ==
  ASSUME NEW w, NEW M, NEW lw, NEW c, Tree(w, M, lw, c), NEW P, Snug(w, M, P), P \subseteq {w.root}, NEW v, v = RootSet(w)
  PROVE  /\ v \in Trees /\ Names(v) = Names(w) /\ SameTop(w, v) /\ Tree(v, M, lw, c) /\ Snug(v, M, {})
         /\ \A y \in Names(w) : /\ Items(v, y) = Items(w, y) /\ (y # w.root => Alike(w, v, y))
                                /\ (IsData(y) => Bound(v, y) = Bound(w, y))
  <1>1. /\ w \in Trees /\ Linked(w) /\ Shape(w, M, lw, {w.root}, c) /\ Fits(w, {}) /\ Owned(w, M) /\ Joined(w, M)
        /\ ~ w.twin /\ ~ w.tied /\ w.root \in M /\ M \subseteq Names(w) /\ ~ IsData(w.root) /\ Levels(w, M, lw, {w.root})
        /\ Downward(w, M, lw, {w.root}) /\ Upward(w, M, lw, {w.root})
    BY DEF Tree, Shape, Levels
  <1>2. CASE Items(w, w.root) = <<>>
    <2>1. v = w
      BY <1>2 DEF RootSet
    <2>2. Snug(w, M, {})
      BY <1>2 DEF Snug
    <2> QED BY <2>1, <2>2, <1>1 DEF SameTop, Alike
  <1>3. CASE Items(w, w.root) # <<>>
    <2>1. PICK b : b = ComputeBB(w, Items(w, w.root)) /\ b \in BoxSet
      <3>1. Items(w, w.root) \in Seq(Int) /\ ToSet(Items(w, w.root)) \subseteq Names(w)
        BY <1>1, NodeIs DEF Linked
      <3> QED BY <3>1, <1>1, <1>3, ComputeBBIs
    <2>2. v = SetBox(w, w.root, b)
      BY <2>1, <1>3 DEF RootSet, SetBound
    <2>3. PICK r : r = w.root /\ r \in Names(w) /\ r \in M
      BY <1>1
    <2>4. SameLinks(w, v) /\ \A y \in Names(w) : Bound(v, y) = IF y = r THEN b ELSE Bound(w, y)
      BY <2>1, <2>2, <2>3, <1>1, BoxSameLinks
    <2>5. /\ v \in Trees /\ Names(v) = Names(w) /\ SameTop(w, v) /\ v.root = w.root /\ v.twin = w.twin /\ v.tied = w.tied
          /\ \A n \in Names(w) : Items(v, n) = Items(w, n) /\ Leaf(v, n) = Leaf(w, n) /\ Up(v, n) = Up(w, n)
      BY <2>4 DEF SameLinks, SameTop
    <2>6. /\ Shape(v, M, lw, {r}, c) /\ Linked(v) /\ Fits(v, {}) /\ Owned(v, M)
      BY <2>3, <2>4, <1>1, SameLinksKeep
    <2>7. Joined(v, M)
      <3> SUFFICES ASSUME NEW x \in M \ {w.root}
                   PROVE  x \in ToSet(Items(v, Up(v, x)))
        BY <2>5 DEF Joined
      <3>1. x \in ToSet(Items(w, Up(w, x))) /\ Up(w, x) \in Names(w) /\ x \in Names(w)
        BY <1>1 DEF Joined, Upward
      <3> QED BY <3>1, <2>5
    <2>8. Snug(v, M, {})
      <3>1. \A m \in M : r \in ToSet(Items(w, m)) => m \in {r}
        BY <1>1, <2>3 DEF Downward
      <3>2. Snug(w, M, {r})
        BY <2>3 DEF Snug
      <3>3. Snug(v, M, {r} \ {r})
        <4>1. Shape(w, M, lw, {w.root}, c) /\ w \in Trees
          BY <1>1
        <4>2. SetBox(w, r, b) = v
          BY <2>2, <2>3
        <4>3. PICK T : T = {r}
          OBVIOUS
        <4>4. Snug(w, M, T) /\ \A m \in M : r \in ToSet(Items(w, m)) => m \in T
          BY <4>3, <3>1, <3>2
        <4>5. Items(w, r) # <<>> /\ b = ComputeBB(w, Items(w, r))
          BY <2>1, <2>3, <1>3
        <4>6. Snug(SetBox(w, r, b), M, T \ {r})
          BY <4>1, <4>4, <4>5, <2>3, BoxSnug
        <4> QED BY <4>2, <4>3, <4>6
      <3>4. {r} \ {r} = {}
        OBVIOUS
      <3> QED BY <3>3, <3>4
    <2>9. \A y \in Names(w) : (y # w.root => Alike(w, v, y)) /\ (IsData(y) => Bound(v, y) = Bound(w, y))
      BY <2>3, <2>4, <2>5, <1>1 DEF Alike
    <2>10. Tree(v, M, lw, c)
      BY <2>3, <2>5, <2>6, <2>7, <1>1 DEF Tree
    <2> QED BY <2>5, <2>8, <2>9, <2>10
  <1> QED BY <1>2, <1>3

LEMMA RefilledFirst ==
  ASSUME NEW t \in Trees, ~ t.skewed, NEW lv, NEW Q, NEW s, NEW M, NEW P, Condensing(t, lv, Q, s, M, P), s.at = t.root,
         NEW v, v = RootSet(s.tree)
  PROVE  Refilled(t, lv, Q, v, s.queue, 0, t.height, v, M, Only(lv, M), t.height) /\ Apart(v, s.queue) /\ v \in Trees
  <1>1. PICK w, lw, h, q : w = s.tree /\ lw = Only(lv, M) /\ h = t.height /\ q = s.queue
    OBVIOUS
  <1>2. /\ SameTop(t, w) /\ Names(w) = Names(t) /\ Tree(w, M, lw, h) /\ Snug(w, M, P) /\ Path(w, M, lw, {w.root}, w.root, P)
        /\ Filled(w, M, w.root) /\ Queued(w, w, lv, h, q, 0, M) /\ Apart(w, q) /\ q \in Seq(Entry)
        /\ Q = {x \in M \cup Rest(w, q, 0) : IsData(x)} /\ (\A x \in Q : Bound(w, x) = Bound(t, x)) /\ w.root = t.root
    BY <1>1 DEF Condensing, SameTop
  <1>3. w \in Trees /\ Linked(w) /\ M \subseteq Names(w) /\ w.root \in M /\ ~ w.twin /\ h \in Nat
        /\ lw[w.root] = 1 /\ (\A x \in M : lw[x] >= 1 /\ lw[x] \in Nat)
        /\ \A x \in M \ {w.root} : lw[x] = lw[Up(w, x)] + 1 /\ Up(w, x) \in M
    BY <1>1, <1>2, TreeIs DEF Tree, Shape, Levels, Upward
  <1>4. P \subseteq {w.root}
    <2> SUFFICES ASSUME NEW x \in P, x # w.root
                 PROVE  FALSE
      OBVIOUS
    <2>1. x \in M /\ lw[x] <= 1
      BY <1>2, <1>3 DEF Path
    <2>2. lw[x] = lw[Up(w, x)] + 1 /\ lw[Up(w, x)] >= 1 /\ lw[Up(w, x)] \in Nat
      BY <2>1, <1>3
    <2> QED BY <2>1, <2>2
  <1>5. /\ v \in Trees /\ Names(v) = Names(w) /\ SameTop(w, v) /\ Tree(v, M, lw, h) /\ Snug(v, M, {})
        /\ \A y \in Names(w) : /\ Items(v, y) = Items(w, y) /\ (y # w.root => Alike(w, v, y))
                               /\ (IsData(y) => Bound(v, y) = Bound(w, y))
    <2>1. Tree(w, M, lw, h) /\ Snug(w, M, P) /\ P \subseteq {w.root} /\ v = RootSet(w)
      BY <1>1, <1>2, <1>4
    <2>2. v \in Trees /\ Names(v) = Names(w) /\ SameTop(w, v) /\ Tree(v, M, lw, h) /\ Snug(v, M, {})
      BY <2>1, RootSetIs
    <2>3. \A y \in Names(w) : Items(v, y) = Items(w, y)
      BY <2>1, RootSetIs, ZenonT(60)
    <2>4. \A y \in Names(w) : y # w.root => Alike(w, v, y)
      BY <2>1, RootSetIs
    <2>5. \A y \in Names(w) : IsData(y) => Bound(v, y) = Bound(w, y)
      BY <2>1, RootSetIs, ZenonT(60)
    <2> QED BY <2>2, <2>3, <2>4, <2>5
  <1>6. v.root = w.root /\ v.height = h /\ v.size = t.size /\ v.lopped = t.lopped /\ v.skewed = t.skewed
    BY <1>1, <1>2, <1>5 DEF SameTop
  <1>7. Linked(v) /\ Joined(v, M) /\ Shape(v, M, lw, {v.root}, h) /\ Fits(v, {}) /\ Owned(v, M)
    BY <1>5 DEF Tree
  <1>8. Full(v, M, {v.root})
    <2>1. \A n \in M : ~ IsData(n) /\ n # v.root => Len(Items(v, n)) >= MinChildItems
      BY <1>2, <1>3, <1>5, <1>6 DEF Filled
    <2> QED BY <2>1, <1>7 DEF Full, Joined
  <1>9. Settled(v, M, lw, h)
    BY <1>5, <1>7, <1>8 DEF Settled, Whole
  <1>10. Queued(v, v, lv, h, q, 0, M) /\ Apart(v, q) /\ Rest(v, q, 0) = Rest(w, q, 0)
    <2>1. \A y \in Names(w) \ M : Alike(w, v, y)
      BY <1>3, <1>5
    <2> QED BY <2>1, <1>2, <1>3, <1>5, <1>7, QueueOn
  <1>11. \A x \in Q : Bound(v, x) = Bound(t, x)
    <2> SUFFICES ASSUME NEW x \in Q
                 PROVE  Bound(v, x) = Bound(t, x)
      OBVIOUS
    <2>1. Rest(w, q, 0) \subseteq Names(w)
      <3>1. \A j \in (0 + 1)..Len(q) : Desc(w, q[j].entry) \subseteq Names(w)
        BY <1>2 DEF Queued, Waits, Hanging
      <3> QED BY <3>1 DEF Rest
    <2>2. x \in Names(w) /\ IsData(x)
      BY <2>1, <1>2, <1>3
    <2> QED BY <2>2, <1>2, <1>5
  <1>12. M \cap Strays(v) = {}
    <2> SUFFICES ASSUME NEW x \in M, x \in Strays(v)
                 PROVE  FALSE
      OBVIOUS
    <2>1. x # v.root /\ Up(v, x) = v.root /\ x \notin ToSet(Items(v, v.root))
      BY DEF Strays
    <2> QED BY <2>1, <1>7 DEF Joined
  <1>13. Q = {x \in M \cup Rest(v, q, 0) : IsData(x)}
    BY <1>2, <1>10
  <1>14. h \in Int /\ h >= h
    BY <1>3
  <1> QED BY <1>1, <1>5, <1>6, <1>9, <1>10, <1>11, <1>12, <1>13, <1>14 DEF Refilled

-----------------------------------------------------------------------------
ReinsertStep(u0, q, h, f) ==
  [k \in 0..Len(q) |-> IF k = 0 THEN u0 ELSE Reinsert(f[k - 1], q[k], h)]

Reinserts(u0, q, h) == CHOOSE f : f = ReinsertStep(u0, q, h, f)

\* After k entries, for some nodes and levels.
Refilling(t, lv, Q, u0, q, h, k, w) == w \in Trees /\ \E B, lw, c : Refilled(t, lv, Q, u0, q, k, h, w, B, lw, c)

LEMMA RefillingOn ==
  ASSUME NEW t, NEW lv, NEW Q, NEW u0, NEW q \in Seq(Entry), NEW k \in 1..Len(q), NEW h \in Nat, NEW w, Apart(u0, q),
         Refilling(t, lv, Q, u0, q, h, k - 1, w)
  PROVE  Refilling(t, lv, Q, u0, q, h, k, Reinsert(w, q[k], h))
  <1>1. PICK B, lw, c : Refilled(t, lv, Q, u0, q, k - 1, h, w, B, lw, c)
    BY DEF Refilling
  <1>2. \E C, lx, e : Refilled(t, lv, Q, u0, q, k, h, Reinsert(w, q[k], h), C, lx, e)
    BY <1>1, LeafBack, InnerBack
  <1>3. Reinsert(w, q[k], h) \in Trees
    BY <1>2 DEF Refilled, Settled, Whole
  <1> QED BY <1>2, <1>3 DEF Refilling

LEMMA ReinsertsIs ==
  ASSUME NEW t, NEW lv, NEW Q, NEW u0, NEW q \in Seq(Entry), NEW h \in Nat, Apart(u0, q),
         Refilling(t, lv, Q, u0, q, h, 0, u0)
  PROVE  /\ Reinserts(u0, q, h) = ReinsertStep(u0, q, h, Reinserts(u0, q, h))
         /\ Refilling(t, lv, Q, u0, q, h, Len(q), Reinserts(u0, q, h)[Len(q)])
  <1> DEFINE m == Len(q)
             W == [k \in 0..m |-> {w \in Trees : Refilling(t, lv, Q, u0, q, h, k, w)}]
             G == [kv \in (1..m) \X Trees |-> Reinsert(kv[2], q[kv[1]], h)]
  <1>1. m \in Nat
    BY SeqIs
  <1>2. u0 \in W[0]
    <2>1. 0 \in 0..m /\ u0 \in Trees
      BY <1>1 DEF Refilling
    <2> QED BY <2>1
  <1>3. ASSUME NEW k \in 1..m, NEW v \in W[k - 1]
        PROVE  v \in Trees /\ Reinsert(v, q[k], h) \in W[k]
    <2>1. k - 1 \in 0..m /\ k \in 0..m
      BY <1>1
    <2>2. v \in Trees /\ Refilling(t, lv, Q, u0, q, h, k - 1, v)
      BY <2>1
    <2>3. Refilling(t, lv, Q, u0, q, h, k, Reinsert(v, q[k], h))
      BY <2>2, RefillingOn
    <2>4. Reinsert(v, q[k], h) \in Trees
      BY <2>3 DEF Refilling
    <2> QED BY <2>1, <2>2, <2>3, <2>4
  <1> HIDE DEF m
  <1>4. \A k \in 1..m : \A v \in W[k - 1] : G[<<k, v>>] = Reinsert(v, q[k], h)
    <2> SUFFICES ASSUME NEW k \in 1..m, NEW v \in W[k - 1]
                 PROVE  G[<<k, v>>] = Reinsert(v, q[k], h)
      OBVIOUS
    <2>1. v \in Trees
      BY <1>3
    <2> HIDE DEF W
    <2> QED BY <2>1
  <1> HIDE DEF W, G
  <1>5. Turns0(m, W, u0, G)
    BY <1>2, <1>3, <1>4 DEF Turns0
  <1>6. PICK f : Turned0(f, m, W, u0, G)
    BY <1>1, <1>5, LoopExists
  <1>7. \A k \in 1..m : k \in 0..m /\ k - 1 \in 0..m /\ k # 0
    BY <1>1
  <1>8. f = ReinsertStep(u0, q, h, f)
    <2>1. \A k \in 1..m : f[k] = Reinsert(f[k - 1], q[k], h)
      BY <1>4, <1>6, <1>7 DEF Turned0
    <2>2. \A k \in 0..m : f[k] = IF k = 0 THEN u0 ELSE Reinsert(f[k - 1], q[k], h)
      <3>1. \A k \in 0..m : k = 0 \/ k \in 1..m
        BY <1>1
      <3> QED BY <2>1, <3>1, <1>6, <1>7 DEF Turned0
    <2>3. f = [k \in 0..m |-> f[k]]
      BY <1>6 DEF Turned0
    <2>4. f = [k \in 0..m |-> IF k = 0 THEN u0 ELSE Reinsert(f[k - 1], q[k], h)]
      BY <2>2, <2>3
    <2> QED BY <2>4 DEF ReinsertStep, m
  <1>9. PICK g : g = Reinserts(u0, q, h)
    OBVIOUS
  <1>10. g = ReinsertStep(u0, q, h, g)
    BY <1>8, <1>9 DEF Reinserts
  <1>11. g[0] = u0 /\ \A k \in 1..m : g[k] = Reinsert(g[k - 1], q[k], h)
    <2>1. 0 \in 0..m
      BY <1>1
    <2>2. g = [k \in 0..m |-> IF k = 0 THEN u0 ELSE Reinsert(g[k - 1], q[k], h)]
      BY <1>10 DEF ReinsertStep, m
    <2>3. \A k \in 0..m : g[k] = IF k = 0 THEN u0 ELSE Reinsert(g[k - 1], q[k], h)
      BY <2>2
    <2> QED BY <2>1, <2>3, <1>7
  <1>12. g[m] \in W[m]
    <2>1. g[0] \in W[0]
      BY <1>2, <1>11
    <2>2. \A k \in 1..m : g[k - 1] \in W[k - 1] => g[k] \in W[k]
      BY <1>3, <1>11
    <2>3. \A k \in 0..m : g[k] \in W[k]
      BY <2>1, <2>2, <1>1, LoopStays
    <2> QED BY <2>3, <1>1
  <1>13. Refilling(t, lv, Q, u0, q, h, m, g[m])
    BY <1>1, <1>12 DEF W
  <1> QED BY <1>9, <1>10, <1>13 DEF m

\* What condensing leaves: a tree at rest that holds Q.
Rested(t, Q, w, B, lw, c) ==
  /\ Settled(w, B, lw, c) /\ c \in Int /\ (~ w.skewed => c = w.height)
  /\ Q = {x \in B : IsData(x)} /\ \A x \in Q : Bound(w, x) = Bound(t, x)
  /\ w.size = t.size /\ w.lopped = t.lopped
  /\ Len(Items(w, w.root)) >= 2 \/ B \cap Strays(w) = {}

LEMMA ReinsertAllIs ==
  ASSUME NEW t \in Trees, ~ t.skewed, NEW lv, NEW Q, NEW s, Condenses(t, lv, Q, s, 1)
  PROVE  \E B, lw, c : Rested(t, Q, ReinsertAll(s), B, lw, c)
  <1>1. PICK M, P : Condensing(t, lv, Q, s, M, P)
    BY DEF Condenses
  <1>2. s.at = t.root /\ s.tree.root = t.root /\ s.tree.height = t.height /\ s.queue \in Seq(Entry)
    <2>1. s.at = t.root
      BY <1>1, CondensingRoot DEF Condenses
    <2>2. s.tree.root = t.root /\ s.tree.height = t.height /\ s.queue \in Seq(Entry)
      BY <1>1 DEF Condensing, SameTop
    <2> QED BY <2>1, <2>2
  <1>3. PICK v, q, h : v = RootSet(s.tree) /\ q = s.queue /\ h = t.height
    OBVIOUS
  <1>4. Refilled(t, lv, Q, v, q, 0, h, v, M, Only(lv, M), h) /\ Apart(v, q) /\ v \in Trees
    BY <1>1, <1>2, <1>3, RefilledFirst
  <1>5. h \in Nat /\ q \in Seq(Entry) /\ Refilling(t, lv, Q, v, q, h, 0, v)
    BY <1>2, <1>3, <1>4, TreeIs DEF Refilling
  <1>6. /\ Reinserts(v, q, h) = ReinsertStep(v, q, h, Reinserts(v, q, h))
        /\ Refilling(t, lv, Q, v, q, h, Len(q), Reinserts(v, q, h)[Len(q)])
    BY <1>4, <1>5, ReinsertsIs
  <1>7. ReinsertAll(s) = Reinserts(v, q, h)[Len(q)]
    <2>1. v = IF Items(s.tree, s.at) = <<>> THEN s.tree ELSE SetBound(s.tree, s.at)
      BY <1>2, <1>3 DEF RootSet
    <2> QED BY <2>1, <1>2, <1>3 DEF ReinsertAll, Reinserts, ReinsertStep
  <1>8. PICK w : w = ReinsertAll(s)
    OBVIOUS
  <1>9. PICK B, lw, c : Refilled(t, lv, Q, v, q, Len(q), h, w, B, lw, c)
    BY <1>6, <1>7, <1>8 DEF Refilling
  <1>10. Rest(v, q, Len(q)) = {}
    <2>1. Len(q) \in Nat
      BY <1>5, SeqIs
    <2>2. (Len(q) + 1)..Len(q) = {}
      BY <2>1
    <2> QED BY <2>2 DEF Rest
  <1>11. Rested(t, Q, w, B, lw, c)
    BY <1>9, <1>10 DEF Refilled, Rested
  <1> QED BY <1>8, <1>11

-----------------------------------------------------------------------------
\* The nodes above n are a path to the root.
Above(t, A, n) == {m \in A : n \in Desc(t, m)}

LEMMA AbovePath ==
  ASSUME NEW t, NEW A, NEW lv, NEW c, Tree(t, A, lv, c), NEW n \in A, NEW P, P = Above(t, A, n)
  PROVE  Path(t, A, lv, {t.root}, n, P) /\ P \subseteq A /\ n \in P
  <1>1. /\ t \in Trees /\ Linked(t) /\ Shape(t, A, lv, {t.root}, c) /\ Owned(t, A) /\ ~ t.twin /\ A \subseteq Names(t)
        /\ Joined(t, A) /\ \A x \in A \ {t.root} : Up(t, x) \in A
    BY DEF Tree, Shape, Levels, Upward
  <1>2. P \subseteq A /\ n \in P
    BY <1>1, DescIs DEF Above
  <1>3. \A x \in P : lv[x] <= lv[n]
    <2> SUFFICES ASSUME NEW x \in P
                 PROVE  lv[x] <= lv[n]
      OBVIOUS
    <2>1. x \in A /\ n \in Desc(t, x)
      BY DEF Above
    <2>2. lv[n] >= lv[x]
      BY <2>1, <1>1, DescLevels
    <2>3. lv[n] \in Nat /\ lv[x] \in Nat
      BY <2>1, <1>1 DEF Shape, Levels
    <2> QED BY <2>2, <2>3
  <1>4. ASSUME NEW x \in P, x # t.root
        PROVE  Up(t, x) \in P /\ x \in ToSet(Items(t, Up(t, x)))
    <2>1. x \in A /\ n \in Desc(t, x)
      BY DEF Above
    <2>2. PICK p : p = Up(t, x)
      OBVIOUS
    <2>3. x \in ToSet(Items(t, p)) /\ p \in A /\ p \in Names(t)
      BY <2>1, <2>2, <1>1, <1>4 DEF Joined
    <2>4. x \in Desc(t, p)
      <3>1. p \in Desc(t, p) /\ Closed(t, Desc(t, p))
        BY <2>3, <1>1, DescIs
      <3> QED BY <3>1, <2>3 DEF Closed
    <2>5. n \in Desc(t, p)
      BY <2>1, <2>3, <2>4, <1>1, DescClosed
    <2> QED BY <2>2, <2>3, <2>5 DEF Above
  <1>5. ASSUME NEW x \in P, NEW y \in P, lv[x] = lv[y], x # y
        PROVE  FALSE
    <2>1. x \in A /\ n \in Desc(t, x) /\ y \in A /\ n \in Desc(t, y)
      BY DEF Above
    <2>2. Desc(t, x) \cap Desc(t, y) = {}
      BY <2>1, <1>1, <1>5, DescApart
    <2> QED BY <2>1, <2>2
  <1> QED BY <1>2, <1>3, <1>4, <1>5 DEF Path

\* The parts of what a cut leaves, under names of their own.
LEMMA CutParts ==
  ASSUME NEW t, NEW M, NEW lv, NEW c, Tree(t, M, lv, c), NEW p, p \in M, NEW x, x \in ToSet(Items(t, p)), NEW u, IsCut(t, u, p, x),
         Len(Items(t, p)) >= 2 \/ Leaf(t, p), NEW D, D = Desc(t, x), NEW N, N = M \ D
  PROVE  Tree(u, N, Only(lv, N), c) /\ x \in M /\ x # t.root /\ p \notin D /\ D \subseteq M
  <1>1. Tree(u, M \ Desc(t, x), Only(lv, M \ Desc(t, x)), c)
    BY CutTree
  <1>2. x \in M \ {t.root} /\ p \notin Desc(t, x) /\ Desc(t, x) \subseteq M
    BY CutTree
  <1> QED BY <1>1, <1>2

\* What the removal of an entry leaves to condense.
LEMMA RemovalStart ==
  ASSUME NEW t, NEW A, NEW lv, Settled(t, A, lv, t.height), ~ t.twin, ~ t.tied,
         ~ Leaf(t, t.root) => Len(Items(t, t.root)) >= 2,
         NEW n \in A, ~ IsData(n), NEW i \in 1..Len(Items(t, n)), NEW x, x = Items(t, n)[i],
         NEW u, u = SetItems(t, n, SwapOut(Items(t, n), i)), NEW Q, Q = {o \in A \ Desc(t, x) : IsData(o)},
         NEW base, base = [tree |-> u, queue |-> <<>>, at |-> n, level |-> lv[n]]
  PROVE  Condenses(t, lv, Q, base, lv[n]) /\ u \in Trees /\ lv[n] \in Nat \ {0}
  <1>1. PICK h : h = t.height
    OBVIOUS
  <1>2. /\ t \in Trees /\ Shape(t, A, lv, {t.root}, h) /\ Linked(t) /\ Fits(t, {}) /\ Full(t, A, {t.root}) /\ Owned(t, A)
        /\ Snug(t, A, {}) /\ A \subseteq Names(t) /\ n \in Names(t) /\ lv[n] \in Nat /\ lv[n] >= 1 /\ lv \in [A -> Nat]
        /\ IsInjective(Items(t, n)) /\ t.root \in A /\ \A y \in A : y # t.root => Up(t, y) \in A
    BY <1>1 DEF Settled, Whole, Shape, Levels, Kinds, Upward
  <1>3. Tree(t, A, lv, h) /\ \A m \in A : ~ IsData(m) /\ m # t.root => Len(Items(t, m)) >= MinChildItems
    BY <1>2 DEF Tree, Joined, Full
  <1>4. IsCut(t, u, n, x)
    BY <1>2, CutIs
  <1>5. Items(t, n) \in Seq(Int) /\ x \in ToSet(Items(t, n)) /\ Len(Items(t, n)) \in Nat
    <2>1. Items(t, n) \in Seq(Int)
      BY <1>2, NodeIs
    <2>2. ToSet(Items(t, n)) = {Items(t, n)[j] : j \in 1..Len(Items(t, n))} /\ Len(Items(t, n)) \in Nat
      BY <2>1, SeqIs
    <2> QED BY <2>1, <2>2
  <1>6. Len(Items(t, n)) >= 2 \/ Leaf(t, n)
    <2>1. CASE n = t.root
      BY <2>1
    <2>2. CASE n # t.root
      <3>1. Len(Items(t, n)) >= MinChildItems
        BY <2>2, <1>3
      <3> QED BY <3>1, <1>5, RtreeAssumption
    <2> QED BY <2>1, <2>2
  <1>7. PICK D, M : D = Desc(t, x) /\ M = A \ D
    OBVIOUS
  <1>8. Tree(u, M, Only(lv, M), h) /\ n \notin D /\ D \subseteq A /\ x \in A
    <2>1. Tree(t, A, lv, h) /\ x \in ToSet(Items(t, n)) /\ IsCut(t, u, n, x) /\ (Len(Items(t, n)) >= 2 \/ Leaf(t, n))
      BY <1>3, <1>4, <1>5, <1>6
    <2> QED BY <2>1, <1>7, CutParts
  <1>9. PICK P : P = Above(t, A, n)
    OBVIOUS
  <1>10. Path(t, A, lv, {t.root}, n, P) /\ P \subseteq A /\ n \in P
    BY <1>3, <1>9, AbovePath
  <1>11. P \subseteq M /\ x \notin P
    <2>1. x \notin P
      BY <1>7, <1>8, <1>9 DEF Above
    <2>2. ASSUME NEW y \in P, y \in D
          PROVE  FALSE
      <3>1. n \in Desc(t, y)
        BY <1>9 DEF Above
      <3>2. Desc(t, y) \subseteq D
        BY <2>2, <1>2, <1>7, <1>8, DescClosed
      <3> QED BY <3>1, <3>2, <1>8
    <2> QED BY <2>1, <2>2, <1>7, <1>10
  <1>12. Snug(u, M, P)
    <2>1. Snug(t, A, P)
      BY <1>2 DEF Snug
    <2>2. M \subseteq A /\ M \cap P \subseteq P
      BY <1>7
    <2> QED BY <2>1, <2>2, <1>3, <1>4, <1>10, CutSnug
  <1>13. Path(u, M, Only(lv, M), {u.root}, n, P)
    <2>1. M \subseteq A
      BY <1>7
    <2> QED BY <2>1, <1>3, <1>4, <1>10, <1>11, CutPath
  <1>14. /\ u \in Trees /\ Names(u) = Names(t) /\ SameTop(t, u) /\ u.root = t.root /\ Len(Items(u, n)) = Len(Items(t, n)) - 1
         /\ \A y \in Names(t) : (y # n => Items(u, y) = Items(t, y)) /\ Bound(u, y) = Bound(t, y) /\ Leaf(u, y) = Leaf(t, y)
    BY <1>4 DEF IsCut, SameTop
  <1>15. Filled(u, M, n)
    <2>1. \A m \in M : ~ IsData(m) /\ m # u.root /\ m # n => Len(Items(u, m)) >= MinChildItems
      BY <1>2, <1>3, <1>7, <1>14
    <2>2. n # u.root => Len(Items(u, n)) >= MinChildItems - 1
      <3>1. n # u.root => Len(Items(t, n)) >= MinChildItems
        BY <1>3, <1>14
      <3> QED BY <3>1, <1>5, <1>14, RtreeAssumption
    <2>3. n # u.root => Leaf(u, u.root) \/ Len(Items(u, u.root)) >= 2
      BY <1>2, <1>14
    <2> QED BY <2>1, <2>2, <2>3 DEF Filled
  <1>16. PICK e : e = <<>> /\ e \in Seq(Entry) /\ Len(e) = 0
    <2>1. <<>> \in Seq(Entry) /\ Len(<<>>) = 0
      OBVIOUS
    <2> QED BY <2>1
  <1>17. Queued(u, u, lv, h, e, 0, M) /\ Apart(u, e) /\ Rest(u, e, 0) = {}
    <2>1. (0 + 1)..Len(e) = {} /\ 1..Len(e) = {}
      BY <1>16
    <2> QED BY <2>1 DEF Queued, Apart, Rest
  <1>18. Q = {o \in M \cup Rest(u, e, 0) : IsData(o)} /\ \A o \in Q : Bound(u, o) = Bound(t, o)
    BY <1>2, <1>7, <1>14, <1>17
  <1>19. base.tree = u /\ base.queue = e /\ base.at = n /\ base.level = lv[n]
    BY <1>16
  <1>20. n \in M
    BY <1>7, <1>8
  <1>21. Condensing(t, lv, Q, base, M, P)
    <2>1. Path(u, M, Only(lv, M), {t.root}, n, P)
      BY <1>13, <1>14
    <2> QED BY <2>1, <1>1, <1>8, <1>12, <1>14, <1>15, <1>16, <1>17, <1>18, <1>19, <1>20 DEF Condensing
  <1>22. base \in Turns4
    <2>1. u \in Trees /\ e \in Seq(Entry) /\ n \in Int /\ lv[n] \in Int /\ base = [tree |-> u, queue |-> e, at |-> n, level |-> lv[n]]
      BY <1>2, <1>14, <1>16, TreeIs
    <2> QED BY <2>1 DEF Turns4
  <1>23. Condenses(t, lv, Q, base, lv[n])
    BY <1>19, <1>21, <1>22 DEF Condenses
  <1> QED BY <1>2, <1>14, <1>23

\* The loop's result, for a level given by name.
StartOf(w, n, level) == [tree |-> w, queue |-> <<>>, at |-> n, level |-> level]

CondensedTo(t, lv, Q, u) == \E s : Condenses(t, lv, Q, s, 1) /\ u = ReinsertAll(s)

LEMMA CondensedFrom ==
  ASSUME NEW t \in Trees, NEW lv, NEW Q, NEW w \in Trees, NEW n, NEW level \in Nat \ {0},
         Condenses(t, lv, Q, StartOf(w, n, level), level)
  PROVE  CondensedTo(t, lv, Q, CondenseTree(w, n, level))
  <1>1. PICK base : base = [tree |-> w, queue |-> <<>>, at |-> n, level |-> level] /\ Condenses(t, lv, Q, base, level)
    BY DEF StartOf
  <1>2. \E s : Condenses(t, lv, Q, s, 1) /\ CondenseTree(w, n, level) = ReinsertAll(s)
    BY <1>1, CondenseTreeIs
  <1> QED BY <1>2 DEF CondensedTo

\* Removing entry x of node n: what was below x is gone, and nothing else.
LEMMA CondensedIs ==
  ASSUME NEW t, NEW A, NEW lv, Settled(t, A, lv, t.height), ~ t.twin, ~ t.tied, ~ t.skewed,
         ~ Leaf(t, t.root) => Len(Items(t, t.root)) >= 2,
         NEW n \in A, ~ IsData(n), NEW i \in 1..Len(Items(t, n)), NEW x, x = Items(t, n)[i],
         NEW u, u = SetItems(t, n, SwapOut(Items(t, n), i)), NEW Q, Q = {o \in A \ Desc(t, x) : IsData(o)}
  PROVE  \E B, lw, c : Rested(t, Q, CondenseTree(u, n, lv[n]), B, lw, c)
  <1>1. PICK base : base = [tree |-> u, queue |-> <<>>, at |-> n, level |-> lv[n]]
    OBVIOUS
  <1>2. Condenses(t, lv, Q, base, lv[n]) /\ u \in Trees /\ lv[n] \in Nat \ {0}
    BY <1>1, RemovalStart
  <1>3. t \in Trees
    BY DEF Settled, Whole
  <1>4. PICK s : Condenses(t, lv, Q, s, 1) /\ CondenseTree(u, n, lv[n]) = ReinsertAll(s)
    <2>1. Condenses(t, lv, Q, StartOf(u, n, lv[n]), lv[n])
      BY <1>1, <1>2 DEF StartOf
    <2>2. CondensedTo(t, lv, Q, CondenseTree(u, n, lv[n]))
      BY <2>1, <1>2, <1>3, CondensedFrom
    <2> QED BY <2>2 DEF CondensedTo
  <1>5. \E B, lw, c : Rested(t, Q, ReinsertAll(s), B, lw, c)
    BY <1>3, <1>4, ReinsertAllIs
  <1> QED BY <1>4, <1>5

-----------------------------------------------------------------------------
\* The child of a root with one child becomes the root.
IsShortened(v, u, r) ==
  /\ u \in Trees /\ Names(u) = Names(v) /\ u.root = r /\ u.height = v.height - 1
  /\ u.size = v.size /\ u.twin = v.twin /\ u.tied = v.tied /\ u.lopped = v.lopped /\ u.skewed = v.skewed
  /\ \A n \in Names(v) : /\ Items(u, n) = Items(v, n) /\ Leaf(u, n) = Leaf(v, n) /\ Bound(u, n) = Bound(v, n)
                         /\ Up(u, n) = IF n = r THEN Nil ELSE Up(v, n)

LEMMA ShortenIs ==
  ASSUME NEW v \in Trees, Len(Items(v, v.root)) = 1, ToSet(Items(v, v.root)) \subseteq Names(v), v.height >= 1,
         NEW r, r = Head(Items(v, v.root))
  PROVE  IsShortened(v, ShortenTree(v), r) /\ ToSet(Items(v, v.root)) = {r} /\ r \in Names(v)
  <1>1. v.height \in Nat /\ v.root \in Names(v) /\ Items(v, v.root) \in Seq(Int)
    BY TreeIs, NodeIs
  <1>2. PICK s : s = Items(v, v.root)
    OBVIOUS
  <1>3. r = s[1] /\ s \in Seq(Int) /\ Len(s) = 1
    BY <1>1, <1>2
  <1>4. ToSet(s) = {s[i] : i \in 1..1}
    BY <1>3, SeqIs
  <1>5. ToSet(s) = {r} /\ r \in Names(v)
    BY <1>2, <1>3, <1>4
  <1>6. PICK h : h = v.height - 1 /\ h \in Nat
    BY <1>1
  <1>7. PICK w : w = Rooted(v, r, h)
    OBVIOUS
  <1>8. IsRooted(v, w, r, h)
    BY <1>5, <1>6, <1>7, RootedIs
  <1>9. ShortenTree(v) = SetParent(w, {r}, Nil)
    BY <1>2, <1>3, <1>6, <1>7 DEF ShortenTree, Rooted
  <1>10. w \in Trees /\ Nil \in Int
    BY <1>8 DEF IsRooted, Nil
  <1>11. PICK u : u = SetParent(w, {r}, Nil)
    OBVIOUS
  <1>12. /\ u \in Trees /\ Names(u) = Names(w) /\ SameTop(w, u)
         /\ \A n \in Names(w) : /\ Items(u, n) = Items(w, n) /\ Bound(u, n) = Bound(w, n)
                                /\ u.node[n].leaf = w.node[n].leaf
                                /\ u.node[n].up = IF n \in {r} THEN Nil ELSE w.node[n].up
    BY <1>10, <1>11, SetParentIs
  <1>13. \A n \in Names(v) : Items(w, n) = Items(v, n) /\ Bound(w, n) = Bound(v, n)
                             /\ w.node[n].leaf = v.node[n].leaf /\ w.node[n].up = v.node[n].up
    BY <1>8 DEF IsRooted, Items, Bound
  <1>14. IsShortened(v, u, r)
    BY <1>6, <1>8, <1>12, <1>13 DEF IsShortened, IsRooted, SameTop, Leaf, Up
  <1> QED BY <1>2, <1>5, <1>9, <1>11, <1>14

\* An object left alone is all that the tree holds.
LEMMA ShortenData ==
  ASSUME NEW v, NEW B, NEW lv, NEW c, Settled(v, B, lv, c), NEW u, NEW r, IsShortened(v, u, r),
         ToSet(Items(v, v.root)) = {r}, IsData(r)
  PROVE  /\ u \in Trees /\ Linked(u) /\ Fits(u, {}) /\ IsData(u.root) /\ Items(u, u.root) = <<>>
         /\ r \in B /\ (~ v.tied => {o \in B : IsData(o)} = {r})
  <1>1. /\ v \in Trees /\ Shape(v, B, lv, {v.root}, c) /\ Linked(v) /\ Fits(v, {}) /\ Full(v, B, {v.root}) /\ B \subseteq Names(v)
        /\ v.root \in B /\ ~ IsData(v.root) /\ Downward(v, B, lv, {v.root})
        /\ \A n \in B : IsData(n) => Items(v, n) = <<>>
    BY DEF Settled, Whole, Shape, Levels, Kinds
  <1>2. r \in B /\ r \in Names(v) /\ Items(v, r) = <<>>
    BY <1>1 DEF Downward
  <1>3. Linked(u) /\ Fits(u, {})
    <2>1. Linked(u)
      BY <1>1 DEF Linked, IsShortened
    <2>2. Fits(u, {})
      BY <1>1 DEF Fits, IsShortened
    <2> QED BY <2>1, <2>2
  <1>4. u \in Trees /\ u.root = r /\ Items(u, r) = <<>>
    BY <1>2 DEF IsShortened
  <1>5. ASSUME ~ v.tied
        PROVE  {o \in B : IsData(o)} = {r}
    <2>1. Desc(v, v.root) = B
      BY <1>1, <1>5, DescRoot
    <2>2. Desc(v, v.root) = {v.root} \cup UNION {Desc(v, x) : x \in {r}}
      BY <1>1, DescUnion
    <2>3. Desc(v, r) = {r} \cup UNION {Desc(v, x) : x \in ToSet(Items(v, r))}
      BY <1>1, <1>2, DescUnion
    <2>4. ToSet(Items(v, r)) = {}
      <3>1. <<>> \in Seq(Int) /\ Len(<<>>) = 0
        OBVIOUS
      <3>2. ToSet(<<>>) = {}
        BY <3>1, SeqIs
      <3> QED BY <3>2, <1>2
    <2>5. Desc(v, r) = {r}
      BY <2>3, <2>4
    <2>6. B = {v.root, r}
      BY <2>1, <2>2, <2>5
    <2> QED BY <2>6, <1>1
  <1> QED BY <1>2, <1>3, <1>4, <1>5

\* A level is taken off the top.
Lower(lv, B, m) == [n \in B \ {m} |-> lv[n] - 1]

LEMMA ShortenInner ==
  ASSUME NEW v, NEW B, NEW lv, NEW c \in Int, Settled(v, B, lv, c), NEW u, NEW r, IsShortened(v, u, r),
         ToSet(Items(v, v.root)) = {r}, ~ IsData(r), B \cap Strays(v) = {}
  PROVE  Settled(u, B \ {v.root}, Lower(lv, B, v.root), c - 1) /\ (~ v.tied => Len(Items(u, r)) >= 2)
  <1>1. PICK C, lw : C = B \ {v.root} /\ lw = Lower(lv, B, v.root)
    OBVIOUS
  <1>2. /\ v \in Trees /\ Levels(v, B, lv, {v.root}) /\ Kinds(v, B, lv, c) /\ Downward(v, B, lv, {v.root})
        /\ Upward(v, B, lv, {v.root}) /\ Linked(v) /\ Fits(v, {}) /\ Full(v, B, {v.root}) /\ Owned(v, B) /\ Snug(v, B, {})
    BY DEF Settled, Whole, Shape
  <1>3. /\ B \subseteq Names(v) /\ lv \in [B -> Nat] /\ v.root \in B /\ lv[v.root] = 1 /\ ~ IsData(v.root) /\ v.height \in Nat
        /\ \A n \in B : ~ IsData(n) => lv[n] <= v.height
    BY <1>2, TreeIs DEF Levels
  <1>4. r \in B /\ r # v.root /\ lv[r] = 2 /\ r \in Names(v)
    BY <1>2, <1>3 DEF Downward
  <1>5. \A n \in C : n \in B /\ n \in Names(v) /\ lv[n] \in Nat /\ lv[n] >= 2 /\ lw[n] = lv[n] - 1
    <2>1. \A n \in C : n \in B /\ lw[n] = lv[n] - 1
      BY <1>1 DEF Lower
    <2>2. ASSUME NEW n \in C
          PROVE  lv[n] >= 2
      <3>1. n \in B \ {v.root}
        BY <1>1
      <3>2. Up(v, n) \in B /\ lv[n] = lv[Up(v, n)] + 1
        BY <3>1, <1>2 DEF Upward
      <3>3. lv[Up(v, n)] \in Nat /\ lv[Up(v, n)] >= 1
        BY <3>2, <1>2, <1>3 DEF Levels
      <3> QED BY <3>2, <3>3
    <2> QED BY <2>1, <2>2, <1>3
  <1>6. /\ u \in Trees /\ Names(u) = Names(v) /\ u.root = r /\ u.height = v.height - 1 /\ u.twin = v.twin /\ u.tied = v.tied
        /\ \A n \in Names(v) : /\ Items(u, n) = Items(v, n) /\ Leaf(u, n) = Leaf(v, n) /\ Bound(u, n) = Bound(v, n)
                               /\ Up(u, n) = IF n = r THEN Nil ELSE Up(v, n)
    BY DEF IsShortened
  <1>7. \A n \in C : \A x \in ToSet(Items(v, n)) :
          x \in C /\ x # r /\ lv[x] = lv[n] + 1 /\ (IsData(x) <=> Leaf(v, n))
    <2> SUFFICES ASSUME NEW n \in C, NEW x \in ToSet(Items(v, n))
                 PROVE  x \in C /\ x # r /\ lv[x] = lv[n] + 1 /\ (IsData(x) <=> Leaf(v, n))
      OBVIOUS
    <2>1. x \in B /\ x # v.root /\ lv[x] = lv[n] + 1 /\ (IsData(x) <=> Leaf(v, n))
      BY <1>2, <1>5 DEF Downward
    <2>2. x # r
      BY <2>1, <1>4, <1>5
    <2> QED BY <2>1, <2>2, <1>1
  <1>8. Levels(u, C, lw, {r})
    <2>1. lw \in [C -> Nat]
      BY <1>1, <1>5 DEF Lower
    <2>2. C \subseteq Names(u) /\ {r} \subseteq C /\ u.root \in {r} /\ ~ IsData(u.root)
      BY <1>1, <1>4, <1>5, <1>6
    <2>3. lw[u.root] = 1
      BY <2>2, <1>4, <1>5, <1>6
    <2>4. \A n \in C : lw[n] >= 1 /\ (~ IsData(n) => lw[n] <= u.height)
      BY <1>3, <1>5, <1>6
    <2> QED BY <2>1, <2>2, <2>3, <2>4 DEF Levels
  <1>9. Kinds(u, C, lw, c - 1)
    <2> SUFFICES ASSUME NEW n \in C
                 PROVE  /\ IsInjective(Items(u, n)) /\ (IsData(n) => Items(u, n) = <<>> /\ ~ Leaf(u, n))
                        /\ (~ IsData(n) => Leaf(u, n) \/ Items(u, n) # <<>>)
                        /\ (Leaf(u, n) => lw[n] >= c - 1)
      BY DEF Kinds
    <2>1. /\ IsInjective(Items(v, n)) /\ (IsData(n) => Items(v, n) = <<>> /\ ~ Leaf(v, n))
          /\ (~ IsData(n) => Leaf(v, n) \/ Items(v, n) # <<>>)
          /\ (Leaf(v, n) => lv[n] >= c)
      BY <1>2, <1>5 DEF Kinds
    <2>2. Items(u, n) = Items(v, n) /\ Leaf(u, n) = Leaf(v, n) /\ lw[n] = lv[n] - 1 /\ lv[n] \in Nat
      BY <1>5, <1>6
    <2> QED BY <2>1, <2>2
  <1>10. Downward(u, C, lw, {r})
    <2> SUFFICES ASSUME NEW n \in C, NEW x \in ToSet(Items(u, n))
                 PROVE  x \in C /\ x \notin {r} /\ lw[x] = lw[n] + 1 /\ (IsData(x) <=> Leaf(u, n))
      BY DEF Downward
    <2>1. x \in C /\ x # r /\ lv[x] = lv[n] + 1 /\ (IsData(x) <=> Leaf(v, n))
      BY <1>5, <1>6, <1>7
    <2>2. lw[x] = lv[x] - 1 /\ lw[n] = lv[n] - 1 /\ lv[n] \in Nat
      BY <2>1, <1>5
    <2> QED BY <2>1, <2>2, <1>5, <1>6
  <1>11. \A x \in C \ {r} : Up(u, x) = Up(v, x) /\ Up(v, x) \in C /\ ~ IsData(Up(v, x)) /\ lv[x] = lv[Up(v, x)] + 1
                            /\ (IsData(x) <=> Leaf(v, Up(v, x)))
    <2> SUFFICES ASSUME NEW x \in C \ {r}
                 PROVE  /\ Up(u, x) = Up(v, x) /\ Up(v, x) \in C /\ ~ IsData(Up(v, x)) /\ lv[x] = lv[Up(v, x)] + 1
                        /\ (IsData(x) <=> Leaf(v, Up(v, x)))
      OBVIOUS
    <2>1. x \in B /\ x # v.root
      BY <1>1
    <2>2. Up(v, x) \in B /\ ~ IsData(Up(v, x)) /\ lv[x] = lv[Up(v, x)] + 1 /\ (IsData(x) <=> Leaf(v, Up(v, x)))
      BY <2>1, <1>2 DEF Upward
    <2>3. Up(v, x) # v.root
      BY <2>1, <1>3 DEF Strays
    <2> QED BY <2>1, <2>2, <2>3, <1>1, <1>3, <1>6
  <1>12. Upward(u, C, lw, {r})
    <2> SUFFICES ASSUME NEW x \in C \ {r}
                 PROVE  /\ Up(u, x) \in C /\ ~ IsData(Up(u, x)) /\ lw[x] = lw[Up(u, x)] + 1
                        /\ (IsData(x) <=> Leaf(u, Up(u, x)))
      BY DEF Upward
    <2>1. Up(u, x) = Up(v, x) /\ Up(v, x) \in C /\ ~ IsData(Up(v, x)) /\ lv[x] = lv[Up(v, x)] + 1
          /\ (IsData(x) <=> Leaf(v, Up(v, x)))
      BY <1>11
    <2>2. lw[x] = lv[x] - 1 /\ lw[Up(v, x)] = lv[Up(v, x)] - 1 /\ lv[Up(v, x)] \in Nat /\ Up(v, x) \in Names(v)
      BY <2>1, <1>5
    <2> QED BY <2>1, <2>2, <1>6
  <1>13. Linked(u) /\ Fits(u, {})
    <2>1. Linked(u)
      BY <1>2 DEF Linked, IsShortened
    <2>2. Fits(u, {})
      BY <1>2 DEF Fits, IsShortened
    <2> QED BY <2>1, <2>2
  <1>14. Full(u, C, {r}) /\ (~ v.tied => Len(Items(u, r)) >= 2)
    <2>1. ASSUME ~ v.tied
          PROVE  /\ \A x \in C \ {r} : x \in ToSet(Items(u, Up(u, x)))
                 /\ \A n \in C : ~ IsData(n) => Len(Items(u, n)) >= MinChildItems
      <3>1. \A x \in B \ {v.root} : x \in ToSet(Items(v, Up(v, x)))
        BY <2>1, <1>2 DEF Full
      <3>2. \A n \in B : ~ IsData(n) /\ n # v.root => Len(Items(v, n)) >= MinChildItems
        BY <2>1, <1>2 DEF Full
      <3>3. ASSUME NEW x \in C \ {r}
            PROVE  x \in ToSet(Items(u, Up(u, x)))
        <4>1. Up(u, x) = Up(v, x) /\ Up(v, x) \in Names(v)
          BY <1>5, <1>11
        <4>2. x \in ToSet(Items(v, Up(v, x)))
          BY <3>1, <1>1
        <4> QED BY <4>1, <4>2, <1>6
      <3>4. \A n \in C : ~ IsData(n) => Len(Items(u, n)) >= MinChildItems
        BY <3>2, <1>1, <1>5, <1>6
      <3> QED BY <3>3, <3>4
    <2>2. Full(u, C, {r})
      BY <2>1, <1>6 DEF Full
    <2>3. ASSUME ~ v.tied
          PROVE  Len(Items(u, r)) >= 2
      <3>1. Len(Items(u, r)) >= MinChildItems /\ r \in Names(u)
        BY <2>1, <2>3, <1>1, <1>4, <1>6
      <3>2. Items(u, r) \in Seq(Int)
        BY <3>1, <1>6, NodeIs
      <3> QED BY <3>1, <3>2, RtreeAssumption
    <2> QED BY <2>2, <2>3
  <1>15. Owned(u, C)
    <2> SUFFICES ASSUME ~ v.twin, NEW n \in C, NEW x \in ToSet(Items(u, n))
                 PROVE  Up(u, x) = n
      BY <1>6 DEF Owned
    <2>1. Items(u, n) = Items(v, n)
      BY <1>5, <1>6
    <2>2. x \in C /\ x # r
      BY <2>1, <1>7
    <2>3. Up(v, x) = n
      BY <2>1, <1>2, <1>5 DEF Owned
    <2> QED BY <2>2, <2>3, <1>5, <1>6
  <1>16. Snug(u, C, {})
    <2> SUFFICES ASSUME ~ v.twin, NEW n \in C, Items(u, n) # <<>>
                 PROVE  Bound(u, n) = ComputeBB(u, Items(u, n))
      BY <1>6 DEF Snug
    <2>1. Items(u, n) = Items(v, n) /\ Bound(u, n) = Bound(v, n) /\ n \in Names(v)
      BY <1>5, <1>6
    <2>2. Bound(v, n) = ComputeBB(v, Items(v, n))
      BY <2>1, <1>2, <1>5 DEF Snug
    <2>3. \A x \in ToSet(Items(v, n)) : Bound(v, x) = Bound(u, x)
      BY <1>5, <1>6, <1>7
    <2>4. ComputeBB(v, Items(v, n)) = ComputeBB(u, Items(v, n))
      BY <2>3, <1>2, <1>6, ComputeBBSame
    <2> QED BY <2>1, <2>2, <2>4
  <1>17. Settled(u, C, lw, c - 1)
    BY <1>6, <1>8, <1>9, <1>10, <1>12, <1>13, <1>14, <1>15, <1>16 DEF Settled, Whole, Shape
  <1> QED BY <1>1, <1>14, <1>17

-----------------------------------------------------------------------------
(* Finding the node that holds an object *)

Answers == [node : Int, level : Nat]

\* The entries of n below which f has an answer.
Hopeful(t, b, n, f) ==
  {i \in DOMAIN Items(t, n) :
     /\ ~ t.node[n].leaf /\ Overlaps(Bound(t, Items(t, n)[i]), b)
     /\ f[Items(t, n)[i]] # NotFound}

FindAt(t, b, o, f, n) ==
  IF Hopeful(t, b, n, f) # {}
  THEN [f[Items(t, n)[Min(Hopeful(t, b, n, f))]] EXCEPT !.level = @ + 1]
  ELSE IF \E x \in ToSet(Items(t, n)) : LeafID(x) = o THEN [node |-> n, level |-> 1]
  ELSE NotFound

FindTurn(t, b, o, f) == [n \in Names(t) |-> FindAt(t, b, o, f, n)]

FindStep(t, b, o, h) ==
  [k \in 0..t.height |->
     [n \in DOMAIN t.node |->
        LET items == Items(t, n)
            below == {i \in DOMAIN items :
                        /\ k > 0 /\ ~ t.node[n].leaf /\ Overlaps(Bound(t, items[i]), b)
                        /\ h[k - 1][items[i]] # NotFound}
            sub == h[k - 1][items[Min(below)]]
        IN  IF below # {} THEN [sub EXCEPT !.level = @ + 1]
            ELSE IF k > 0 /\ \E x \in ToSet(items) : LeafID(x) = o
                 THEN [node |-> n, level |-> 1]
            ELSE NotFound]]

Hunts(t, b, o) == CHOOSE h : h = FindStep(t, b, o, h)

\* An answer below node n names an inner node with an entry that looks like o.
Finds(t, A, lv, o, n, r) ==
  r # NotFound =>
    /\ r.node \in A /\ ~ IsData(r.node) /\ r.level = lv[r.node] - lv[n] + 1
    /\ \E x \in ToSet(Items(t, r.node)) : LeafID(x) = o

\* What k turns answer.
Hunted(t, A, lv, o, k, f) ==
  /\ f \in [Names(t) -> Answers]
  /\ \A n \in A : Finds(t, A, lv, o, n, f[n])
  /\ \A n \in A : ~ IsData(n) /\ o \in Desc(t, n) /\ lv[n] + k > t.height => f[n] # NotFound

LEMMA NotFoundIs == NotFound \in Answers /\ NotFound.level = 0
  BY DEF NotFound, Answers, Nil

\* The level of an answer, counted from one node higher.
LEMMA OneUp ==
  ASSUME NEW r \in Answers, NEW s, s = [r EXCEPT !.level = @ + 1]
  PROVE  s \in Answers /\ s.node = r.node /\ s.level = r.level + 1 /\ s # NotFound
  <1>1. s \in Answers /\ s.node = r.node /\ s.level = r.level + 1 /\ r.level \in Nat
    BY DEF Answers
  <1>2. s.level # 0
    BY <1>1
  <1> QED BY <1>1, <1>2, NotFoundIs

LEMMA FindAtIs ==
  ASSUME NEW t \in Trees, Linked(t), NEW b, NEW o, NEW f \in [Names(t) -> Answers], NEW n \in Names(t),
         NEW r, r = FindAt(t, b, o, f, n)
  PROVE  /\ r \in Answers
         /\ \/ r = NotFound
            \/ \E x \in ToSet(Items(t, n)) : /\ ~ Leaf(t, n) /\ f[x] # NotFound
                                             /\ r.node = f[x].node /\ r.level = f[x].level + 1
            \/ r.node = n /\ r.level = 1 /\ \E x \in ToSet(Items(t, n)) : LeafID(x) = o
         /\ (\E x \in ToSet(Items(t, n)) : ~ Leaf(t, n) /\ Overlaps(Bound(t, x), b) /\ f[x] # NotFound) => r # NotFound
         /\ (\E x \in ToSet(Items(t, n)) : LeafID(x) = o) => r # NotFound
  <1>1. PICK s : s = Items(t, n)
    OBVIOUS
  <1>2. /\ s \in Seq(Int) /\ ToSet(s) \subseteq Names(t) /\ Len(s) \in Nat /\ DOMAIN s = 1..Len(s)
        /\ ToSet(s) = {s[i] : i \in 1..Len(s)} /\ n \in Int
    <2>1. s \in Seq(Int) /\ ToSet(s) \subseteq Names(t) /\ n \in Int
      BY <1>1, NodeIs, TreeIs DEF Linked
    <2> QED BY <2>1, SeqIs
  <1>3. PICK H : H = Hopeful(t, b, n, f)
    OBVIOUS
  <1>4. H = {i \in 1..Len(s) : ~ Leaf(t, n) /\ Overlaps(Bound(t, s[i]), b) /\ f[s[i]] # NotFound}
    BY <1>1, <1>2, <1>3 DEF Hopeful, Leaf
  <1>5. CASE H # {}
    <2>1. PICK i : i = Min(H)
      OBVIOUS
    <2>2. i \in H
      <3>1. H \subseteq 1..Len(s)
        BY <1>4
      <3>2. IsFiniteSet(1..Len(s)) /\ 1..Len(s) \subseteq Int
        <4>1. PICK m \in Nat : m = Len(s)
          BY <1>2
        <4>2. IsFiniteSet(1..m) /\ 1..m \subseteq Int
          BY FS_Interval
        <4> QED BY <4>1, <4>2
      <3>3. IsFiniteSet(H)
        BY <3>1, <3>2, FS_Subset
      <3> QED BY <3>1, <3>2, <3>3, <2>1, <1>5, MinIs
    <2>3. PICK x : x = s[i]
      OBVIOUS
    <2>4. x \in ToSet(s) /\ x \in Names(t) /\ ~ Leaf(t, n) /\ f[x] # NotFound /\ f[x] \in Answers
      BY <1>2, <1>4, <2>2, <2>3
    <2>5. r = [f[x] EXCEPT !.level = @ + 1]
      BY <1>1, <1>3, <1>5, <2>1, <2>3 DEF FindAt
    <2>6. r \in Answers /\ r.node = f[x].node /\ r.level = f[x].level + 1 /\ r # NotFound
      BY <2>4, <2>5, OneUp
    <2> QED BY <2>4, <2>6, <1>1
  <1>6. CASE H = {} /\ \E x \in ToSet(s) : LeafID(x) = o
    <2>1. r = [node |-> n, level |-> 1]
      BY <1>1, <1>3, <1>6 DEF FindAt
    <2>2. r \in Answers /\ r.node = n /\ r.level = 1
      BY <2>1, <1>2 DEF Answers
    <2>3. r # NotFound
      BY <2>2, NotFoundIs
    <2> QED BY <2>2, <2>3, <1>1, <1>6
  <1>7. CASE H = {} /\ ~ \E x \in ToSet(s) : LeafID(x) = o
    <2>1. r = NotFound
      BY <1>1, <1>3, <1>7 DEF FindAt
    <2>2. ~ \E x \in ToSet(s) : ~ Leaf(t, n) /\ Overlaps(Bound(t, x), b) /\ f[x] # NotFound
      BY <1>2, <1>4, <1>7
    <2> QED BY <2>1, <2>2, <1>1, <1>7, NotFoundIs
  <1> QED BY <1>5, <1>6, <1>7

-----------------------------------------------------------------------------
LEMMA FindTurnType ==
  ASSUME NEW t \in Trees, Linked(t), NEW b, NEW o, NEW f \in [Names(t) -> Answers]
  PROVE  FindTurn(t, b, o, f) \in [Names(t) -> Answers]
  <1> SUFFICES ASSUME NEW n \in Names(t)
               PROVE  FindAt(t, b, o, f, n) \in Answers
    BY DEF FindTurn
  <1> QED BY FindAtIs

\* Answers remain answers, one node higher.
LEMMA FindsOn ==
  ASSUME NEW t, NEW A, NEW lv, NEW c, Settled(t, A, lv, c), NEW b, NEW o, NEW f \in [Names(t) -> Answers],
         \A n \in A : Finds(t, A, lv, o, n, f[n]), NEW n \in A, NEW r, r = FindAt(t, b, o, f, n)
  PROVE  Finds(t, A, lv, o, n, r)
  <1>1. /\ t \in Trees /\ Linked(t) /\ Downward(t, A, lv, {t.root}) /\ n \in Names(t) /\ lv[n] \in Nat /\ lv \in [A -> Nat]
        /\ \A m \in A : IsData(m) => Items(t, m) = <<>>
    BY DEF Settled, Whole, Shape, Levels, Kinds
  <1>2. \/ r = NotFound
        \/ \E x \in ToSet(Items(t, n)) : /\ ~ Leaf(t, n) /\ f[x] # NotFound
                                         /\ r.node = f[x].node /\ r.level = f[x].level + 1
        \/ r.node = n /\ r.level = 1 /\ \E x \in ToSet(Items(t, n)) : LeafID(x) = o
    BY <1>1, FindAtIs
  <1>3. ASSUME NEW x \in ToSet(Items(t, n)), f[x] # NotFound, r.node = f[x].node, r.level = f[x].level + 1
        PROVE  Finds(t, A, lv, o, n, r)
    <2>1. x \in A /\ lv[x] = lv[n] + 1
      BY <1>1 DEF Downward
    <2>2. /\ f[x].node \in A /\ ~ IsData(f[x].node) /\ f[x].level = lv[f[x].node] - lv[x] + 1
          /\ \E y \in ToSet(Items(t, f[x].node)) : LeafID(y) = o
      BY <2>1, <1>3 DEF Finds
    <2>3. lv[f[x].node] \in Nat
      BY <2>2, <1>1
    <2>4. r.level = lv[r.node] - lv[n] + 1
      BY <2>1, <2>2, <2>3, <1>1, <1>3
    <2> QED BY <2>2, <2>4, <1>3 DEF Finds
  <1>4. ASSUME r.node = n, r.level = 1, NEW x \in ToSet(Items(t, n)), LeafID(x) = o
        PROVE  Finds(t, A, lv, o, n, r)
    <2>1. ~ IsData(n)
      <3>1. <<>> \in Seq(Int) /\ Len(<<>>) = 0
        OBVIOUS
      <3>2. ToSet(<<>>) = {}
        BY <3>1, SeqIs
      <3> QED BY <3>2, <1>1
    <2>2. r.level = lv[r.node] - lv[n] + 1
      BY <1>1, <1>4
    <2> QED BY <2>1, <2>2, <1>4 DEF Finds
  <1>5. ASSUME r = NotFound
        PROVE  Finds(t, A, lv, o, n, r)
    BY <1>5 DEF Finds
  <1> QED BY <1>2, <1>3, <1>4, <1>5

\* An object below n is not missed.
LEMMA FindsAll ==
  ASSUME NEW t, NEW A, NEW lv, NEW c, Settled(t, A, lv, c), ~ t.twin, NEW o, IsData(o), NEW b \in BoxSet, b = Bound(t, o),
         Overlaps(b, b), NEW k \in Nat \ {0}, NEW f, Hunted(t, A, lv, o, k - 1, f),
         NEW n \in A, ~ IsData(n), o \in Desc(t, n), lv[n] + k > t.height
  PROVE  FindAt(t, b, o, f, n) # NotFound
  <1>1. /\ t \in Trees /\ Linked(t) /\ Downward(t, A, lv, {t.root}) /\ n \in Names(t) /\ lv[n] \in Nat /\ lv \in [A -> Nat]
        /\ Shape(t, A, lv, {t.root}, c) /\ Snug(t, A, {}) /\ A \subseteq Names(t) /\ t.height \in Nat
        /\ \A m \in A : IsData(m) => Items(t, m) = <<>>
    BY TreeIs DEF Settled, Whole, Shape, Levels, Kinds
  <1>2. f \in [Names(t) -> Answers]
    BY DEF Hunted
  <1>3. Desc(t, n) = {n} \cup UNION {Desc(t, x) : x \in ToSet(Items(t, n))}
    BY <1>1, DescUnion
  <1>4. PICK x \in ToSet(Items(t, n)) : o \in Desc(t, x)
    BY <1>3
  <1>5. x \in A /\ lv[x] = lv[n] + 1 /\ (IsData(x) <=> Leaf(t, n)) /\ x \in Names(t) /\ o \in Names(t)
    <2>1. x \in A /\ lv[x] = lv[n] + 1 /\ (IsData(x) <=> Leaf(t, n))
      BY <1>1 DEF Downward
    <2>2. x \in Names(t)
      BY <2>1, <1>1
    <2> QED BY <2>1, <2>2, <1>1, <1>4, DescIs
  <1>6. CASE IsData(x)
    <2>1. ToSet(Items(t, x)) = {}
      <3>1. <<>> \in Seq(Int) /\ Len(<<>>) = 0
        OBVIOUS
      <3>2. ToSet(<<>>) = {}
        BY <3>1, SeqIs
      <3> QED BY <3>2, <1>1, <1>5, <1>6
    <2>2. Desc(t, x) = {x} \cup UNION {Desc(t, y) : y \in ToSet(Items(t, x))}
      BY <1>1, <1>5, DescUnion
    <2>3. x = o
      BY <2>1, <2>2, <1>4
    <2>4. LeafID(x) = o
      BY <2>3, <1>6 DEF LeafID
    <2> QED BY <2>4, <1>1, <1>2, FindAtIs
  <1>7. CASE ~ IsData(x)
    <2>1. lv[x] + (k - 1) > t.height
      BY <1>1, <1>5
    <2>2. f[x] # NotFound
      BY <2>1, <1>4, <1>5, <1>7 DEF Hunted
    <2>3. Within(Bound(t, o), Bound(t, x))
      BY <1>1, <1>4, <1>5, DescWithin
    <2>4. Bound(t, x) \in BoxSet
      BY <1>1, <1>5, NodeIs
    <2>5. Overlaps(Bound(t, x), b)
      BY <2>3, <2>4, OverlapsWithin
    <2>6. ~ Leaf(t, n)
      BY <1>5, <1>7
    <2> QED BY <2>2, <2>5, <2>6, <1>1, <1>2, FindAtIs
  <1> QED BY <1>6, <1>7

LEMMA FindTurnIs ==
  ASSUME NEW t, NEW A, NEW lv, NEW c, Settled(t, A, lv, c), ~ t.twin, NEW o, IsData(o), NEW b \in BoxSet,
         o \in A => b = Bound(t, o), Overlaps(b, b), NEW k \in Nat \ {0}, NEW f, Hunted(t, A, lv, o, k - 1, f)
  PROVE  Hunted(t, A, lv, o, k, FindTurn(t, b, o, f))
  <1>1. /\ t \in Trees /\ Linked(t) /\ A \subseteq Names(t) /\ Shape(t, A, lv, {t.root}, c)
    BY DEF Settled, Whole, Shape, Levels
  <1>2. f \in [Names(t) -> Answers] /\ \A n \in A : Finds(t, A, lv, o, n, f[n])
    BY DEF Hunted
  <1>3. FindTurn(t, b, o, f) \in [Names(t) -> Answers]
    BY <1>1, <1>2, FindTurnType
  <1>4. ASSUME NEW n \in A
        PROVE  /\ Finds(t, A, lv, o, n, FindTurn(t, b, o, f)[n])
               /\ ~ IsData(n) /\ o \in Desc(t, n) /\ lv[n] + k > t.height => FindTurn(t, b, o, f)[n] # NotFound
    <2>1. FindTurn(t, b, o, f)[n] = FindAt(t, b, o, f, n)
      BY <1>1 DEF FindTurn
    <2>2. Finds(t, A, lv, o, n, FindAt(t, b, o, f, n))
      BY <1>2, FindsOn
    <2>3. ASSUME ~ IsData(n), o \in Desc(t, n), lv[n] + k > t.height
          PROVE  FindAt(t, b, o, f, n) # NotFound
      <3>1. o \in A
        BY <2>3, <1>1, DescLevels
      <3> QED BY <3>1, <2>3, FindsAll
    <2> QED BY <2>1, <2>2, <2>3
  <1> QED BY <1>3, <1>4 DEF Hunted

\* The loop over the nodes of a tree, whatever its shape.
LEMMA HuntsAre ==
  ASSUME NEW t \in Trees, Linked(t), NEW b, NEW o, NEW g, g = Hunts(t, b, o)
  PROVE  /\ g[0] = [n \in Names(t) |-> NotFound]
         /\ \A k \in 1..t.height : g[k] = FindTurn(t, b, o, g[k - 1]) /\ g[k - 1] \in [Names(t) -> Answers]
         /\ \A k \in 0..t.height : g[k] \in [Names(t) -> Answers]
  <1> DEFINE l == t.height
             V == [Names(t) -> Answers]
             W == [k \in 0..l |-> V]
             T(f) == FindTurn(t, b, o, f)
             G == [kf \in (1..l) \X V |-> T(kf[2])]
             base == [n \in Names(t) |-> NotFound]
  <1>1. l \in Nat
    BY TreeIs
  <1> HIDE DEF l
  <1>2. base \in V /\ \A f \in V : T(f) \in V
    BY NotFoundIs, FindTurnType
  <1> HIDE DEF V, T, base
  <1>3. \A k \in 0..l : W[k] = V
    OBVIOUS
  <1>4. \A k \in 1..l : \A f \in V : G[<<k, f>>] = T(f)
    OBVIOUS
  <1>5. \A k \in 1..l : k \in 0..l /\ k - 1 \in 0..l /\ k # 0
    BY <1>1
  <1>6. 0 \in 0..l
    BY <1>1
  <1> HIDE DEF W, G
  <1>7. Turns0(l, W, base, G)
    BY <1>2, <1>3, <1>4, <1>5, <1>6 DEF Turns0
  <1>8. PICK h : Turned0(h, l, W, base, G)
    BY <1>1, <1>7, LoopExists
  <1>9. \A k \in 1..l : h[k] = T(h[k - 1])
    BY <1>3, <1>4, <1>5, <1>8 DEF Turned0
  <1>10. \A f, k : k \in 0..l => FindStep(t, b, o, f)[k] = IF k = 0 THEN base ELSE T(f[k - 1])
    <2> SUFFICES ASSUME NEW f, NEW k \in 0..l
                 PROVE  FindStep(t, b, o, f)[k] = IF k = 0 THEN base ELSE T(f[k - 1])
      OBVIOUS
    <2>1. CASE k = 0
      <3>1. ~ (k > 0) /\ 0 \in 0..l
        BY <2>1, <1>1
      <3>2. FindStep(t, b, o, f)[k] = [n \in Names(t) |-> NotFound]
        BY <3>1 DEF FindStep, Names, l
      <3> QED BY <3>2, <2>1 DEF base
    <2>2. CASE k # 0
      <3>1. k > 0 /\ k \in 0..t.height
        BY <2>2, <1>1 DEF l
      <3>2. FindStep(t, b, o, f)[k] = FindTurn(t, b, o, f[k - 1])
        BY <3>1 DEF FindStep, FindTurn, FindAt, Hopeful, Names
      <3> QED BY <3>2, <2>2 DEF T
    <2> QED BY <2>1, <2>2
  <1>11. h = FindStep(t, b, o, h)
    <2>1. \A k \in 0..l : h[k] = IF k = 0 THEN base ELSE T(h[k - 1])
      <3>1. \A k \in 0..l : k = 0 \/ k \in 1..l
        BY <1>1
      <3> QED BY <3>1, <1>8, <1>9 DEF Turned0
    <2>2. h = [k \in 0..l |-> h[k]]
      BY <1>8 DEF Turned0
    <2>3. \A k \in 0..l : h[k] = FindStep(t, b, o, h)[k]
      BY <2>1, <1>10
    <2>4. FindStep(t, b, o, h) = [k \in 0..l |-> FindStep(t, b, o, h)[k]]
      BY DEF FindStep, l
    <2> QED BY <2>2, <2>3, <2>4
  <1>12. g = FindStep(t, b, o, g)
    BY <1>11 DEF Hunts
  <1>13. g[0] = base /\ \A k \in 1..l : g[k] = T(g[k - 1])
    BY <1>5, <1>6, <1>10, <1>12
  <1>14. \A k \in 0..l : g[k] \in W[k]
    <2>1. g[0] \in W[0]
      BY <1>2, <1>3, <1>6, <1>13
    <2>2. \A k \in 1..l : g[k - 1] \in W[k - 1] => g[k] \in W[k]
      BY <1>2, <1>3, <1>5, <1>13
    <2> QED BY <1>1, <2>1, <2>2, LoopStays
  <1>15. \A k \in 0..l : g[k] \in V
    BY <1>3, <1>14
  <1> QED BY <1>5, <1>13, <1>15 DEF T, V, base, l

LEMMA FindLeafAt ==
  ASSUME NEW t, NEW o, NEW b, b = map[o].box
  PROVE  FindLeaf(t, o) = Hunts(t, b, o)[t.height][t.root]
  <1>1. FindLeaf(t, o) = Hunts(t, map[o].box, o)[t.height][t.root]
    BY DEF FindLeaf, Hunts, FindStep
  <1> QED BY <1>1

LEMMA FindLeafIs ==
  ASSUME NEW t, NEW A, NEW lv, NEW c, Settled(t, A, lv, c), ~ t.twin, NEW o, IsData(o), NEW b \in BoxSet, b = map[o].box,
         o \in A => b = Bound(t, o), Overlaps(b, b), NEW r, r = FindLeaf(t, o)
  PROVE  Finds(t, A, lv, o, t.root, r) /\ (o \in Desc(t, t.root) => r # NotFound)
  <1>1. PICK l, g : l = t.height /\ g = Hunts(t, b, o)
    OBVIOUS
  <1>2. t \in Trees /\ l \in Nat /\ Levels(t, A, lv, {t.root}) /\ A \subseteq Names(t) /\ Linked(t)
    BY <1>1, TreeIs DEF Settled, Whole, Shape, Levels
  <1>3. /\ g[0] = [n \in Names(t) |-> NotFound] /\ g[0] \in [Names(t) -> Answers]
        /\ \A k \in 1..l : g[k] = FindTurn(t, b, o, g[k - 1])
    <2>1. 0 \in 0..l
      BY <1>2
    <2> QED BY <2>1, <1>1, <1>2, HuntsAre
  <1>4. PICK W : W = [k \in 0..l |-> {f \in [Names(t) -> Answers] : Hunted(t, A, lv, o, k, f)}]
    OBVIOUS
  <1>5. \A k \in 0..l : \A f : f \in W[k] <=> Hunted(t, A, lv, o, k, f)
    BY <1>4 DEF Hunted
  <1>6. g[0] \in W[0]
    <2>1. \A n \in A : ~ IsData(n) => ~ (lv[n] + 0 > t.height)
      BY <1>1, <1>2 DEF Levels
    <2>2. \A n \in A : Finds(t, A, lv, o, n, g[0][n])
      BY <1>2, <1>3 DEF Finds
    <2>3. Hunted(t, A, lv, o, 0, g[0])
      BY <2>1, <2>2, <1>3 DEF Hunted
    <2>4. 0 \in 0..l
      BY <1>2
    <2> QED BY <2>3, <2>4, <1>5
  <1>7. ASSUME NEW k \in 1..l, g[k - 1] \in W[k - 1]
        PROVE  g[k] \in W[k]
    <2>1. k - 1 \in 0..l /\ k \in 0..l /\ k \in Nat \ {0}
      BY <1>2
    <2>2. Hunted(t, A, lv, o, k - 1, g[k - 1])
      BY <2>1, <1>5, <1>7
    <2>3. Hunted(t, A, lv, o, k, FindTurn(t, b, o, g[k - 1]))
      BY <2>1, <2>2, FindTurnIs
    <2> QED BY <2>1, <2>3, <1>3, <1>5
  <1>8. Hunted(t, A, lv, o, l, g[l])
    <2>1. \A k \in 0..l : g[k] \in W[k]
      BY <1>2, <1>6, <1>7, LoopStays
    <2>2. l \in 0..l
      BY <1>2
    <2> QED BY <2>1, <2>2, <1>5
  <1>9. r = g[l][t.root]
    BY <1>1, FindLeafAt
  <1>10. t.root \in A /\ ~ IsData(t.root) /\ lv[t.root] + l > l
    BY <1>2 DEF Levels
  <1> QED BY <1>1, <1>8, <1>9, <1>10 DEF Hunted

\* Nothing is found in a tree whose root has no entries.
LEMMA FindNothing ==
  ASSUME NEW t \in Trees, Linked(t), Items(t, t.root) = <<>>, NEW o
  PROVE  FindLeaf(t, o) = NotFound
  <1>1. PICK b, l : b = map[o].box /\ l = t.height
    OBVIOUS
  <1>2. PICK g : g = Hunts(t, b, o)
    OBVIOUS
  <1>3. l \in Nat /\ t.root \in Names(t)
    BY <1>1, TreeIs
  <1>4. /\ g[0] = [n \in Names(t) |-> NotFound]
        /\ \A k \in 1..l : g[k] = FindTurn(t, b, o, g[k - 1]) /\ g[k - 1] \in [Names(t) -> Answers]
    BY <1>1, <1>2, HuntsAre
  <1>5. FindLeaf(t, o) = g[l][t.root]
    BY <1>1, <1>2, FindLeafAt
  <1>6. ToSet(Items(t, t.root)) = {}
    <2>1. <<>> \in Seq(Int) /\ Len(<<>>) = 0
      OBVIOUS
    <2>2. ToSet(<<>>) = {}
      BY <2>1, SeqIs
    <2> QED BY <2>2
  <1>7. CASE l = 0
    BY <1>3, <1>4, <1>5, <1>7
  <1>8. CASE l # 0
    <2>1. l \in 1..l
      BY <1>3, <1>8
    <2>2. PICK f : f = g[l - 1]
      OBVIOUS
    <2>3. g[l] = FindTurn(t, b, o, f) /\ f \in [Names(t) -> Answers]
      BY <2>1, <2>2, <1>4
    <2>4. g[l][t.root] = FindAt(t, b, o, f, t.root)
      BY <2>3, <1>3 DEF FindTurn
    <2>5. FindAt(t, b, o, f, t.root) = NotFound
      BY <2>3, <1>3, <1>6, FindAtIs
    <2> QED BY <2>4, <2>5, <1>5
  <1> QED BY <1>7, <1>8

-----------------------------------------------------------------------------
(* The tree after a deletion *)

Stamp(t, k, b) == [t EXCEPT !.size = k, !.lopped = b]

LEMMA StampIs ==
  ASSUME NEW t \in Trees, NEW k \in Int, NEW b \in BOOLEAN, NEW u, u = Stamp(t, k, b)
  PROVE  /\ u \in Trees /\ Names(u) = Names(t) /\ u.node = t.node /\ u.root = t.root /\ u.height = t.height
         /\ u.size = k /\ u.twin = t.twin /\ u.tied = t.tied /\ u.lopped = b /\ u.skewed = t.skewed
  <1> DEFINE All == [root : Int, size : Int, height : Nat, node : Nodes,
                     twin : BOOLEAN, tied : BOOLEAN, lopped : BOOLEAN, skewed : BOOLEAN]
  <1>1. t \in All
    BY DEF Trees
  <1>2. /\ u \in All /\ u.node = t.node /\ u.root = t.root /\ u.height = t.height
        /\ u.size = k /\ u.twin = t.twin /\ u.tied = t.tied /\ u.lopped = b /\ u.skewed = t.skewed
    BY <1>1 DEF Stamp
  <1>3. IsFiniteSet(DOMAIN u.node) /\ u.root \in DOMAIN u.node /\ -2 \in DOMAIN u.node /\ -1 \notin DOMAIN u.node
    BY <1>2, TreeIs DEF Names
  <1>4. u \in Trees
    BY <1>2, <1>3 DEF Trees
  <1> QED BY <1>2, <1>4 DEF Names

\* What stays of tree t when only the objects Q do.
Remaining(t, Q, u) ==
  \/ /\ u \in Trees /\ Linked(u) /\ Fits(u, {}) /\ IsData(u.root) /\ Items(u, u.root) = <<>>
     /\ ~ u.tied => Q = {u.root}
  \/ \E C, lw, e :
       /\ Settled(u, C, lw, e) /\ e \in Int /\ (~ u.skewed => e = u.height)
       /\ ~ u.tied /\ ~ Leaf(u, u.root) => Len(Items(u, u.root)) >= 2
       /\ Q = {o \in C : IsData(o)} /\ \A o \in Q : Bound(u, o) = Bound(t, o)

LEMMA StampRested ==
  ASSUME NEW t, NEW Q, NEW v, NEW B, NEW lw, NEW c, Rested(t, Q, v, B, lw, c), NEW k \in Int, NEW b \in BOOLEAN,
         NEW w, w = Stamp(v, k, b)
  PROVE  /\ Settled(w, B, lw, c) /\ c \in Int /\ (~ w.skewed => c = w.height)
         /\ Q = {x \in B : IsData(x)} /\ \A x \in Q : Bound(w, x) = Bound(t, x)
         /\ Len(Items(w, w.root)) >= 2 \/ B \cap Strays(w) = {}
         /\ w.size = k /\ w.lopped = b
  <1>1. /\ Settled(v, B, lw, c) /\ c \in Int /\ (~ v.skewed => c = v.height)
        /\ Q = {x \in B : IsData(x)} /\ (\A x \in Q : Bound(v, x) = Bound(t, x))
        /\ Len(Items(v, v.root)) >= 2 \/ B \cap Strays(v) = {}
    BY DEF Rested
  <1>2. v \in Trees /\ B \subseteq Names(v) /\ Linked(v) /\ Fits(v, {})
    BY <1>1 DEF Settled, Whole, Shape, Levels
  <1>3. /\ w \in Trees /\ Names(w) = Names(v) /\ w.node = v.node /\ w.root = v.root /\ w.height = v.height
        /\ w.size = k /\ w.twin = v.twin /\ w.tied = v.tied /\ w.lopped = b /\ w.skewed = v.skewed
    BY <1>2, StampIs
  <1>4. \A m : Items(w, m) = Items(v, m) /\ Bound(w, m) = Bound(v, m) /\ Leaf(w, m) = Leaf(v, m) /\ Up(w, m) = Up(v, m)
    BY <1>3 DEF Items, Bound, Leaf, Up
  <1>5. Agree(v, w, B)
    BY <1>2, <1>3, <1>4 DEF Agree, Alike
  <1>6. Linked(w) /\ Fits(w, {})
    <2>1. Linked(w)
      BY <1>2, <1>3, <1>4 DEF Linked
    <2>2. Fits(w, {})
      BY <1>2, <1>3, <1>4 DEF Fits
    <2> QED BY <2>1, <2>2
  <1>7. Settled(w, B, lw, c)
    BY <1>1, <1>3, <1>5, <1>6, AgreeSettled
  <1>8. Strays(w) = Strays(v)
    BY <1>3, <1>4 DEF Strays
  <1> QED BY <1>1, <1>3, <1>4, <1>7, <1>8

LEMMA ShortenRemains ==
  ASSUME NEW t, NEW Q, NEW v, NEW B, NEW lw, NEW c, Rested(t, Q, v, B, lw, c), NEW k \in Int, NEW b \in BOOLEAN,
         NEW w, w = Stamp(v, k, b), NEW u, u = ShortenTree(w)
  PROVE  Remaining(t, Q, u) /\ u.size = k /\ u.lopped = b
  <1>1. /\ Settled(w, B, lw, c) /\ c \in Int /\ (~ w.skewed => c = w.height)
        /\ Q = {x \in B : IsData(x)} /\ (\A x \in Q : Bound(w, x) = Bound(t, x))
        /\ Len(Items(w, w.root)) >= 2 \/ B \cap Strays(w) = {}
        /\ w.size = k /\ w.lopped = b
    BY StampRested
  <1>2. /\ w \in Trees /\ Linked(w) /\ w.root \in Names(w) /\ Items(w, w.root) \in Seq(Int) /\ Len(Items(w, w.root)) \in Nat
        /\ w.height \in Nat /\ w.root \in B /\ ~ IsData(w.root) /\ w.height >= 1 /\ B \subseteq Names(w)
    <2>1. w \in Trees /\ Linked(w) /\ Levels(w, B, lw, {w.root})
      BY <1>1 DEF Settled, Whole, Shape
    <2>2. w.root \in Names(w) /\ Items(w, w.root) \in Seq(Int) /\ w.height \in Nat
      BY <2>1, TreeIs, NodeIs
    <2>3. w.root \in B /\ ~ IsData(w.root) /\ w.height >= 1 /\ B \subseteq Names(w)
      BY <2>1 DEF Levels
    <2> QED BY <2>1, <2>2, <2>3
  <1>3. ASSUME Len(Items(w, w.root)) # 1
        PROVE  Remaining(t, Q, u) /\ u.size = k /\ u.lopped = b
    <2>1. u = w
      BY <1>3 DEF ShortenTree
    <2>2. ASSUME ~ Leaf(w, w.root)
          PROVE  Len(Items(w, w.root)) >= 2
      <3>1. Items(w, w.root) # <<>>
        BY <1>1, <1>2, <2>2 DEF Settled, Whole, Shape, Kinds
      <3>2. Len(Items(w, w.root)) # 0
        BY <3>1, <1>2
      <3>3. PICK a \in Nat : a = Len(Items(w, w.root))
        BY <1>2
      <3>4. a # 0 /\ a # 1
        BY <3>2, <3>3, <1>3
      <3>5. a >= 2
        BY <3>4
      <3> QED BY <3>3, <3>5
    <2>3. Remaining(t, Q, w)
      BY <2>2, <1>1 DEF Remaining
    <2> QED BY <2>1, <2>3, <1>1
  <1>4. ASSUME Len(Items(w, w.root)) = 1
        PROVE  Remaining(t, Q, u) /\ u.size = k /\ u.lopped = b
    <2>1. PICK r : r = Head(Items(w, w.root))
      OBVIOUS
    <2>2. IsShortened(w, u, r) /\ ToSet(Items(w, w.root)) = {r} /\ r \in Names(w)
      <3>1. ToSet(Items(w, w.root)) \subseteq Names(w)
        BY <1>2 DEF Linked
      <3> QED BY <3>1, <1>2, <1>4, <2>1, ShortenIs
    <2>3. /\ u.root = r /\ u.height = w.height - 1 /\ u.size = w.size /\ u.tied = w.tied /\ u.lopped = w.lopped
          /\ u.skewed = w.skewed /\ \A n \in Names(w) : Bound(u, n) = Bound(w, n)
      BY <2>2 DEF IsShortened
    <2>4. CASE IsData(r)
      <3>1. /\ u \in Trees /\ Linked(u) /\ Fits(u, {}) /\ IsData(u.root) /\ Items(u, u.root) = <<>>
            /\ (~ w.tied => {o \in B : IsData(o)} = {r})
        BY <1>1, <2>2, <2>4, ShortenData
      <3>2. Remaining(t, Q, u)
        BY <3>1, <1>1, <2>3 DEF Remaining
      <3> QED BY <3>2, <1>1, <2>3
    <2>5. CASE ~ IsData(r)
      <3>1. B \cap Strays(w) = {}
        BY <1>1, <1>4
      <3>2. PICK C, ly, e : C = B \ {w.root} /\ ly = Lower(lw, B, w.root) /\ e = c - 1
        OBVIOUS
      <3>3. Settled(u, C, ly, e) /\ (~ w.tied => Len(Items(u, r)) >= 2)
        <4>1. Settled(w, B, lw, c) /\ c \in Int
          BY <1>1
        <4>2. Settled(u, B \ {w.root}, Lower(lw, B, w.root), c - 1) /\ (~ w.tied => Len(Items(u, r)) >= 2)
          BY <4>1, <2>2, <2>5, <3>1, ShortenInner
        <4> QED BY <4>2, <3>2
      <3>4. e \in Int /\ (~ u.skewed => e = u.height)
        BY <1>1, <1>2, <2>3, <3>2
      <3>5. Q = {o \in C : IsData(o)}
        BY <1>1, <1>2, <3>2
      <3>6. \A o \in Q : Bound(u, o) = Bound(t, o)
        BY <1>1, <1>2, <2>3
      <3>7. Remaining(t, Q, u)
        BY <3>3, <3>4, <3>5, <3>6, <2>3 DEF Remaining
      <3> QED BY <3>7, <1>1, <2>3
    <2> QED BY <2>4, <2>5
  <1> QED BY <1>3, <1>4

-----------------------------------------------------------------------------
\* Tree u is t without what was below one entry that looks like o.
Erased(t, A, o, u) ==
  \E n \in A : \E x \in ToSet(Items(t, n)) :
    /\ ~ IsData(n) /\ LeafID(x) = o /\ u.size = t.size - 1 /\ u.lopped = (t.lopped \/ ~ Leaf(t, n))
    /\ Remaining(t, {y \in A \ Desc(t, x) : IsData(y)}, u)

\* The tree a deletion may start from.
Ready(t, A, lv) ==
  /\ Settled(t, A, lv, t.height) /\ ~ t.twin /\ ~ t.tied /\ ~ t.skewed
  /\ ~ Leaf(t, t.root) => Len(Items(t, t.root)) >= 2

\* The first entry that looks like o.
LEMMA FirstEntry ==
  ASSUME NEW s \in Seq(Int), NEW o, \E x \in ToSet(s) : LeafID(x) = o,
         NEW i, i = Min({j \in DOMAIN s : LeafID(s[j]) = o})
  PROVE  i \in 1..Len(s) /\ LeafID(s[i]) = o
  <1>1. Len(s) \in Nat /\ DOMAIN s = 1..Len(s) /\ ToSet(s) = {s[j] : j \in 1..Len(s)}
    BY SeqIs
  <1>2. PICK H : H = {j \in 1..Len(s) : LeafID(s[j]) = o}
    OBVIOUS
  <1>3. H # {} /\ H \subseteq 1..Len(s)
    BY <1>1, <1>2
  <1>4. IsFiniteSet(1..Len(s)) /\ 1..Len(s) \subseteq Int
    <2>1. PICK m \in Nat : m = Len(s)
      BY <1>1
    <2>2. IsFiniteSet(1..m) /\ 1..m \subseteq Int
      BY FS_Interval
    <2> QED BY <2>1, <2>2
  <1>5. IsFiniteSet(H)
    BY <1>3, <1>4, FS_Subset
  <1>6. i = Min(H)
    BY <1>1, <1>2
  <1>7. i \in H
    BY <1>3, <1>4, <1>5, <1>6, MinIs
  <1> QED BY <1>2, <1>7

LEMMA RemovedIs ==
  ASSUME NEW t, NEW A, NEW lv, Ready(t, A, lv), NEW o, NEW f, f.node \in A, ~ IsData(f.node), f.level = lv[f.node],
         \E x \in ToSet(Items(t, f.node)) : LeafID(x) = o, NEW u, u = ShortenTree(Removed(t, o, f))
  PROVE  Erased(t, A, o, u)
  <1>1. PICK n : n = f.node
    OBVIOUS
  <1>2. PICK s : s = Items(t, n)
    OBVIOUS
  <1>3. /\ Settled(t, A, lv, t.height) /\ ~ t.twin /\ ~ t.tied /\ ~ t.skewed
        /\ ~ Leaf(t, t.root) => Len(Items(t, t.root)) >= 2
    BY DEF Ready
  <1>4. t \in Trees /\ n \in A /\ n \in Names(t) /\ ~ IsData(n) /\ f.level = lv[n]
    BY <1>1, <1>3 DEF Settled, Whole, Shape, Levels
  <1>5. s \in Seq(Int) /\ t.size \in Int /\ t.lopped \in BOOLEAN /\ Leaf(t, n) \in BOOLEAN /\ \E x \in ToSet(s) : LeafID(x) = o
    BY <1>1, <1>2, <1>4, NodeIs, TreeIs DEF Leaf
  <1>6. PICK i : i = Min({j \in DOMAIN s : LeafID(s[j]) = o})
    OBVIOUS
  <1>7. i \in 1..Len(s) /\ LeafID(s[i]) = o
    BY <1>5, <1>6, FirstEntry
  <1>8. PICK x : x = s[i]
    OBVIOUS
  <1>9. x \in ToSet(s) /\ LeafID(x) = o
    <2>1. ToSet(s) = {s[j] : j \in 1..Len(s)}
      BY <1>5, SeqIs
    <2> QED BY <2>1, <1>7, <1>8
  <1>10. PICK w : w = SetItems(t, n, SwapOut(s, i))
    OBVIOUS
  <1>11. PICK Q : Q = {y \in A \ Desc(t, x) : IsData(y)}
    OBVIOUS
  <1>12. PICK v : v = CondenseTree(w, n, lv[n])
    OBVIOUS
  <1>13. PICK B, lw, c : Rested(t, Q, v, B, lw, c)
    <2>1. w = SetItems(t, n, SwapOut(Items(t, n), i)) /\ x = Items(t, n)[i] /\ i \in 1..Len(Items(t, n))
      BY <1>2, <1>7, <1>8, <1>10
    <2>2. \E B, lw, c : Rested(t, Q, CondenseTree(w, n, lv[n]), B, lw, c)
      BY <2>1, <1>3, <1>4, <1>11, CondensedIs
    <2> QED BY <2>2, <1>12
  <1>14. PICK k, b : k = t.size - 1 /\ b = (t.lopped \/ ~ Leaf(t, n))
    OBVIOUS
  <1>15. k \in Int /\ b \in BOOLEAN
    BY <1>5, <1>14
  <1>16. Removed(t, o, f) = Stamp(v, k, b)
    BY <1>1, <1>2, <1>4, <1>6, <1>10, <1>12, <1>14 DEF Removed, Stamp, Leaf
  <1>17. Remaining(t, Q, u) /\ u.size = k /\ u.lopped = b
    <2>1. PICK y : y = Stamp(v, k, b)
      OBVIOUS
    <2>2. u = ShortenTree(y)
      BY <2>1, <1>16
    <2> QED BY <2>1, <2>2, <1>13, <1>15, ShortenRemains
  <1> QED BY <1>2, <1>4, <1>9, <1>11, <1>14, <1>17 DEF Erased

\* A deletion erases one entry that looks like o, or finds nothing and changes nothing.
LEMMA DeletedIs ==
  ASSUME NEW t, NEW A, NEW lv, Ready(t, A, lv), NEW o, IsData(o), NEW b \in BoxSet, b = map[o].box,
         o \in A => b = Bound(t, o), Overlaps(b, b), NEW u, u = Deleted(t, o)
  PROVE  (u = t /\ o \notin A) \/ Erased(t, A, o, u)
  <1>1. PICK f : f = FindLeaf(t, o)
    OBVIOUS
  <1>2. /\ Settled(t, A, lv, t.height) /\ ~ t.twin /\ ~ t.tied
    BY DEF Ready
  <1>3. /\ t \in Trees /\ Linked(t) /\ Shape(t, A, lv, {t.root}, t.height) /\ Full(t, A, {t.root})
        /\ t.root \in A /\ lv[t.root] = 1 /\ lv \in [A -> Nat]
    BY <1>2 DEF Settled, Whole, Shape, Levels
  <1>4. Desc(t, t.root) = A
    BY <1>2, <1>3, DescRoot
  <1>5. Finds(t, A, lv, o, t.root, f) /\ (o \in A => f # NotFound)
    BY <1>1, <1>2, <1>4, FindLeafIs
  <1>6. CASE f = NotFound
    BY <1>1, <1>5, <1>6 DEF Deleted, DeletedAt
  <1>7. CASE f # NotFound
    <2>1. /\ f.node \in A /\ ~ IsData(f.node) /\ f.level = lv[f.node] - lv[t.root] + 1
          /\ \E x \in ToSet(Items(t, f.node)) : LeafID(x) = o
      BY <1>5, <1>7 DEF Finds
    <2>2. f.level = lv[f.node]
      BY <2>1, <1>3
    <2>3. u = ShortenTree(Removed(t, o, f))
      BY <1>1, <1>7 DEF Deleted, DeletedAt
    <2> QED BY <2>1, <2>2, <2>3, RemovedIs
  <1> QED BY <1>6, <1>7
=============================================================================
