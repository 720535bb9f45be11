------------------------- MODULE SpimiInvert_proofs -------------------------
(***************************************************************************)
(* Theorems about SpimiInvert, for every input, every limit of the postings *)
(* in memory and every interleaving of the goroutines: the merged index is in *)
(* ascending term order, the merge loses and repeats no posting, and without *)
(* an early flush the merged index and its field lengths are exactly those of *)
(* the documents.                                                          *)
(*                                                                         *)
(* The properties are not inductive by themselves.  IInv adds what the merge *)
(* relies on: a stream is its buffer read through the dictionary (Streaming), *)
(* a segment is in ascending term order with the lengths of one buffer     *)
(* (Segmenting), the queue has one entry of a segment at most (Queueing), the *)
(* list being merged and the merged index fit the phase (Merging), a length *)
(* is that of the buffer once for each of its segments (FieldLengths), and *)
(* without an early flush the segments and the finished goroutines correspond *)
(* one to one (OneSegmentEach).                                            *)
(*                                                                         *)
(* Most of the work is counting.  The postings of a document under a term are *)
(* a set of places, each operator of the model is shown to move that set one *)
(* to one (sorting, grouping, appending, popping), and cardinalities follow. *)
(***************************************************************************)
EXTENDS SpimiInvert, TLAPS, SequenceTheorems, FiniteSetTheorems, WellFoundedInduction

-----------------------------------------------------------------------------
(* Counting                                                                *)

LEMMA SameSize ==
  ASSUME NEW S, NEW T, IsFiniteSet(S), NEW f \in [S -> T],
         \A x, y \in S : f[x] = f[y] => x = y,
         \A t \in T : \E x \in S : f[x] = t
  PROVE  IsFiniteSet(T) /\ Cardinality(T) = Cardinality(S)
  <1>1. f \in Bijection(S, T)
    BY DEF Bijection, Injection, Surjection, IsInjective
  <1> QED BY <1>1, FS_Bijection DEF ExistsBijection

LEMMA Disjoint ==
  ASSUME NEW S, NEW T, IsFiniteSet(S), IsFiniteSet(T), S \cap T = {}
  PROVE  IsFiniteSet(S \cup T) /\ Cardinality(S \cup T) = Cardinality(S) + Cardinality(T)
  BY FS_Union, FS_EmptySet, FS_CardinalityType

LEMMA SmallerPart ==
  ASSUME NEW T, IsFiniteSet(T), NEW S, S \subseteq T, S # T
  PROVE  Cardinality(S) < Cardinality(T)
  BY FS_Subset, FS_CardinalityType

LEMMA UpTo ==
  ASSUME NEW n \in Nat
  PROVE  IsFiniteSet(1..n) /\ Cardinality(1..n) = n
  <1>1. 1 \in Int /\ n \in Int
    OBVIOUS
  <1>2. IsFiniteSet(1..n) /\ Cardinality(1..n) = IF 1 > n THEN 0 ELSE n - 1 + 1
    BY <1>1, FS_Interval
  <1> QED BY <1>2

LEMMA FinitePlaces ==
  ASSUME NEW S, NEW s \in Seq(S)
  PROVE  IsFiniteSet(DOMAIN s) /\ Cardinality(DOMAIN s) = Len(s)
  <1>1. DOMAIN s = 1..Len(s) /\ Len(s) \in Nat
    BY LenProperties
  <1> QED BY <1>1, UpTo

LEMMA FunctionIsSeq ==
  ASSUME NEW n \in Nat, NEW S, NEW f \in [1..n -> S]
  PROVE  f \in Seq(S) /\ Len(f) = n /\ DOMAIN f = 1..n
  <1>1. f \in Seq(S)
    BY SeqDef
  <1> QED BY <1>1, LenProperties

-----------------------------------------------------------------------------
(* Sorting                                                                 *)

\* Place i comes before place j, or is j, in the order that sorts s.
Before(s, i, j) == s[i] < s[j] \/ (s[i] = s[j] /\ i <= j)

LEMMA RankRange ==
  ASSUME NEW s \in Seq(Nat), NEW i \in DOMAIN s
  PROVE  Rank(s, i) \in DOMAIN s
  <1> DEFINE P == {j \in DOMAIN s : s[j] < s[i] \/ (s[j] = s[i] /\ j <= i)}
  <1>1. DOMAIN s = 1..Len(s) /\ Len(s) \in Nat
    BY LenProperties
  <1>2. IsFiniteSet(DOMAIN s) /\ Cardinality(DOMAIN s) = Len(s)
    BY FinitePlaces
  <1>3. i \in P
    BY <1>1
  <1>4. IsFiniteSet(P) /\ Cardinality(P) <= Len(s)
    BY <1>2, FS_Subset
  <1>5. Cardinality(P) \in Nat /\ Cardinality(P) # 0
    BY <1>3, <1>4, FS_EmptySet, FS_CardinalityType
  <1> QED BY <1>1, <1>4, <1>5 DEF Rank

LEMMA RankOrders ==
  ASSUME NEW s \in Seq(Nat), NEW i \in DOMAIN s, NEW j \in DOMAIN s,
         Before(s, i, j), i # j
  PROVE  Rank(s, i) < Rank(s, j)
  <1> DEFINE P(k) == {l \in DOMAIN s : s[l] < s[k] \/ (s[l] = s[k] /\ l <= k)}
  <1>1. DOMAIN s = 1..Len(s) /\ \A l \in DOMAIN s : s[l] \in Nat
    BY LenProperties, ElementOfSeq
  <1>2. IsFiniteSet(P(j))
    BY FinitePlaces, FS_Subset
  <1>3. P(i) \subseteq P(j)
    BY <1>1 DEF Before
  <1>4. j \in P(j) /\ j \notin P(i)
    BY <1>1 DEF Before
  <1> HIDE DEF P
  <1>5. Cardinality(P(i)) < Cardinality(P(j))
    BY <1>2, <1>3, <1>4, SmallerPart
  <1> QED BY <1>5 DEF Rank, P

LEMMA BeforeTotal ==
  ASSUME NEW s \in Seq(Nat), NEW i \in DOMAIN s, NEW j \in DOMAIN s
  PROVE  Before(s, i, j) \/ Before(s, j, i)
  BY LenProperties, ElementOfSeq DEF Before

LEMMA RankOneToOne ==
  ASSUME NEW s \in Seq(Nat), NEW i \in DOMAIN s, NEW j \in DOMAIN s,
         Rank(s, i) = Rank(s, j)
  PROVE  i = j
  <1>1. Rank(s, i) \in Nat /\ Rank(s, j) \in Nat
    BY RankRange, LenProperties
  <1> QED BY <1>1, BeforeTotal, RankOrders

LEMMA RankOnto ==
  ASSUME NEW s \in Seq(Nat)
  PROVE  \A k \in DOMAIN s : \E i \in DOMAIN s : Rank(s, i) = k
  <1> DEFINE f == [i \in DOMAIN s |-> Rank(s, i)]
  <1>1. f \in [DOMAIN s -> DOMAIN s]
    BY RankRange
  <1>2. \A x, y \in DOMAIN s : f[x] = f[y] => x = y
    BY RankOneToOne
  <1>3. PICK T : T = DOMAIN s
    OBVIOUS
  <1>4. IsFiniteSet(T)
    BY <1>3, FinitePlaces
  <1> HIDE DEF f
  <1>5. \A k \in T : \E i \in T : f[i] = k
    <2>1. f \in Injection(T, T)
      BY <1>1, <1>2, <1>3 DEF Injection, IsInjective
    <2>2. f \in Surjection(T, T)
      BY <2>1, <1>4, FS_Injection
    <2> QED BY <2>2 DEF Surjection
  <1> QED BY <1>3, <1>5 DEF f

\* The place of s that goes to place k.
Source(s, k) == CHOOSE i \in DOMAIN s : Rank(s, i) = k

LEMMA SourceOf ==
  ASSUME NEW s \in Seq(Nat), NEW k \in DOMAIN s
  PROVE  Source(s, k) \in DOMAIN s /\ Rank(s, Source(s, k)) = k
  BY RankOnto DEF Source

LEMMA AscendingType ==
  ASSUME NEW s \in Seq(Nat)
  PROVE  /\ Ascending(s) \in Seq(Nat) /\ DOMAIN Ascending(s) = DOMAIN s
         /\ \A k \in DOMAIN s : Ascending(s)[k] = s[Source(s, k)]
  <1>1. DOMAIN s = 1..Len(s) /\ Len(s) \in Nat
    BY LenProperties
  <1>2. \A k \in DOMAIN s : s[Source(s, k)] \in Nat
    BY SourceOf, ElementOfSeq, <1>1
  <1>3. Ascending(s) = [k \in 1..Len(s) |-> s[Source(s, k)]]
    BY <1>1 DEF Ascending, Source
  <1>4. Ascending(s) \in Seq(Nat)
    BY <1>1, <1>2, <1>3, FunctionIsSeq
  <1> QED BY <1>1, <1>3, <1>4

\* What Ascending returns does ascend.
LEMMA AscendingSorts ==
  ASSUME NEW s \in Seq(Nat), NEW k \in DOMAIN s, NEW l \in DOMAIN s, k <= l
  PROVE  Ascending(s)[k] <= Ascending(s)[l]
  <1> DEFINE i == Source(s, k)
             j == Source(s, l)
  <1>1. i \in DOMAIN s /\ j \in DOMAIN s /\ Rank(s, i) = k /\ Rank(s, j) = l
    BY SourceOf
  <1>2. k \in Nat /\ l \in Nat /\ s[i] \in Nat /\ s[j] \in Nat
    BY <1>1, LenProperties, ElementOfSeq
  <1>3. CASE i = j
    BY <1>2, <1>3, AscendingType
  <1>4. CASE i # j
    <2>1. ~ Before(s, j, i)
      BY <1>1, <1>2, <1>4, RankOrders
    <2> QED BY <2>1, <1>1, <1>2, BeforeTotal, AscendingType DEF Before
  <1> QED BY <1>3, <1>4

\* A sequence that ascends is sorted already.
LEMMA AscendingKeeps ==
  ASSUME NEW s \in Seq(Nat), \A k, l \in DOMAIN s : k <= l => s[k] <= s[l]
  PROVE  Ascending(s) = s
  <1>1. DOMAIN s = 1..Len(s) /\ Len(s) \in Nat /\ \A k \in DOMAIN s : s[k] \in Nat
    BY LenProperties, ElementOfSeq
  <1>2. ASSUME NEW k \in DOMAIN s
        PROVE  Rank(s, k) = k
    <2>1. {j \in DOMAIN s : s[j] < s[k] \/ (s[j] = s[k] /\ j <= k)} = 1..k
      BY <1>1
    <2>2. Cardinality(1..k) = k
      BY <1>1, UpTo
    <2> QED BY <2>1, <2>2 DEF Rank
  <1>3. \A k \in DOMAIN s : Source(s, k) = k
    BY <1>2, SourceOf
  <1>4. Ascending(s) \in Seq(Nat) /\ DOMAIN Ascending(s) = DOMAIN s
    BY AscendingType
  <1>5. \A k \in DOMAIN s : Ascending(s)[k] = s[k]
    BY <1>3, AscendingType
  <1>6. Len(Ascending(s)) = Len(s)
    BY <1>4, LenProperties
  <1> QED BY <1>1, <1>4, <1>5, <1>6, SeqEqual

LEMMA AscendingTwice ==
  ASSUME NEW s \in Seq(Nat)
  PROVE  Ascending(Ascending(s)) = Ascending(s)
  <1>1. Ascending(s) \in Seq(Nat) /\ DOMAIN Ascending(s) = DOMAIN s
    BY AscendingType
  <1>2. \A k, l \in DOMAIN Ascending(s) : k <= l => Ascending(s)[k] <= Ascending(s)[l]
    BY <1>1, AscendingSorts
  <1> QED BY <1>1, <1>2, AscendingKeeps

\* The places at which s has d.
At(s, d) == {i \in DOMAIN s : s[i] = d}

\* Sorting keeps how often a number is there.
LEMMA AscendingCounts ==
  ASSUME NEW s \in Seq(Nat), NEW d
  PROVE  /\ IsFiniteSet(At(s, d)) /\ IsFiniteSet(At(Ascending(s), d))
         /\ Cardinality(At(Ascending(s), d)) = Cardinality(At(s, d))
  <1> DEFINE f == [k \in At(Ascending(s), d) |-> Source(s, k)]
  <1>1. DOMAIN Ascending(s) = DOMAIN s /\ IsFiniteSet(DOMAIN s)
    BY AscendingType, FinitePlaces
  <1>2. IsFiniteSet(At(s, d)) /\ IsFiniteSet(At(Ascending(s), d))
    BY <1>1, FS_Subset DEF At
  <1>3. f \in [At(Ascending(s), d) -> At(s, d)]
    BY <1>1, SourceOf, AscendingType DEF At
  <1>4. \A x, y \in At(Ascending(s), d) : f[x] = f[y] => x = y
    BY <1>1, SourceOf DEF At
  <1>5. \A t \in At(s, d) : \E x \in At(Ascending(s), d) : f[x] = t
    <2> SUFFICES ASSUME NEW t \in At(s, d)
                 PROVE  \E x \in At(Ascending(s), d) : f[x] = t
      OBVIOUS
    <2>1. t \in DOMAIN s /\ s[t] = d /\ Rank(s, t) \in DOMAIN s
      BY RankRange DEF At
    <2>2. Source(s, Rank(s, t)) = t
      BY <2>1, SourceOf, RankOneToOne
    <2>3. Rank(s, t) \in At(Ascending(s), d)
      BY <2>1, <2>2, <1>1, AscendingType DEF At
    <2> QED BY <2>2, <2>3
  <1> HIDE DEF f
  <1> QED BY <1>2, <1>3, <1>4, <1>5, SameSize

\* The place of x in the sorted sequence of S.
SetRank(S, x) == Cardinality({y \in S : y <= x})

LEMMA SetRankRange ==
  ASSUME NEW S \in SUBSET Nat, IsFiniteSet(S), NEW x \in S
  PROVE  SetRank(S, x) \in 1..Cardinality(S)
  <1> DEFINE P == {y \in S : y <= x}
  <1>1. x \in P /\ P \in SUBSET S
    OBVIOUS
  <1>2. IsFiniteSet(P) /\ Cardinality(P) <= Cardinality(S)
    BY <1>1, FS_Subset
  <1>3. Cardinality(P) \in Nat /\ Cardinality(P) # 0 /\ Cardinality(S) \in Nat
    BY <1>1, <1>2, FS_EmptySet, FS_CardinalityType
  <1> QED BY <1>2, <1>3 DEF SetRank

LEMMA SetRankOrders ==
  ASSUME NEW S \in SUBSET Nat, IsFiniteSet(S), NEW x \in S, NEW y \in S, x < y
  PROVE  SetRank(S, x) < SetRank(S, y)
  <1> DEFINE P(z) == {w \in S : w <= z}
  <1>1. P(x) \subseteq P(y) /\ y \in P(y) /\ y \notin P(x)
    <2>1. x \in Nat /\ y \in Nat /\ \A w \in S : w \in Nat
      OBVIOUS
    <2>2. \A w \in S : w <= x => w <= y
      BY <2>1
    <2>3. y <= y /\ ~ (y <= x)
      BY <2>1
    <2> QED BY <2>2, <2>3
  <1>2. IsFiniteSet(P(y))
    BY FS_Subset
  <1> HIDE DEF P
  <1>3. Cardinality(P(x)) < Cardinality(P(y))
    BY <1>1, <1>2, SmallerPart
  <1> QED BY <1>3 DEF SetRank, P

LEMMA SetRankOneToOne ==
  ASSUME NEW S \in SUBSET Nat, IsFiniteSet(S), NEW x \in S, NEW y \in S,
         SetRank(S, x) = SetRank(S, y)
  PROVE  x = y
  <1>1. SetRank(S, x) \in Nat /\ SetRank(S, y) \in Nat
    BY SetRankRange, FS_CardinalityType
  <1>2. x \in Nat /\ y \in Nat
    OBVIOUS
  <1>3. ~ (x < y) /\ ~ (y < x)
    BY <1>1, SetRankOrders
  <1> QED BY <1>2, <1>3

LEMMA SetRankOnto ==
  ASSUME NEW S \in SUBSET Nat, IsFiniteSet(S)
  PROVE  \A k \in 1..Cardinality(S) : \E x \in S : SetRank(S, x) = k
  <1> DEFINE f == [x \in S |-> SetRank(S, x)]
  <1>1. f \in [S -> 1..Cardinality(S)]
    BY SetRankRange
  <1>2. \A x, y \in S : f[x] = f[y] => x = y
    BY SetRankOneToOne
  <1>3. PICK T : T = 1..Cardinality(S)
    OBVIOUS
  <1>4. IsFiniteSet(T) /\ Cardinality(S) = Cardinality(T)
    BY <1>3, FS_CardinalityType, UpTo
  <1> HIDE DEF f
  <1>5. \A k \in T : \E x \in S : f[x] = k
    <2>1. f \in Injection(S, T)
      BY <1>1, <1>2, <1>3 DEF Injection, IsInjective
    <2>2. IsFiniteSet(T)
      BY <1>4
    <2>3. Cardinality(S) = Cardinality(T)
      BY <1>4
    <2>4. f \in Surjection(S, T)
      BY <2>1, <2>2, <2>3, FS_Injection
    <2> QED BY <2>4 DEF Surjection
  <1> QED BY <1>3, <1>5 DEF f

\* What Sorted returns: every element of S once, in ascending order.
LEMMA SortedSorts ==
  ASSUME NEW S \in SUBSET Nat, IsFiniteSet(S)
  PROVE  /\ Sorted(S) \in Seq(S) /\ DOMAIN Sorted(S) = 1..Cardinality(S)
         /\ \A k \in DOMAIN Sorted(S) : Sorted(S)[k] \in S
         /\ \A x \in S : \E k \in DOMAIN Sorted(S) : Sorted(S)[k] = x
         /\ \A k, l \in DOMAIN Sorted(S) : k < l => Sorted(S)[k] < Sorted(S)[l]
  <1> DEFINE n == Cardinality(S)
  <1>1. n \in Nat
    BY FS_CardinalityType
  <1>2. ASSUME NEW k \in 1..n
        PROVE  Sorted(S)[k] \in S /\ SetRank(S, Sorted(S)[k]) = k
    <2> DEFINE x == CHOOSE x \in S : SetRank(S, x) = k
    <2>1. x \in S /\ SetRank(S, x) = k
      BY SetRankOnto
    <2>2. Sorted(S)[k] = x
      BY DEF Sorted, SetRank
    <2> QED BY <2>1, <2>2
  <1>3. Sorted(S) \in [1..n -> S]
    BY <1>2 DEF Sorted
  <1>4. Sorted(S) \in Seq(S) /\ DOMAIN Sorted(S) = 1..n
    BY <1>1, <1>3, FunctionIsSeq
  <1>5. ASSUME NEW x \in S
        PROVE  \E k \in 1..n : Sorted(S)[k] = x
    <2>1. SetRank(S, x) \in 1..n
      BY SetRankRange
    <2>2. PICK k \in 1..n : k = SetRank(S, x)
      BY <2>1
    <2>3. Sorted(S)[k] \in S /\ SetRank(S, Sorted(S)[k]) = SetRank(S, x)
      BY <2>2, <1>2
    <2>4. PICK y \in S : y = Sorted(S)[k]
      BY <2>3
    <2>5. y = x
      BY <2>3, <2>4, SetRankOneToOne
    <2> QED BY <2>4, <2>5
  <1>6. ASSUME NEW k \in 1..n, NEW l \in 1..n, k < l
        PROVE  Sorted(S)[k] < Sorted(S)[l]
    <2> DEFINE x == Sorted(S)[k]
               y == Sorted(S)[l]
    <2>1. x \in S /\ y \in S /\ SetRank(S, x) = k /\ SetRank(S, y) = l
      BY <1>2
    <2>3. x \in Nat /\ y \in Nat /\ k \in Nat /\ l \in Nat
      <3>1. k \in Nat /\ l \in Nat
        BY <1>1
      <3>2. \A z \in S : z \in Nat
        OBVIOUS
      <3> QED BY <2>1, <3>1, <3>2
    <2> HIDE DEF x, y
    <2>2. ~ (y < x) /\ x # y
      BY <2>1, <2>3, <1>6, SetRankOrders
    <2>4. x < y
      BY <2>2, <2>3
    <2> QED BY <2>4 DEF x, y
  <1> QED BY <1>2, <1>4, <1>5, <1>6

-----------------------------------------------------------------------------
(* Places in posting lists                                                 *)

AnyList == [term: Int, postings: Seq(Nat)]

LEMMA Tagged ==
  ASSUME NEW x, NEW S, IsFiniteSet(S)
  PROVE  IsFiniteSet({x} \X S) /\ Cardinality({x} \X S) = Cardinality(S)
  <1> DEFINE f == [y \in S |-> <<x, y>>]
  <1>1. f \in [S -> {x} \X S]
    OBVIOUS
  <1>2. \A y, z \in S : f[y] = f[z] => y = z
    OBVIOUS
  <1>3. \A t \in {x} \X S : \E y \in S : f[y] = t
    OBVIOUS
  <1> HIDE DEF f
  <1> QED BY <1>1, <1>2, <1>3, SameSize

LEMMA FiniteUnion ==
  ASSUME NEW S, IsFiniteSet(S), NEW f, DOMAIN f = S, \A i \in S : IsFiniteSet(f[i])
  PROVE  IsFiniteSet(UNION {f[i] : i \in S})
  <1> DEFINE T == {f[i] : i \in S}
             g == [i \in S |-> f[i]]
  <1>1. g \in Surjection(S, T)
    BY DEF Surjection
  <1>2. IsFiniteSet(T)
    BY <1>1, FS_Surjection
  <1>3. \A t \in T : IsFiniteSet(t)
    OBVIOUS
  <1> HIDE DEF T
  <1>4. IsFiniteSet(UNION T)
    BY <1>2, <1>3, FS_UNION
  <1> QED BY <1>4 DEF T

LEMMA ListParts ==
  ASSUME NEW lists \in Seq(AnyList), NEW i \in DOMAIN lists
  PROVE  lists[i] \in AnyList /\ lists[i].term \in Int /\ lists[i].postings \in Seq(Nat)
  <1>1. lists[i] \in AnyList
    BY ElementOfSeq, LenProperties
  <1> QED BY <1>1 DEF AnyList

LEMMA HitIs ==
  ASSUME NEW t, NEW d, NEW lists, NEW p
  PROVE  p \in Hits(t, d, lists) <=>
           \E i \in DOMAIN lists : \E j \in At(lists[i].postings, d) :
             p = <<i, j>> /\ lists[i].term = t
  BY DEF Hits, At

LEMMA PlacesFinite ==
  ASSUME NEW s \in Seq(Nat), NEW d
  PROVE  IsFiniteSet(At(s, d)) /\ Cardinality(At(s, d)) \in Nat
  BY AscendingCounts, FS_CardinalityType

LEMMA HitsFinite ==
  ASSUME NEW t, NEW d, NEW lists \in Seq(AnyList)
  PROVE  IsFiniteSet(Hits(t, d, lists)) /\ CountOf(t, d, lists) \in Nat
  <1> DEFINE f == [i \in DOMAIN lists |-> {i} \X At(lists[i].postings, d)]
             U == UNION {f[i] : i \in DOMAIN lists}
  <1>1. IsFiniteSet(DOMAIN lists)
    BY FinitePlaces
  <1>2. \A i \in DOMAIN lists : IsFiniteSet(f[i])
    BY ListParts, PlacesFinite, Tagged
  <1>3. Hits(t, d, lists) \subseteq U
    BY HitIs
  <1>4. IsFiniteSet(U)
    <2>1. DOMAIN f = DOMAIN lists
      OBVIOUS
    <2> HIDE DEF f
    <2> QED BY <1>1, <1>2, <2>1, FiniteUnion
  <1> HIDE DEF U
  <1> QED BY <1>3, <1>4, FS_Subset, FS_CardinalityType DEF CountOf

\* How much a list adds to the count.
Weight(t, d, list) == IF list.term = t THEN Cardinality(At(list.postings, d)) ELSE 0

LEMMA WeightType ==
  ASSUME NEW t, NEW d, NEW list \in AnyList
  PROVE  Weight(t, d, list) \in Nat
  BY PlacesFinite DEF Weight, AnyList

LEMMA CountOne ==
  ASSUME NEW t, NEW d, NEW list \in AnyList
  PROVE  CountOf(t, d, <<list>>) = Weight(t, d, list)
  <1>1. IsFiniteSet(At(list.postings, d))
    BY PlacesFinite DEF AnyList
  <1>2. CASE list.term = t
    <2>1. Hits(t, d, <<list>>) = {1} \X At(list.postings, d)
      BY <1>2, HitIs
    <2> QED BY <1>1, <1>2, <2>1, Tagged DEF CountOf, Weight
  <1>3. CASE list.term # t
    <2>1. Hits(t, d, <<list>>) = {}
      BY <1>3, HitIs
    <2> QED BY <1>3, <2>1, FS_EmptySet DEF CountOf, Weight
  <1> QED BY <1>2, <1>3

LEMMA CountAppend ==
  ASSUME NEW t, NEW d, NEW lists \in Seq(AnyList), NEW list \in AnyList
  PROVE  CountOf(t, d, Append(lists, list)) = CountOf(t, d, lists) + Weight(t, d, list)
  <1> DEFINE more == Append(lists, list)
             n == Len(lists)
             new == IF list.term = t THEN {n + 1} \X At(list.postings, d) ELSE {}
  <1>1. n \in Nat /\ DOMAIN lists = 1..n /\ DOMAIN more = 1..(n + 1)
    BY LenProperties, AppendProperties
  <1>2. more[n + 1] = list /\ \A i \in DOMAIN lists : more[i] = lists[i]
    BY AppendProperties
  <1>3. \A i \in DOMAIN more : i = n + 1 \/ i \in DOMAIN lists
    BY <1>1
  <1>4. n + 1 \in DOMAIN more /\ n + 1 \notin DOMAIN lists /\ DOMAIN lists \subseteq DOMAIN more
    BY <1>1
  <1> HIDE DEF more, n
  <1>5. Hits(t, d, more) = Hits(t, d, lists) \cup new
    <2>1. Hits(t, d, more) \subseteq Hits(t, d, lists) \cup new
      BY <1>2, <1>3, HitIs
    <2>2. Hits(t, d, lists) \subseteq Hits(t, d, more)
      BY <1>2, <1>4, HitIs
    <2>3. new \subseteq Hits(t, d, more)
      BY <1>2, <1>4, HitIs
    <2> QED BY <2>1, <2>2, <2>3
  <1>6. Hits(t, d, lists) \cap new = {}
    BY <1>4, HitIs
  <1>7. IsFiniteSet(new) /\ Cardinality(new) = Weight(t, d, list)
    BY PlacesFinite, Tagged, FS_EmptySet DEF Weight, AnyList
  <1>8. IsFiniteSet(Hits(t, d, lists))
    BY HitsFinite
  <1> HIDE DEF new
  <1>9. Cardinality(Hits(t, d, more)) = Cardinality(Hits(t, d, lists)) + Cardinality(new)
    BY <1>5, <1>6, <1>7, <1>8, Disjoint
  <1> QED BY <1>7, <1>9 DEF CountOf, more

LEMMA CountEmpty ==
  ASSUME NEW t, NEW d
  PROVE  CountOf(t, d, <<>>) = 0
  <1>1. Hits(t, d, <<>>) = {}
    BY HitIs
  <1> QED BY <1>1, FS_EmptySet DEF CountOf

LEMMA AtConcat ==
  ASSUME NEW s \in Seq(Nat), NEW r \in Seq(Nat), NEW d
  PROVE  Cardinality(At(s \o r, d)) = Cardinality(At(s, d)) + Cardinality(At(r, d))
  <1> DEFINE f == [j \in At(r, d) |-> Len(s) + j]
             T == {Len(s) + j : j \in At(r, d)}
  <1>1. /\ Len(s) \in Nat /\ Len(r) \in Nat /\ DOMAIN s = 1..Len(s) /\ DOMAIN r = 1..Len(r)
        /\ DOMAIN (s \o r) = 1..(Len(s) + Len(r))
    BY LenProperties, ConcatProperties
  <1>2. /\ \A i \in 1..Len(s) : (s \o r)[i] = s[i]
        /\ \A j \in 1..Len(r) : (s \o r)[Len(s) + j] = r[j]
    BY <1>1
  <1>3. \A i \in 1..(Len(s) + Len(r)) :
          i \in 1..Len(s) \/ \E j \in 1..Len(r) : i = Len(s) + j
    <2> SUFFICES ASSUME NEW i \in 1..(Len(s) + Len(r)), i \notin 1..Len(s)
                 PROVE  \E j \in 1..Len(r) : i = Len(s) + j
      OBVIOUS
    <2>1. i - Len(s) \in 1..Len(r) /\ i = Len(s) + (i - Len(s))
      BY <1>1
    <2> QED BY <2>1
  <1>4. \A j \in 1..Len(r) : Len(s) + j \in 1..(Len(s) + Len(r)) /\ Len(s) + j \notin 1..Len(s)
    BY <1>1
  <1>5. At(s \o r, d) = At(s, d) \cup T
    <2>1. PICK w : w = s \o r
      OBVIOUS
    <2>2. ASSUME NEW i \in At(w, d)
          PROVE  i \in At(s, d) \cup T
      <3>1. i \in DOMAIN w /\ w[i] = d
        BY DEF At
      <3>2. CASE i \in 1..Len(s)
        BY <3>1, <3>2, <2>1, <1>1, <1>2 DEF At
      <3>3. CASE i \notin 1..Len(s)
        <4>1. PICK j \in 1..Len(r) : i = Len(s) + j
          BY <3>1, <3>3, <2>1, <1>1, <1>3
        <4>2. r[j] = d
          BY <4>1, <3>1, <2>1, <1>2
        <4> QED BY <4>1, <4>2, <1>1 DEF At
      <3> QED BY <3>2, <3>3
    <2>3. At(s, d) \subseteq At(w, d)
      BY <2>1, <1>1, <1>2 DEF At
    <2>4. T \subseteq At(w, d)
      BY <2>1, <1>1, <1>2, <1>4 DEF At
    <2> QED BY <2>1, <2>2, <2>3, <2>4
  <1>6. At(s, d) \cap T = {}
    BY <1>1, <1>4 DEF At
  <1>7. IsFiniteSet(T) /\ Cardinality(T) = Cardinality(At(r, d))
    <2>1. f \in [At(r, d) -> T] /\ \A t \in T : \E j \in At(r, d) : f[j] = t
      OBVIOUS
    <2>2. \A x, y \in At(r, d) : f[x] = f[y] => x = y
      BY <1>1 DEF At
    <2> HIDE DEF f, T
    <2> QED BY <2>1, <2>2, PlacesFinite, SameSize
  <1> HIDE DEF T
  <1> QED BY <1>5, <1>6, <1>7, PlacesFinite, Disjoint

-----------------------------------------------------------------------------
(* The posting lists of a stream                                           *)

Pairs(T) == [term: T, doc: Nat]
Lists(T) == [term: T, postings: Seq(Nat)]

TermsOf(s)     == {s[i].term : i \in DOMAIN s}
PlacesOf(s, t) == {i \in DOMAIN s : s[i].term = t}

AscendingTerms(list) == \A i, j \in DOMAIN list : i < j => list[i].term < list[j].term

LEMMA PairParts ==
  ASSUME NEW T, NEW s \in Seq(Pairs(T)), NEW i \in DOMAIN s
  PROVE  s[i] = [term |-> s[i].term, doc |-> s[i].doc] /\ s[i].term \in T /\ s[i].doc \in Nat
  <1>1. s[i] \in Pairs(T)
    BY ElementOfSeq, LenProperties
  <1> QED BY <1>1 DEF Pairs

LEMMA TermsFinite ==
  ASSUME NEW T, NEW s \in Seq(Pairs(T))
  PROVE  TermsOf(s) \subseteq T /\ IsFiniteSet(TermsOf(s))
  <1> DEFINE f == [i \in DOMAIN s |-> s[i].term]
  <1>1. f \in Surjection(DOMAIN s, TermsOf(s))
    BY DEF Surjection, TermsOf
  <1>2. IsFiniteSet(DOMAIN s)
    BY FinitePlaces
  <1> HIDE DEF f
  <1>3. IsFiniteSet(TermsOf(s))
    BY <1>1, <1>2, FS_Surjection
  <1> QED BY <1>3, PairParts DEF TermsOf

LEMMA PlacesOfFinite ==
  ASSUME NEW T, NEW s \in Seq(Pairs(T)), NEW t
  PROVE  PlacesOf(s, t) \in SUBSET Nat /\ IsFiniteSet(PlacesOf(s, t))
  <1>1. DOMAIN s \subseteq Nat /\ IsFiniteSet(DOMAIN s)
    BY LenProperties, FinitePlaces
  <1> QED BY <1>1, FS_Subset DEF PlacesOf

LEMMA PostingMapIs ==
  ASSUME NEW T, NEW s \in Seq(Pairs(T))
  PROVE  /\ DOMAIN PostingMap(s) = TermsOf(s)
         /\ \A t \in TermsOf(s) :
              /\ PostingMap(s)[t] \in Seq(Nat)
              /\ DOMAIN PostingMap(s)[t] = DOMAIN Sorted(PlacesOf(s, t))
              /\ \A k \in DOMAIN Sorted(PlacesOf(s, t)) :
                   PostingMap(s)[t][k] = s[Sorted(PlacesOf(s, t))[k]].doc
  <1>1. DOMAIN PostingMap(s) = TermsOf(s)
    BY DEF PostingMap, TermsOf
  <1>2. ASSUME NEW t \in TermsOf(s)
        PROVE  /\ PostingMap(s)[t] \in Seq(Nat)
               /\ DOMAIN PostingMap(s)[t] = DOMAIN Sorted(PlacesOf(s, t))
               /\ \A k \in DOMAIN Sorted(PlacesOf(s, t)) :
                    PostingMap(s)[t][k] = s[Sorted(PlacesOf(s, t))[k]].doc
    <2> DEFINE places == Sorted(PlacesOf(s, t))
    <2>1. PostingMap(s)[t] = [k \in DOMAIN places |-> s[places[k]].doc]
      BY <1>2 DEF PostingMap, TermsOf, PlacesOf
    <2>2. PICK n \in Nat : n = Cardinality(PlacesOf(s, t))
      BY PlacesOfFinite, FS_CardinalityType
    <2>3. DOMAIN places = 1..n /\ \A k \in 1..n : places[k] \in PlacesOf(s, t)
      BY <2>2, PlacesOfFinite, SortedSorts
    <2> HIDE DEF places
    <2>4. \A k \in 1..n : s[places[k]].doc \in Nat
      BY <2>3, PairParts DEF PlacesOf
    <2>5. PostingMap(s)[t] \in [1..n -> Nat]
      BY <2>1, <2>3, <2>4
    <2>6. PostingMap(s)[t] \in Seq(Nat)
      BY <2>5, FunctionIsSeq
    <2> QED BY <2>1, <2>6 DEF places
  <1> QED BY <1>1, <1>2

LEMMA ByTermIs ==
  ASSUME NEW T \in SUBSET Nat, NEW s \in Seq(Pairs(T))
  PROVE  LET list == ByTerm(PostingMap(s))
             terms == Sorted(TermsOf(s))
         IN  /\ list \in Seq(Lists(T)) /\ DOMAIN list = DOMAIN terms
             /\ \A i \in DOMAIN terms :
                  list[i] = [term |-> terms[i], postings |-> Ascending(PostingMap(s)[terms[i]])]
             /\ AscendingTerms(list)
  <1> DEFINE list == ByTerm(PostingMap(s))
             terms == Sorted(TermsOf(s))
  <1>1. TermsOf(s) \in SUBSET Nat /\ TermsOf(s) \subseteq T /\ IsFiniteSet(TermsOf(s))
    BY TermsFinite
  <1>2. PICK n \in Nat : n = Cardinality(TermsOf(s))
    BY <1>1, FS_CardinalityType
  <1>3. /\ DOMAIN terms = 1..n /\ \A i \in 1..n : terms[i] \in TermsOf(s)
        /\ \A i, j \in 1..n : i < j => terms[i] < terms[j]
    BY <1>1, <1>2, SortedSorts
  <1>4. list = [i \in DOMAIN terms |->
                  [term |-> terms[i], postings |-> Ascending(PostingMap(s)[terms[i]])]]
    BY PostingMapIs DEF ByTerm
  <1> HIDE DEF list, terms
  <1>5. \A i \in 1..n : list[i] \in Lists(T)
    BY <1>1, <1>3, <1>4, PostingMapIs, AscendingType DEF Lists
  <1>6. list \in [1..n -> Lists(T)]
    BY <1>3, <1>4, <1>5
  <1>7. list \in Seq(Lists(T))
    BY <1>6, FunctionIsSeq
  <1>8. AscendingTerms(list)
    BY <1>3, <1>4 DEF AscendingTerms
  <1> QED BY <1>4, <1>7, <1>8 DEF list, terms

\* The loop over indices appends terms 0, 1, ..., as many as there are.
LEMMA ByIndexIs ==
  ASSUME NEW n \in Nat, NEW s \in Seq(Pairs(0..(n - 1)))
  PROVE  /\ ByIndex(PostingMap(s)) \in Seq(Lists(0..(n - 1)))
         /\ AscendingTerms(ByIndex(PostingMap(s)))
  <1> DEFINE list == ByIndex(PostingMap(s))
  <1>1. TermsOf(s) \subseteq 0..(n - 1)
    BY TermsFinite
  <1>2. IsFiniteSet(0..(n - 1)) /\ Cardinality(0..(n - 1)) = n
    BY FS_Interval
  <1>3. PICK m \in Nat : m = Cardinality(TermsOf(s))
    BY TermsFinite, FS_CardinalityType
  <1>4. m <= n
    BY <1>1, <1>2, <1>3, FS_Subset
  <1>5. list = [i \in 1..m |->
                  [term |-> i - 1,
                   postings |-> IF i - 1 \in TermsOf(s) THEN Ascending(PostingMap(s)[i - 1])
                                ELSE <<>>]]
    BY <1>3, PostingMapIs DEF ByIndex
  <1>6. \A i \in 1..m : i - 1 \in 0..(n - 1)
    BY <1>4
  <1>7. \A i \in 1..m : i - 1 \in TermsOf(s) => Ascending(PostingMap(s)[i - 1]) \in Seq(Nat)
    BY PostingMapIs, AscendingType
  <1>8. <<>> \in Seq(Nat)
    OBVIOUS
  <1> HIDE DEF list
  <1>9. \A i \in 1..m : list[i] \in Lists(0..(n - 1)) /\ list[i].term = i - 1
    BY <1>5, <1>6, <1>7, <1>8 DEF Lists
  <1>10. list \in [1..m -> Lists(0..(n - 1))]
    BY <1>5, <1>9
  <1>11. list \in Seq(Lists(0..(n - 1))) /\ DOMAIN list = 1..m
    BY <1>10, FunctionIsSeq
  <1>12. AscendingTerms(list)
    BY <1>9, <1>11 DEF AscendingTerms
  <1> QED BY <1>11, <1>12 DEF list

\* Where a stream has document d with term t.
PairsAt(s, t, d) == {k \in DOMAIN s : s[k] = [term |-> t, doc |-> d]}

LEMMA PostingMapCounts ==
  ASSUME NEW T, NEW s \in Seq(Pairs(T)), NEW t \in TermsOf(s), NEW d
  PROVE  /\ IsFiniteSet(PairsAt(s, t, d))
         /\ Cardinality(At(PostingMap(s)[t], d)) = Cardinality(PairsAt(s, t, d))
  <1> DEFINE places == Sorted(PlacesOf(s, t))
             list == PostingMap(s)[t]
             f == [k \in At(list, d) |-> places[k]]
  <1>1. PlacesOf(s, t) \in SUBSET Nat /\ IsFiniteSet(PlacesOf(s, t))
    BY PlacesOfFinite
  <1>2. PICK n \in Nat : n = Cardinality(PlacesOf(s, t))
    BY <1>1, FS_CardinalityType
  <1>3. /\ DOMAIN places = 1..n
        /\ \A k \in 1..n : places[k] \in PlacesOf(s, t)
        /\ \A x \in PlacesOf(s, t) : \E k \in 1..n : places[k] = x
        /\ \A k, l \in 1..n : k < l => places[k] < places[l]
    <2>1. /\ DOMAIN places = 1..Cardinality(PlacesOf(s, t))
          /\ \A k \in DOMAIN places : places[k] \in PlacesOf(s, t)
          /\ \A x \in PlacesOf(s, t) : \E k \in DOMAIN places : places[k] = x
          /\ \A k, l \in DOMAIN places : k < l => places[k] < places[l]
      BY <1>1, SortedSorts
    <2> HIDE DEF places
    <2> QED BY <2>1, <1>2
  <1>4. list \in Seq(Nat) /\ DOMAIN list = 1..n /\ \A k \in 1..n : list[k] = s[places[k]].doc
    BY <1>3, PostingMapIs
  <1> HIDE DEF places, list
  <1>5. \A k \in PairsAt(s, t, d) : k \in PlacesOf(s, t) /\ s[k].doc = d
    BY DEF PairsAt, PlacesOf
  <1>6. \A k \in PlacesOf(s, t) : s[k].doc = d => k \in PairsAt(s, t, d)
    BY PairParts DEF PairsAt, PlacesOf
  <1>7. f \in [At(list, d) -> PairsAt(s, t, d)]
    BY <1>3, <1>4, <1>6 DEF At
  <1>8. \A x, y \in At(list, d) : f[x] = f[y] => x = y
    <2>1. \A x, y \in 1..n : x = y \/ x < y \/ y < x
      OBVIOUS
    <2>2. \A x \in 1..n : places[x] \in Nat
      BY <1>1, <1>3
    <2>3. \A x, y \in 1..n : places[x] = places[y] => x = y
      BY <2>1, <2>2, <1>3
    <2> QED BY <2>3, <1>4 DEF At
  <1>9. \A k \in PairsAt(s, t, d) : \E x \in At(list, d) : f[x] = k
    BY <1>3, <1>4, <1>5 DEF At
  <1>10. IsFiniteSet(At(list, d))
    BY <1>4, PlacesFinite
  <1> HIDE DEF f
  <1>11. IsFiniteSet(PairsAt(s, t, d)) /\ Cardinality(PairsAt(s, t, d)) = Cardinality(At(list, d))
    BY <1>7, <1>8, <1>9, <1>10, SameSize
  <1> QED BY <1>11 DEF list

\* The last flush of a stream loses nothing and adds nothing.
LEMMA ByTermCounts ==
  ASSUME NEW T \in SUBSET Nat, NEW s \in Seq(Pairs(T)), NEW t, NEW d
  PROVE  /\ IsFiniteSet(PairsAt(s, t, d))
         /\ CountOf(t, d, ByTerm(PostingMap(s))) = Cardinality(PairsAt(s, t, d))
  <1> DEFINE list == ByTerm(PostingMap(s))
             terms == Sorted(TermsOf(s))
  <1>1. TermsOf(s) \in SUBSET Nat /\ IsFiniteSet(TermsOf(s))
    BY TermsFinite
  <1>2. /\ \A i \in DOMAIN terms : terms[i] \in TermsOf(s)
        /\ \A x \in TermsOf(s) : \E k \in DOMAIN terms : terms[k] = x
    BY <1>1, SortedSorts
  <1>3. /\ list \in Seq(Lists(T)) /\ DOMAIN list = DOMAIN terms
        /\ \A i \in DOMAIN list :
             list[i] = [term |-> terms[i], postings |-> Ascending(PostingMap(s)[terms[i]])]
        /\ AscendingTerms(list)
    BY ByTermIs
  <1> HIDE DEF list, terms
  <1>4. IsFiniteSet(PairsAt(s, t, d))
    BY FinitePlaces, FS_Subset DEF PairsAt
  <1>5. CASE t \in TermsOf(s)
    <2>1. PICK i \in DOMAIN list : terms[i] = t
      BY <1>2, <1>3, <1>5
    <2>2. \A j \in DOMAIN list : list[j].term = t => j = i
      <3>1. \A j \in DOMAIN list : j \in Nat /\ list[j].term \in Nat
        <4>1. \A j \in DOMAIN list : j \in Nat /\ list[j] \in Lists(T)
          BY <1>3, LenProperties, ElementOfSeq
        <4> QED BY <4>1 DEF Lists
      <3>2. \A j \in DOMAIN list : j < i \/ i < j \/ i = j
        BY <3>1
      <3> QED BY <3>1, <3>2, <2>1, <1>3 DEF AscendingTerms
    <2>3. list[i].term = t /\ list[i].postings = Ascending(PostingMap(s)[t])
      BY <2>1, <1>3
    <2>4. PostingMap(s)[t] \in Seq(Nat)
      BY <1>5, PostingMapIs
    <2>5. /\ IsFiniteSet(At(list[i].postings, d))
          /\ Cardinality(At(list[i].postings, d)) = Cardinality(PairsAt(s, t, d))
      BY <2>3, <2>4, <1>5, AscendingCounts, PostingMapCounts
    <2>6. Hits(t, d, list) = {i} \X At(list[i].postings, d)
      BY <2>2, <2>3, HitIs
    <2> QED BY <2>5, <2>6, <1>4, Tagged DEF CountOf, list
  <1>6. CASE t \notin TermsOf(s)
    <2>1. Hits(t, d, list) = {}
      BY <1>2, <1>3, <1>6, HitIs
    <2>2. PairsAt(s, t, d) = {}
      BY <1>6 DEF PairsAt, TermsOf
    <2> QED BY <2>1, <2>2, <1>4 DEF CountOf, list
  <1> QED BY <1>5, <1>6

-----------------------------------------------------------------------------
(* The invariant                                                           *)

\* The streams are the tokens parsed so far, with the IDs of their words; a word
\* has one ID; a goroutine that is over has parsed its whole buffer.
Streaming ==
  /\ DOMAIN stream = DOMAIN buffers /\ DOMAIN from = DOMAIN buffers
  /\ \A i, j \in DOMAIN vocab : vocab[i] = vocab[j] => i = j
  /\ \A b \in DOMAIN buffers :
       /\ Len(stream[b]) <= Len(buffers[b])
       /\ \A i \in DOMAIN stream[b] :
            /\ stream[b][i].doc = buffers[b][i].doc
            /\ vocab[stream[b][i].term + 1] = buffers[b][i].word
  /\ \A b \in finished : Parsed(b)
  /\ phase # "invert" => finished = DOMAIN buffers

\* Each segment lists its terms in ascending order, as the merge needs it, and
\* has the document lengths of one whole buffer.
Segment == [list: Seq(Lists(Nat)), lenDF: {LenDF(b) : b \in DOMAIN buffers}]

Segmenting ==
  /\ segments \in Seq(Segment)
  /\ \A s \in DOMAIN segments : AscendingTerms(segments[s].list)

\* The queue has at most one entry of each segment, at a list it has.
Queueing ==
  /\ \A e \in queue : /\ e = Entry(e.arrIndex, e.insideIndex)
                      /\ e.arrIndex \in DOMAIN segments
                      /\ e.insideIndex \in DOMAIN segments[e.arrIndex].list
  /\ \A e, f \in queue : e.arrIndex = f.arrIndex => e = f

\* What the merge has when it has not begun, has received nothing, and is over;
\* what it has appended is sorted.
Merging ==
  /\ phase # "merge" => queue = {} /\ last = NoTerm
  /\ phase = "invert" => out = <<>>
  /\ phase = "merge" /\ last.term = -1 => out = <<>>
  /\ \A i \in DOMAIN out : out[i].postings = Ascending(out[i].postings)

\* The segments that have a length of document d.
SegmentsWith(d) == {s \in DOMAIN segments : d \in DOMAIN segments[s].lenDF}

\* At the end a document has the length it has in its buffer, once for each
\* segment of that buffer.
FieldLengths ==
  IF phase # "done" THEN lenFieldInDoc = NoLengths
  ELSE /\ DOMAIN lenFieldInDoc = Docs
       /\ \A b \in DOMAIN buffers : \A d \in Docs \cap DOMAIN LenDF(b) :
            lenFieldInDoc[d] = LenDF(b)[d] * Cardinality(SegmentsWith(d))

\* The segment of a goroutine whose stream never reached maxSize.
WholeSegment(b) == [list |-> ByTerm(PostingMap(stream[b])), lenDF |-> LenDF(b)]

\* Without an early flush the segments are those of the goroutines that are over.
OneSegmentEach ==
  NoEarlyFlush =>
    /\ \A b \in DOMAIN buffers : b \notin finished => from[b] = 0
    /\ \E owner \in [DOMAIN segments -> finished] :
         /\ \A s, r \in DOMAIN segments : owner[s] = owner[r] => s = r
         /\ \A b \in finished : \E s \in DOMAIN segments : owner[s] = b
         /\ \A s \in DOMAIN segments : segments[s] = WholeSegment(owner[s])

IInv ==
  /\ TypeOK /\ Streaming /\ Segmenting /\ Queueing /\ Merging /\ FieldLengths
  /\ MergeAscends /\ MergeConserves /\ OneSegmentEach

-----------------------------------------------------------------------------
(* Inverting                                                               *)

LEMMA InputParts ==
  ASSUME TypeOK, NEW b \in DOMAIN buffers
  PROVE  /\ buffers \in Seq(Seq(Token)) /\ buffers[b] \in Seq(Token)
         /\ Len(buffers[b]) \in Nat /\ DOMAIN buffers[b] = 1..Len(buffers[b])
         /\ \A i \in DOMAIN buffers[b] : buffers[b][i].doc \in Nat /\ buffers[b][i].word \in Words
         /\ maxSize \in Nat \ {0}
  <1>1. buffers \in Seq(Seq(Token)) /\ maxSize \in Nat \ {0}
    BY SpimiInvertAssumption DEF TypeOK
  <1>2. buffers[b] \in Seq(Token)
    BY <1>1, ElementOfSeq, LenProperties
  <1>3. Len(buffers[b]) \in Nat /\ DOMAIN buffers[b] = 1..Len(buffers[b])
    BY <1>2, LenProperties
  <1>4. \A i \in DOMAIN buffers[b] : buffers[b][i] \in Token
    BY <1>2, <1>3, ElementOfSeq
  <1> QED BY <1>1, <1>2, <1>3, <1>4 DEF Token

LEMMA VocabParts ==
  ASSUME TypeOK
  PROVE  /\ Len(vocab) \in Nat /\ DOMAIN vocab = 1..Len(vocab)
         /\ TermIDs \in SUBSET Nat /\ TermIDs \in SUBSET Int
  <1>1. Len(vocab) \in Nat /\ DOMAIN vocab = 1..Len(vocab)
    BY LenProperties DEF TypeOK
  <1> QED BY <1>1 DEF TermIDs

LEMMA StreamParts ==
  ASSUME TypeOK, NEW b \in DOMAIN buffers
  PROVE  /\ Len(vocab) \in Nat /\ DOMAIN vocab = 1..Len(vocab)
         /\ TermIDs \in SUBSET Nat
         /\ stream[b] \in Seq(Pairs(TermIDs))
         /\ Len(stream[b]) \in Nat /\ DOMAIN stream[b] = 1..Len(stream[b])
         /\ from[b] \in 0..Len(stream[b])
  <1>1. Len(vocab) \in Nat /\ DOMAIN vocab = 1..Len(vocab)
    BY LenProperties DEF TypeOK
  <1>2. stream[b] \in Seq(Pairs(TermIDs)) /\ from[b] \in 0..Len(stream[b])
    BY DEF TypeOK, Pairs
  <1> QED BY <1>1, <1>2, LenProperties DEF TermIDs

\* Numbering a word keeps the IDs of the others.
LEMMA VocabStep ==
  ASSUME NEW w \in Words, vocab \in Seq(Words),
         \A i, j \in DOMAIN vocab : vocab[i] = vocab[j] => i = j,
         vocab' = IF w \in ToSet(vocab) THEN vocab ELSE Append(vocab, w)
  PROVE  /\ vocab' \in Seq(Words)
         /\ TermIDs \subseteq TermIDs'
         /\ GetID(w) \in TermIDs'
         /\ vocab'[GetID(w) + 1] = w
         /\ \A i \in DOMAIN vocab : vocab'[i] = vocab[i]
         /\ \A i, j \in DOMAIN vocab' : vocab'[i] = vocab'[j] => i = j
  <1>1. Len(vocab) \in Nat /\ DOMAIN vocab = 1..Len(vocab)
    BY LenProperties
  <1>2. CASE w \in ToSet(vocab)
    <2>1. PICK i \in DOMAIN vocab : vocab[i] = w
      BY <1>2 DEF ToSet
    <2>2. (CHOOSE j \in DOMAIN vocab : vocab[j] = w) \in DOMAIN vocab
      BY <2>1
    <2>3. vocab[CHOOSE j \in DOMAIN vocab : vocab[j] = w] = w
      BY <2>1
    <2>4. GetID(w) = (CHOOSE j \in DOMAIN vocab : vocab[j] = w) - 1
      BY <1>2 DEF GetID
    <2>5. PICK k \in 1..Len(vocab) : GetID(w) = k - 1 /\ vocab[k] = w
      BY <2>2, <2>3, <2>4, <1>1
    <2>6. GetID(w) \in TermIDs /\ GetID(w) + 1 = k
      BY <2>5, <1>1 DEF TermIDs
    <2>7. vocab' = vocab
      BY <1>2
    <2> QED BY <2>5, <2>6, <2>7 DEF TermIDs
  <1>3. CASE w \notin ToSet(vocab)
    <2>1. GetID(w) = Len(vocab)
      BY <1>3 DEF GetID, NextID
    <2>2. /\ vocab' \in Seq(Words) /\ Len(vocab') = Len(vocab) + 1
          /\ \A i \in 1..Len(vocab) : vocab'[i] = vocab[i]
          /\ vocab'[Len(vocab) + 1] = w
      BY <1>3, AppendProperties
    <2>3. DOMAIN vocab' = 1..(Len(vocab) + 1)
      BY <2>2, LenProperties
    <2>4. \A i \in DOMAIN vocab : vocab[i] # w
      BY <1>3 DEF ToSet
    <2>5. \A i \in DOMAIN vocab' : i \in DOMAIN vocab \/ i = Len(vocab) + 1
      BY <2>3, <1>1
    <2>6. TermIDs \subseteq TermIDs' /\ Len(vocab) \in TermIDs'
      BY <2>2, <1>1 DEF TermIDs
    <2> QED BY <1>1, <2>1, <2>2, <2>4, <2>5, <2>6
  <1> QED BY <1>2, <1>3

LEMMA ListsGrow ==
  ASSUME NEW T, NEW U, T \subseteq U, NEW s \in Seq(Lists(T))
  PROVE  s \in Seq(Lists(U))
  BY SeqMonotonic DEF Lists

LEMMA PairsGrow ==
  ASSUME NEW T, NEW U, T \subseteq U, NEW s \in Seq(Pairs(T))
  PROVE  s \in Seq(Pairs(U))
  BY SeqMonotonic DEF Pairs

LEMMA ParseWordKeeps ==
  ASSUME IInv, NEW b \in DOMAIN buffers, ParseWord(b)
  PROVE  IInv'
  <1> DEFINE n == Len(stream[b])
             token == buffers[b][n + 1]
             pair == [term |-> GetID(token.word), doc |-> token.doc]
  <1>1. /\ phase = "invert" /\ n # Len(buffers[b])
        /\ stream' = [stream EXCEPT ![b] = Append(@, pair)]
        /\ vocab' = IF token.word \in ToSet(vocab) THEN vocab ELSE Append(vocab, token.word)
        /\ UNCHANGED <<buffers, maxSize, from, finished, segments, phase,
                       queue, last, out, lenFieldInDoc>>
    BY DEF ParseWord, Parsed, inputVars, mergeVars
  <1>2. TypeOK /\ Streaming /\ Segmenting /\ Queueing /\ Merging /\ FieldLengths /\ OneSegmentEach
    BY DEF IInv
  <1>3. n \in Nat /\ n <= Len(buffers[b]) /\ Len(buffers[b]) \in Nat
    BY <1>2, InputParts, StreamParts DEF Streaming
  <1>4. n + 1 \in DOMAIN buffers[b] /\ token.word \in Words /\ token.doc \in Nat
    BY <1>1, <1>2, <1>3, InputParts
  <1> HIDE DEF token
  <1>5. /\ vocab' \in Seq(Words) /\ TermIDs \subseteq TermIDs'
        /\ GetID(token.word) \in TermIDs' /\ vocab'[GetID(token.word) + 1] = token.word
        /\ \A i \in DOMAIN vocab : vocab'[i] = vocab[i]
        /\ \A i, j \in DOMAIN vocab' : vocab'[i] = vocab'[j] => i = j
    <2>1. vocab \in Seq(Words) /\ \A i, j \in DOMAIN vocab : vocab[i] = vocab[j] => i = j
      BY <1>2 DEF TypeOK, Streaming
    <2> QED BY <2>1, <1>1, <1>4, VocabStep
  <1>6. pair \in Pairs(TermIDs') /\ pair.term = GetID(token.word) /\ pair.doc = token.doc
    BY <1>4, <1>5 DEF Pairs
  <1> HIDE DEF pair
  <1>7. DOMAIN stream = DOMAIN buffers
    BY <1>2 DEF Streaming
  <1>8. /\ stream'[b] \in Seq(Pairs(TermIDs')) /\ Len(stream'[b]) = n + 1
        /\ \A i \in 1..n : stream'[b][i] = stream[b][i]
        /\ stream'[b][n + 1] = pair
        /\ DOMAIN stream'[b] = 1..(n + 1)
    <2>1. stream[b] \in Seq(Pairs(TermIDs'))
      BY <1>2, <1>5, StreamParts, PairsGrow
    <2>2. stream'[b] = Append(stream[b], pair)
      BY <1>1, <1>7
    <2> QED BY <2>1, <2>2, <1>6, AppendProperties, LenProperties
  <1>9. \A c \in DOMAIN buffers : c # b => stream'[c] = stream[c]
    BY <1>1, <1>7
  <1>10. b \notin finished
    BY <1>1, <1>2 DEF Streaming, Parsed
  <1>11. TypeOK'
    <2>1. ASSUME NEW c \in DOMAIN buffers'
          PROVE  stream'[c] \in Seq([term: TermIDs', doc: Nat]) /\ from'[c] \in 0..Len(stream'[c])
      <3>1. CASE c = b
        BY <3>1, <1>1, <1>2, <1>3, <1>8, StreamParts DEF Pairs
      <3>2. CASE c # b
        <4>1. c \in DOMAIN buffers /\ stream'[c] = stream[c]
          BY <3>2, <1>1, <1>9
        <4>2. stream[c] \in Seq(Pairs(TermIDs')) /\ from[c] \in 0..Len(stream[c])
          BY <4>1, <1>2, <1>5, StreamParts, PairsGrow
        <4> QED BY <4>1, <4>2, <1>1 DEF Pairs
      <3> QED BY <3>1, <3>2
    <2>2. \A s \in DOMAIN segments : segments[s].list \in Seq(PostingList)'
      <3>1. \A s \in DOMAIN segments : segments[s].list \in Seq(Lists(TermIDs))
        BY <1>2 DEF TypeOK, PostingList, Lists
      <3>2. \A s \in DOMAIN segments : segments[s].list \in Seq(Lists(TermIDs'))
        BY <3>1, <1>5, ListsGrow
      <3> QED BY <3>2 DEF PostingList, Lists
    <2>3. queue = {} /\ last = NoTerm /\ out = <<>>
      BY <1>1, <1>2 DEF Merging
    <2>4. out' \in Seq(PostingList)' /\ last' \in PostingList' \cup {NoTerm}
      BY <2>3, <1>1, EmptySeq
    <2>5. queue' = {}
      BY <2>3, <1>1
    <2>6. /\ buffers' \in Inputs /\ maxSize' \in MaxSizes /\ finished' \subseteq DOMAIN buffers'
          /\ phase' \in {"invert", "merge", "done"}
          /\ \A d \in DOMAIN lenFieldInDoc' : lenFieldInDoc'[d] \in Nat
      BY <1>1, <1>2 DEF TypeOK
    <2> QED BY <2>1, <2>2, <2>4, <2>5, <2>6, <1>1, <1>5 DEF TypeOK
  <1>12. Streaming'
    <2>1. DOMAIN stream' = DOMAIN buffers' /\ DOMAIN from' = DOMAIN buffers'
      BY <1>1, <1>2, <1>7 DEF Streaming
    <2>2. ASSUME NEW c \in DOMAIN buffers
          PROVE  /\ Len(stream'[c]) <= Len(buffers[c])
                 /\ \A i \in DOMAIN stream'[c] :
                      /\ stream'[c][i].doc = buffers[c][i].doc
                      /\ vocab'[stream'[c][i].term + 1] = buffers[c][i].word
      <3>1. /\ Len(stream[c]) <= Len(buffers[c])
            /\ \A i \in DOMAIN stream[c] :
                 /\ stream[c][i].doc = buffers[c][i].doc
                 /\ vocab'[stream[c][i].term + 1] = buffers[c][i].word
        <4>1. \A i \in DOMAIN stream[c] : stream[c][i].term + 1 \in DOMAIN vocab
          <5>1. \A i \in DOMAIN stream[c] : stream[c][i].term \in TermIDs
            BY <1>2, StreamParts, PairParts
          <5> QED BY <5>1, <1>2, StreamParts DEF TermIDs
        <4> QED BY <4>1, <1>2, <1>5 DEF Streaming
      <3>2. CASE c # b
        BY <3>1, <3>2, <1>9
      <3>3. CASE c = b
        <4>1. \A i \in 1..(n + 1) : i \in DOMAIN stream[b] \/ i = n + 1
          BY <1>2, <1>3, StreamParts
        <4>2. \A i \in DOMAIN stream[b] : stream'[b][i] = stream[b][i]
          BY <1>2, <1>8, StreamParts
        <4>3. stream'[b][n + 1].doc = buffers[b][n + 1].doc
              /\ vocab'[stream'[b][n + 1].term + 1] = buffers[b][n + 1].word
          BY <1>5, <1>6, <1>8 DEF token
        <4>4. n + 1 <= Len(buffers[b])
          BY <1>1, <1>3
        <4>5. Len(stream'[b]) = n + 1 /\ DOMAIN stream'[b] = 1..(n + 1)
          BY <1>8
        <4>6. \A i \in DOMAIN stream[b] :
                /\ stream'[b][i].doc = buffers[b][i].doc
                /\ vocab'[stream'[b][i].term + 1] = buffers[b][i].word
          BY <3>1, <3>3, <4>2
        <4>7. \A i \in 1..(n + 1) :
                /\ stream'[b][i].doc = buffers[b][i].doc
                /\ vocab'[stream'[b][i].term + 1] = buffers[b][i].word
          BY <4>1, <4>3, <4>6
        <4> QED BY <3>3, <4>4, <4>5, <4>7
      <3> QED BY <3>2, <3>3
    <2>3. \A c \in finished' : Parsed(c)'
      BY <1>1, <1>2, <1>9, <1>10 DEF Streaming, Parsed, TypeOK
    <2>4. \A c \in DOMAIN buffers' :
            /\ Len(stream'[c]) <= Len(buffers'[c])
            /\ \A i \in DOMAIN stream'[c] :
                 /\ stream'[c][i].doc = buffers'[c][i].doc
                 /\ vocab'[stream'[c][i].term + 1] = buffers'[c][i].word
      <3>1. buffers' = buffers
        BY <1>1
      <3> QED BY <2>2, <3>1
    <2>5. \A i, j \in DOMAIN vocab' : vocab'[i] = vocab'[j] => i = j
      BY <1>5
    <2>6. phase' = "invert"
      BY <1>1
    <2> QED BY <2>1, <2>3, <2>4, <2>5, <2>6, Zenon DEF Streaming
  <1>13. Segmenting'
    BY <1>1, <1>2 DEF Segmenting, Segment, LenDF, AscendingTerms
  <1>14. Queueing' /\ Merging' /\ MergeAscends' /\ MergeConserves'
    BY <1>1, <1>2 DEF Queueing, Merging, MergeAscends, MergeConserves, NoTerm
  <1>15. FieldLengths'
    BY <1>1, <1>2 DEF FieldLengths
  <1>16. OneSegmentEach'
    <2>1. SUFFICES ASSUME NoEarlyFlush
                   PROVE  OneSegmentEach'
      BY <1>1 DEF OneSegmentEach, NoEarlyFlush
    <2>2. PICK owner \in [DOMAIN segments -> finished] :
            /\ \A s, r \in DOMAIN segments : owner[s] = owner[r] => s = r
            /\ \A c \in finished : \E s \in DOMAIN segments : owner[s] = c
            /\ \A s \in DOMAIN segments : segments[s] = WholeSegment(owner[s])
      BY <2>1, <1>2 DEF OneSegmentEach
    <2>3. \A c \in finished : WholeSegment(c)' = WholeSegment(c)
      BY <1>1, <1>2, <1>9, <1>10 DEF WholeSegment, LenDF, TypeOK
    <2>4. \A s \in DOMAIN segments : segments[s] = WholeSegment(owner[s])'
      BY <2>2, <2>3
    <2>5. \A c \in DOMAIN buffers' : c \notin finished' => from'[c] = 0
      BY <2>1, <1>1, <1>2 DEF OneSegmentEach
    <2> QED BY <2>2, <2>4, <2>5, <1>1 DEF OneSegmentEach
  <1> QED BY <1>11, <1>12, <1>13, <1>14, <1>15, <1>16 DEF IInv

\* A new segment with posting lists list, of goroutine b.
LEMMA SegmentAdded ==
  ASSUME TypeOK, Segmenting, NEW b \in DOMAIN buffers,
         NEW list \in Seq(Lists(TermIDs)), AscendingTerms(list),
         segments' = Append(segments, [list |-> list, lenDF |-> LenDF(b)]),
         UNCHANGED <<buffers, vocab>>
  PROVE  /\ Segmenting'
         /\ \A s \in DOMAIN segments' : segments'[s].list \in Seq(PostingList)'
         /\ DOMAIN segments' = 1..(Len(segments) + 1) /\ DOMAIN segments = 1..Len(segments)
         /\ Len(segments) \in Nat
         /\ \A s \in DOMAIN segments : segments'[s] = segments[s]
         /\ segments'[Len(segments) + 1] = [list |-> list, lenDF |-> LenDF(b)]
  <1> DEFINE seg == [list |-> list, lenDF |-> LenDF(b)]
             n == Len(segments)
  <1>1. TermIDs \subseteq Nat
    BY StreamParts
  <1>2. seg \in Segment
    BY <1>1, ListsGrow DEF Segment
  <1>3. segments \in Seq(Segment)
    BY DEF Segmenting
  <1>4. seg.list = list
    OBVIOUS
  <1> HIDE DEF seg
  <1>5. segments' = Append(segments, seg)
    BY DEF seg
  <1>6. /\ segments' \in Seq(Segment) /\ Len(segments') = n + 1
        /\ \A s \in 1..n : segments'[s] = segments[s]
        /\ segments'[n + 1] = seg
    BY <1>2, <1>3, <1>5, AppendProperties
  <1>7. n \in Nat /\ DOMAIN segments = 1..n /\ DOMAIN segments' = 1..(n + 1)
    BY <1>3, <1>6, LenProperties
  <1>8. \A s \in DOMAIN segments' : s \in DOMAIN segments \/ s = n + 1
    BY <1>7
  <1>9. Segment' = Segment
    BY DEF Segment, LenDF
  <1>10. \A s \in DOMAIN segments' : AscendingTerms(segments'[s].list)
    BY <1>4, <1>6, <1>7, <1>8 DEF Segmenting
  <1>11. Segmenting'
    BY <1>6, <1>9, <1>10 DEF Segmenting
  <1>12. Seq(PostingList)' = Seq(Lists(TermIDs))
    BY DEF PostingList, Lists, TermIDs
  <1>13. \A s \in DOMAIN segments : segments[s].list \in Seq(Lists(TermIDs))
    BY DEF TypeOK, PostingList, Lists
  <1>14. \A s \in DOMAIN segments' : segments'[s].list \in Seq(PostingList)'
    BY <1>4, <1>6, <1>7, <1>8, <1>12, <1>13
  <1> QED BY <1>6, <1>7, <1>11, <1>14 DEF seg

\* A flush of goroutine b that has then written k pairs of its stream.
LEMMA FlushKeeps ==
  ASSUME IInv, NEW b \in DOMAIN buffers, phase = "invert", Parsed(b),
         NEW list \in Seq(Lists(TermIDs)), AscendingTerms(list),
         segments' = Append(segments, [list |-> list, lenDF |-> LenDF(b)]),
         NEW k \in 0..Len(stream[b]), from' = [from EXCEPT ![b] = k],
         finished' = finished \/ finished' = finished \cup {b},
         UNCHANGED <<inputVars, vocab, stream, phase, mergeVars>>
  PROVE  /\ TypeOK' /\ Streaming' /\ Segmenting' /\ Queueing' /\ Merging' /\ FieldLengths'
         /\ MergeAscends' /\ MergeConserves'
  <1>1. TypeOK /\ Streaming /\ Segmenting /\ Queueing /\ Merging /\ FieldLengths
    BY DEF IInv
  <1>2. UNCHANGED <<buffers, maxSize, vocab, stream, phase, queue, last, out, lenFieldInDoc>>
    BY DEF inputVars, mergeVars
  <1>3. Segmenting' /\ \A s \in DOMAIN segments' : segments'[s].list \in Seq(PostingList)'
    BY <1>1, <1>2, SegmentAdded
  <1>4. queue = {} /\ last = NoTerm /\ out = <<>>
    BY <1>1 DEF Merging
  <1>5. DOMAIN from = DOMAIN buffers
    BY <1>1 DEF Streaming
  <1>6. TypeOK'
    <2>1. \A c \in DOMAIN buffers' :
            stream'[c] \in Seq([term: TermIDs', doc: Nat]) /\ from'[c] \in 0..Len(stream'[c])
      BY <1>1, <1>2, <1>5 DEF TypeOK, TermIDs
    <2>2. out' \in Seq(PostingList)' /\ last' \in PostingList' \cup {NoTerm} /\ queue' = {}
      BY <1>2, <1>4, EmptySeq
    <2>3. /\ buffers' \in Inputs /\ maxSize' \in MaxSizes /\ finished' \subseteq DOMAIN buffers'
          /\ vocab' \in Seq(Words) /\ phase' \in {"invert", "merge", "done"}
          /\ \A d \in DOMAIN lenFieldInDoc' : lenFieldInDoc'[d] \in Nat
      BY <1>1, <1>2 DEF TypeOK
    <2> QED BY <1>3, <2>1, <2>2, <2>3 DEF TypeOK
  <1>7. Streaming'
    BY <1>1, <1>2, <1>5 DEF Streaming, Parsed
  <1>8. Queueing' /\ Merging' /\ MergeAscends' /\ MergeConserves'
    BY <1>1, <1>2, <1>4 DEF Queueing, Merging, MergeAscends, MergeConserves, NoTerm
  <1>9. FieldLengths'
    BY <1>1, <1>2 DEF FieldLengths
  <1> QED BY <1>3, <1>6, <1>7, <1>8, <1>9

LEMMA OneSegmentStays ==
  ASSUME OneSegmentEach, UNCHANGED <<buffers, maxSize, stream, from, finished, segments>>
  PROVE  OneSegmentEach'
  <1>1. SUFFICES ASSUME NoEarlyFlush
                 PROVE  OneSegmentEach'
    BY DEF OneSegmentEach, NoEarlyFlush
  <1>2. PICK owner \in [DOMAIN segments -> finished] :
          /\ \A s, r \in DOMAIN segments : owner[s] = owner[r] => s = r
          /\ \A c \in finished : \E s \in DOMAIN segments : owner[s] = c
          /\ \A s \in DOMAIN segments : segments[s] = WholeSegment(owner[s])
    BY <1>1 DEF OneSegmentEach
  <1>3. \A c : WholeSegment(c)' = WholeSegment(c)
    BY DEF WholeSegment, LenDF
  <1>4. \A s \in DOMAIN segments : segments[s] = WholeSegment(owner[s])'
    BY <1>2, <1>3
  <1>5. \A c \in DOMAIN buffers : c \notin finished => from[c] = 0
    BY <1>1 DEF OneSegmentEach
  <1> QED BY <1>2, <1>4, <1>5 DEF OneSegmentEach

LEMMA RestIs ==
  ASSUME TypeOK, NEW b \in DOMAIN buffers
  PROVE  /\ Rest(b) \in Seq(Pairs(TermIDs)) /\ Len(Rest(b)) = RestSize(b)
         /\ RestSize(b) \in Nat
         /\ \A k \in 0..RestSize(b) : SubSeq(Rest(b), 1, k) \in Seq(Pairs(TermIDs))
         /\ from[b] = 0 => Rest(b) = stream[b]
  <1> DEFINE n == Len(stream[b])
  <1>1. /\ stream[b] \in Seq(Pairs(TermIDs)) /\ n \in Nat /\ DOMAIN stream[b] = 1..n
        /\ from[b] \in 0..n
    BY StreamParts
  <1>2. \A i \in (from[b] + 1)..n : stream[b][i] \in Pairs(TermIDs)
    BY <1>1, ElementOfSeq
  <1>3. from[b] + 1 \in Int /\ n \in Int
    BY <1>1
  <1>4. /\ Rest(b) \in Seq(Pairs(TermIDs))
        /\ Len(Rest(b)) = IF from[b] + 1 <= n THEN n - (from[b] + 1) + 1 ELSE 0
    BY <1>2, <1>3, SubSeqProperties DEF Rest
  <1>5. Len(Rest(b)) = RestSize(b) /\ RestSize(b) \in Nat
    <2>1. PICK m \in Nat : m = n
      BY <1>1
    <2>2. PICK k \in 0..m : k = from[b]
      BY <2>1, <1>1
    <2>3. (IF k + 1 <= m THEN m - (k + 1) + 1 ELSE 0) = m - k /\ m - k \in Nat
      OBVIOUS
    <2> QED BY <2>1, <2>2, <2>3, <1>4 DEF RestSize
  <1>6. ASSUME NEW k \in 0..RestSize(b)
        PROVE  SubSeq(Rest(b), 1, k) \in Seq(Pairs(TermIDs))
    <2>1. \A i \in 1..k : Rest(b)[i] \in Pairs(TermIDs)
      BY <1>4, <1>5, ElementOfSeq
    <2>2. 1 \in Int /\ k \in Int
      BY <1>5
    <2> QED BY <2>1, <2>2, SubSeqProperties
  <1>7. from[b] = 0 => Rest(b) = stream[b]
    BY <1>1, SubSeqFull DEF Rest
  <1> QED BY <1>4, <1>5, <1>6, <1>7

LEMMA FlushFullKeeps ==
  ASSUME IInv, NEW b \in DOMAIN buffers, FlushFull(b)
  PROVE  IInv'
  <1> DEFINE w == SubSeq(Rest(b), 1, maxSize)
             k == from[b] + maxSize
  <1>1. TypeOK /\ Streaming /\ OneSegmentEach
    BY DEF IInv
  <1>2. maxSize \in Nat \ {0} /\ Len(buffers[b]) \in Nat
    BY <1>1, InputParts
  <1>3. RestSize(b) \in Nat /\ maxSize <= RestSize(b) /\ Len(stream[b]) = Len(buffers[b])
    BY <1>1, RestIs DEF FlushFull, Parsed
  <1>4. w \in Seq(Pairs(TermIDs))
    BY <1>1, <1>2, <1>3, RestIs
  <1> HIDE DEF w
  <1>5. ByIndex(PostingMap(w)) \in Seq(Lists(TermIDs)) /\ AscendingTerms(ByIndex(PostingMap(w)))
    BY <1>1, <1>4, StreamParts, ByIndexIs DEF TermIDs
  <1>6. k \in 0..Len(stream[b])
    BY <1>1, <1>2, <1>3, StreamParts DEF RestSize
  <1>7. /\ TypeOK' /\ Streaming' /\ Segmenting' /\ Queueing' /\ Merging' /\ FieldLengths'
        /\ MergeAscends' /\ MergeConserves'
    BY <1>5, <1>6, FlushKeeps DEF FlushFull, w
  <1>8. ~ NoEarlyFlush
    BY <1>1, <1>2, <1>3, StreamParts DEF NoEarlyFlush, RestSize
  <1>9. OneSegmentEach'
    BY <1>8 DEF OneSegmentEach, NoEarlyFlush, FlushFull, inputVars
  <1> QED BY <1>7, <1>9 DEF IInv

LEMMA FinishKeeps ==
  ASSUME IInv, NEW b \in DOMAIN buffers, Finish(b)
  PROVE  IInv'
  <1> DEFINE list == ByTerm(PostingMap(Rest(b)))
             n == Len(segments)
  <1>1. TypeOK /\ Streaming /\ Segmenting /\ OneSegmentEach
    BY DEF IInv
  <1>2. Rest(b) \in Seq(Pairs(TermIDs)) /\ TermIDs \in SUBSET Nat
    BY <1>1, RestIs, StreamParts
  <1>3. list \in Seq(Lists(TermIDs)) /\ AscendingTerms(list)
    BY <1>2, ByTermIs
  <1>4. Len(stream[b]) \in 0..Len(stream[b])
    BY <1>1, StreamParts
  <1>5. /\ segments' = Append(segments, [list |-> list, lenDF |-> LenDF(b)])
        /\ from' = [from EXCEPT ![b] = Len(stream[b])] /\ finished' = finished \cup {b}
        /\ UNCHANGED <<buffers, maxSize, vocab, stream>>
        /\ b \notin finished
    BY DEF Finish, inputVars
  <1> HIDE DEF list
  <1>6. /\ TypeOK' /\ Streaming' /\ Segmenting' /\ Queueing' /\ Merging' /\ FieldLengths'
        /\ MergeAscends' /\ MergeConserves'
    BY <1>3, <1>4, <1>5, FlushKeeps DEF Finish
  <1>7. /\ DOMAIN segments' = 1..(n + 1) /\ DOMAIN segments = 1..n /\ n \in Nat
        /\ \A s \in DOMAIN segments : segments'[s] = segments[s]
        /\ segments'[n + 1] = [list |-> list, lenDF |-> LenDF(b)]
    BY <1>1, <1>3, <1>5, SegmentAdded
  <1>8. OneSegmentEach'
    <2>1. SUFFICES ASSUME NoEarlyFlush
                   PROVE  OneSegmentEach'
      BY <1>5 DEF OneSegmentEach, NoEarlyFlush
    <2>2. PICK owner \in [DOMAIN segments -> finished] :
            /\ \A s, r \in DOMAIN segments : owner[s] = owner[r] => s = r
            /\ \A c \in finished : \E s \in DOMAIN segments : owner[s] = c
            /\ \A s \in DOMAIN segments : segments[s] = WholeSegment(owner[s])
      BY <2>1, <1>1 DEF OneSegmentEach
    <2>3. Rest(b) = stream[b]
      BY <2>1, <1>1, <1>5, RestIs DEF OneSegmentEach
    <2>4. \A c : WholeSegment(c)' = WholeSegment(c)
      BY <1>5 DEF WholeSegment, LenDF
    <2>5. segments'[n + 1] = WholeSegment(b)'
      BY <2>3, <2>4, <1>7 DEF WholeSegment, list
    <2>6. PICK new : new = [s \in DOMAIN segments' |-> IF s = n + 1 THEN b ELSE owner[s]]
      OBVIOUS
    <2>7. \A s \in DOMAIN segments' : s = n + 1 \/ (s \in DOMAIN segments /\ s # n + 1)
      BY <1>7
    <2>8. new \in [DOMAIN segments' -> finished']
      BY <2>2, <2>7, <2>6, <1>5
    <2>9. \A s, r \in DOMAIN segments' : new[s] = new[r] => s = r
      BY <2>2, <2>7, <2>6, <1>5
    <2>10. \A c \in finished' : \E s \in DOMAIN segments' : new[s] = c
      <3>1. n + 1 \in DOMAIN segments' /\ DOMAIN segments \subseteq DOMAIN segments'
            /\ n + 1 \notin DOMAIN segments
        BY <1>7
      <3> QED BY <2>2, <3>1, <2>6, <1>5
    <2>11. \A s \in DOMAIN segments' : segments'[s] = WholeSegment(new[s])'
      BY <2>2, <2>4, <2>5, <2>7, <2>6, <1>7
    <2>12. \A c \in DOMAIN buffers' : c \notin finished' => from'[c] = 0
      BY <2>1, <1>1, <1>5 DEF OneSegmentEach, Streaming
    <2> QED BY <2>8, <2>9, <2>10, <2>11, <2>12 DEF OneSegmentEach
  <1> QED BY <1>6, <1>8 DEF IInv

-----------------------------------------------------------------------------
(* Merging                                                                 *)

LEMMA SegmentParts ==
  ASSUME TypeOK, Segmenting, NEW s \in DOMAIN segments
  PROVE  /\ segments[s] \in Segment
         /\ segments[s].list \in Seq(Lists(TermIDs))
         /\ segments[s].list \in Seq(AnyList)
         /\ Len(segments[s].list) \in Nat
         /\ DOMAIN segments[s].list = 1..Len(segments[s].list)
         /\ \A i \in DOMAIN segments[s].list :
              segments[s].list[i] \in Lists(TermIDs) /\ segments[s].list[i].term \in Nat
  <1>1. segments[s] \in Segment
    BY ElementOfSeq, LenProperties DEF Segmenting
  <1>2. segments[s].list \in Seq(Lists(TermIDs))
    BY DEF TypeOK, PostingList, Lists
  <1>3. TermIDs \in SUBSET Nat /\ TermIDs \in SUBSET Int
    BY VocabParts
  <1>4. segments[s].list \in Seq(AnyList)
    BY <1>2, <1>3, ListsGrow DEF Lists, AnyList
  <1>5. /\ Len(segments[s].list) \in Nat
        /\ DOMAIN segments[s].list = 1..Len(segments[s].list)
    BY <1>2, LenProperties
  <1>6. \A i \in DOMAIN segments[s].list : segments[s].list[i] \in Lists(TermIDs)
    BY <1>2, <1>5, ElementOfSeq
  <1> QED BY <1>1, <1>2, <1>3, <1>4, <1>5, <1>6 DEF Lists

LEMMA SegmentHitIs ==
  ASSUME NEW t, NEW d, NEW p
  PROVE  p \in SegmentHits(t, d) <=>
           \E s \in DOMAIN segments : \E i \in DOMAIN segments[s].list :
             \E j \in At(segments[s].list[i].postings, d) :
               p = <<s, <<i, j>>>> /\ segments[s].list[i].term = t
  <1>1. p \in SegmentHits(t, d) <=>
          \E s \in DOMAIN segments : \E h \in Hits(t, d, segments[s].list) : p = <<s, h>>
    BY DEF SegmentHits
  <1> QED BY <1>1, HitIs

LEMMA SegmentHitsFinite ==
  ASSUME TypeOK, Segmenting, NEW t, NEW d
  PROVE  IsFiniteSet(SegmentHits(t, d)) /\ Cardinality(SegmentHits(t, d)) \in Nat
  <1> DEFINE f == [s \in DOMAIN segments |-> {s} \X Hits(t, d, segments[s].list)]
  <1>1. IsFiniteSet(DOMAIN segments)
    BY FinitePlaces DEF Segmenting
  <1>2. \A s \in DOMAIN segments : IsFiniteSet(f[s])
    BY SegmentParts, HitsFinite, Tagged
  <1>3. SegmentHits(t, d) = UNION {f[s] : s \in DOMAIN segments}
    BY DEF SegmentHits
  <1>4. DOMAIN f = DOMAIN segments
    OBVIOUS
  <1> HIDE DEF f
  <1>5. IsFiniteSet(SegmentHits(t, d))
    BY <1>1, <1>2, <1>3, <1>4, FiniteUnion
  <1> QED BY <1>5, FS_CardinalityType

LEMMA UnreadFinite ==
  ASSUME TypeOK, Segmenting, NEW t, NEW d
  PROVE  IsFiniteSet(UnreadHits(t, d)) /\ Cardinality(UnreadHits(t, d)) \in Nat
  <1>1. UnreadHits(t, d) \subseteq SegmentHits(t, d)
    BY DEF UnreadHits
  <1> QED BY <1>1, SegmentHitsFinite, FS_Subset, FS_CardinalityType

LEMMA CountNoTerm ==
  ASSUME NEW t \in Nat, NEW d
  PROVE  CountOf(t, d, <<NoTerm>>) = 0
  <1>1. NoTerm \in AnyList /\ NoTerm.term # t
    BY EmptySeq DEF NoTerm, AnyList
  <1> QED BY <1>1, CountOne DEF Weight

LEMMA StartMergeKeeps ==
  ASSUME IInv, StartMerge
  PROVE  IInv'
  <1> DEFINE heads == {s \in DOMAIN segments : segments[s].list # <<>>}
  <1>1. /\ TypeOK /\ Streaming /\ Segmenting /\ Queueing /\ Merging /\ FieldLengths
        /\ OneSegmentEach
    BY DEF IInv
  <1>2. /\ phase = "invert" /\ finished = DOMAIN buffers /\ phase' = "merge"
        /\ queue' = {Entry(s, 1) : s \in heads}
        /\ UNCHANGED <<buffers, maxSize, vocab, stream, from, finished, segments,
                       last, out, lenFieldInDoc>>
    BY DEF StartMerge, inputVars, invertVars
  <1>3. last = NoTerm /\ out = <<>>
    BY <1>1, <1>2 DEF Merging
  <1>4. ASSUME NEW e \in queue'
        PROVE  /\ e = [term |-> segments[e.arrIndex].list[1].term,
                       arrIndex |-> e.arrIndex, insideIndex |-> 1]
               /\ e.arrIndex \in DOMAIN segments
               /\ 1 \in DOMAIN segments[e.arrIndex].list
               /\ e.term \in Nat
    <2>1. PICK s \in heads : e = Entry(s, 1)
      BY <1>2
    <2>2. 1 \in DOMAIN segments[s].list
      BY <1>1, SegmentParts, EmptySeq
    <2>3. segments[s].list[1].term \in Nat
      BY <2>2, <1>1, SegmentParts
    <2> QED BY <2>1, <2>2, <2>3 DEF Entry
  <1>5. TypeOK'
    <2>1. \A e \in queue' : e = Entry(e.arrIndex, e.insideIndex)'
      BY <1>2, <1>4 DEF Entry
    <2>2. \A s \in DOMAIN segments' : segments'[s].list \in Seq(PostingList)'
      BY <1>1, <1>2 DEF TypeOK, PostingList, TermIDs
    <2>3. out' \in Seq(PostingList)' /\ last' \in PostingList' \cup {NoTerm}
      BY <1>2, <1>3, EmptySeq
    <2>4. \A c \in DOMAIN buffers' :
            stream'[c] \in Seq([term: TermIDs', doc: Nat]) /\ from'[c] \in 0..Len(stream'[c])
      BY <1>1, <1>2 DEF TypeOK, TermIDs
    <2>5. /\ buffers' \in Inputs /\ maxSize' \in MaxSizes /\ finished' \subseteq DOMAIN buffers'
          /\ vocab' \in Seq(Words) /\ phase' \in {"invert", "merge", "done"}
          /\ \A d \in DOMAIN lenFieldInDoc' : lenFieldInDoc'[d] \in Nat
      BY <1>1, <1>2 DEF TypeOK
    <2> QED BY <2>1, <2>2, <2>3, <2>4, <2>5 DEF TypeOK
  <1>6. Streaming' /\ Segmenting'
    BY <1>1, <1>2 DEF Streaming, Parsed, Segmenting, Segment, LenDF, AscendingTerms
  <1>7. Queueing'
    <2>1. \A e \in queue' : /\ e = Entry(e.arrIndex, e.insideIndex)'
                            /\ e.arrIndex \in DOMAIN segments'
                            /\ e.insideIndex \in DOMAIN segments'[e.arrIndex].list
      BY <1>2, <1>4 DEF Entry
    <2>2. \A e, f \in queue' : e.arrIndex = f.arrIndex => e = f
      BY <1>4
    <2> QED BY <2>1, <2>2 DEF Queueing
  <1>8. Merging' /\ FieldLengths'
    BY <1>1, <1>2, <1>3 DEF Merging, FieldLengths
  <1>9. MergeAscends'
    <2>1. last'.term = -1 /\ out' = <<>>
      BY <1>2, <1>3 DEF NoTerm
    <2>2. \A e \in queue' : e.term \in Nat
      BY <1>4
    <2>3. DOMAIN out' = {}
      BY <2>1
    <2> QED BY <2>1, <2>2, <2>3 DEF MergeAscends
  <1>10. MergeConserves'
    <2> SUFFICES ASSUME NEW t \in TermIDs', NEW d \in Docs'
                 PROVE  (Cardinality(SegmentHits(t, d)) =
                           CountOf(t, d, out) + CountOf(t, d, <<last>>)
                           + Cardinality(UnreadHits(t, d)))'
      BY DEF MergeConserves
    <2>1. t \in Nat
      BY <1>1, <1>2, StreamParts DEF TermIDs, TypeOK
    <2>2. CountOf(t, d, out') = 0 /\ CountOf(t, d, <<last'>>) = 0
      BY <2>1, <1>2, <1>3, CountEmpty, CountNoTerm
    <2>3. SegmentHits(t, d)' = SegmentHits(t, d)
      BY <1>2 DEF SegmentHits
    <2>4. ASSUME NEW p \in SegmentHits(t, d)
          PROVE  \E e \in queue' : Unread(e, p)
      <3>1. PICK s \in DOMAIN segments : \E i \in DOMAIN segments[s].list :
              \E j \in At(segments[s].list[i].postings, d) : p = <<s, <<i, j>>>>
        BY SegmentHitIs
      <3>2. PICK i \in DOMAIN segments[s].list : \E j : p = <<s, <<i, j>>>>
        BY <3>1
      <3>3. i \in Nat /\ i >= 1
        BY <1>1, SegmentParts
      <3>4. segments[s].list # <<>>
        OBVIOUS
      <3>5. Entry(s, 1) \in queue' /\ Entry(s, 1).arrIndex = s /\ Entry(s, 1).insideIndex = 1
        BY <3>4, <1>2 DEF Entry
      <3>6. p[1] = s /\ p[2][1] = i
        BY <3>2
      <3> QED BY <3>3, <3>5, <3>6 DEF Unread
    <2>5. UnreadHits(t, d)' = SegmentHits(t, d)
      BY <2>3, <2>4 DEF UnreadHits, Unread
    <2>6. Cardinality(SegmentHits(t, d)) \in Nat
      BY <1>1, SegmentHitsFinite
    <2> QED BY <2>2, <2>3, <2>5, <2>6
  <1>11. OneSegmentEach'
    BY <1>1, <1>2, OneSegmentStays
  <1> QED BY <1>5, <1>6, <1>7, <1>8, <1>9, <1>10, <1>11 DEF IInv

\* What a popped entry stands for.
LEMMA EntryParts ==
  ASSUME TypeOK, Segmenting, Queueing, NEW e \in queue
  PROVE  LET s == e.arrIndex
             i == e.insideIndex
             list == segments[s].list[i]
         IN  /\ s \in DOMAIN segments /\ i \in DOMAIN segments[s].list /\ i \in Nat /\ i >= 1
             /\ list \in Lists(TermIDs) /\ list.term = e.term /\ e.term \in Nat
             /\ e = [term |-> list.term, arrIndex |-> s, insideIndex |-> i]
  <1>1. /\ e = Entry(e.arrIndex, e.insideIndex) /\ e.arrIndex \in DOMAIN segments
        /\ e.insideIndex \in DOMAIN segments[e.arrIndex].list
    BY DEF Queueing
  <1>2. /\ segments[e.arrIndex].list[e.insideIndex] \in Lists(TermIDs)
        /\ segments[e.arrIndex].list[e.insideIndex].term \in Nat
        /\ e.insideIndex \in Nat /\ e.insideIndex >= 1
    BY <1>1, SegmentParts
  <1>3. e.term = segments[e.arrIndex].list[e.insideIndex].term
    BY <1>1 DEF Entry
  <1> QED BY <1>1, <1>2, <1>3 DEF Entry

\* The queue after entry e is popped: the others, and the next list of its segment.
LEMMA NextEntry ==
  ASSUME TypeOK, Segmenting, Queueing, NEW e \in queue,
         queue' = (queue \ {e}) \cup
                    (IF HasNext(e) THEN {Entry(e.arrIndex, e.insideIndex + 1)} ELSE {})
  PROVE  /\ \A f \in queue' :
              \/ f \in queue /\ f # e /\ f.arrIndex # e.arrIndex
              \/ /\ f = Entry(e.arrIndex, e.insideIndex + 1)
                 /\ f.arrIndex = e.arrIndex /\ f.insideIndex = e.insideIndex + 1
                 /\ f.insideIndex \in DOMAIN segments[e.arrIndex].list
                 /\ f.term \in Nat /\ e.term < f.term
         /\ \A f \in queue : f # e => f \in queue'
         /\ e.insideIndex < Len(segments[e.arrIndex].list) =>
              Entry(e.arrIndex, e.insideIndex + 1) \in queue'
  <1> DEFINE s == e.arrIndex
             i == e.insideIndex
             ne == Entry(s, i + 1)
  <1>1. s \in DOMAIN segments /\ i \in DOMAIN segments[s].list /\ i \in Nat
    BY EntryParts
  <1>2. /\ ne.arrIndex = s /\ ne.insideIndex = i + 1
        /\ ne.term = segments[s].list[i + 1].term
    BY DEF Entry
  <1>3. ASSUME HasNext(e)
        PROVE  /\ i + 1 \in DOMAIN segments[s].list
               /\ ne.term \in Nat /\ e.term < ne.term
    <2>1. i + 1 \in DOMAIN segments[s].list
      BY <1>1, <1>3, SegmentParts DEF HasNext
    <2>2. ne.term \in Nat
      BY <2>1, <1>1, <1>2, SegmentParts
    <2>3. i < i + 1
      BY <1>1
    <2>4. segments[s].list[i].term < segments[s].list[i + 1].term
      BY <2>1, <2>3, <1>1 DEF Segmenting, AscendingTerms
    <2> QED BY <2>1, <2>2, <2>4, <1>2, EntryParts
  <1>4. \A f \in queue : f # e => f.arrIndex # s
    BY DEF Queueing
  <1> HIDE DEF ne
  <1>5. queue' = (queue \ {e}) \cup (IF HasNext(e) THEN {ne} ELSE {})
    BY DEF ne
  <1>6. \A f \in queue' :
          \/ f \in queue /\ f # e /\ f.arrIndex # s
          \/ /\ f = ne /\ f.arrIndex = s /\ f.insideIndex = i + 1
             /\ f.insideIndex \in DOMAIN segments[s].list
             /\ f.term \in Nat /\ e.term < f.term
    BY <1>2, <1>3, <1>4, <1>5
  <1>7. HasNext(e) => ne \in queue'
    BY <1>5
  <1> QED BY <1>5, <1>6, <1>7 DEF ne, HasNext

\* The postings the queue still has to give are those of the popped list and
\* those it has to give afterwards.
LEMMA UnreadSplit ==
  ASSUME TypeOK, Segmenting, Queueing, NEW e \in queue, UNCHANGED segments,
         queue' = (queue \ {e}) \cup
                    (IF HasNext(e) THEN {Entry(e.arrIndex, e.insideIndex + 1)} ELSE {}),
         NEW t, NEW d
  PROVE  /\ Cardinality(UnreadHits(t, d)')  \in Nat
         /\ Cardinality(UnreadHits(t, d)) =
              Cardinality(UnreadHits(t, d)')
              + Weight(t, d, segments[e.arrIndex].list[e.insideIndex])
  <1> DEFINE s == e.arrIndex
             i == e.insideIndex
             list == segments[s].list[i]
             new == IF list.term = t THEN {s} \X ({i} \X At(list.postings, d)) ELSE {}
             later == UnreadHits(t, d)'
  <1>1. /\ s \in DOMAIN segments /\ i \in DOMAIN segments[s].list /\ i \in Nat
        /\ list \in Lists(TermIDs)
    BY EntryParts
  <1>2. list \in AnyList
    BY <1>1, VocabParts DEF Lists, AnyList
  <1>3. /\ \A f \in queue' :
             \/ f \in queue /\ f # e /\ f.arrIndex # s
             \/ f.arrIndex = s /\ f.insideIndex = i + 1
        /\ \A f \in queue : f # e => f \in queue'
        /\ i < Len(segments[s].list) =>
             \E f \in queue' : f.arrIndex = s /\ f.insideIndex = i + 1
    <2>1. Entry(s, i + 1).arrIndex = s /\ Entry(s, i + 1).insideIndex = i + 1
      BY DEF Entry
    <2> QED BY <2>1, NextEntry
  <1>4. later = {p \in SegmentHits(t, d) : \E f \in queue' : Unread(f, p)}
    BY DEF UnreadHits, SegmentHits, Unread
  <1>5. \A p \in new : /\ p \in SegmentHits(t, d) /\ p[1] = s /\ p[2][1] = i
    BY <1>1, SegmentHitIs
  <1>6. \A p \in SegmentHits(t, d) :
          p[1] = s /\ p[2][1] = i => p \in new
    BY SegmentHitIs
  <1>7. \A p \in SegmentHits(t, d) : p[1] = s => p[2][1] \in 1..Len(segments[s].list)
    BY <1>1, SegmentHitIs, SegmentParts
  <1>8. Len(segments[s].list) \in Nat
    BY <1>1, SegmentParts
  <1> HIDE DEF new, later, list
  <1>9. ASSUME NEW p \in UnreadHits(t, d)
        PROVE  p \in new \cup later
    <2>1. p \in SegmentHits(t, d)
      BY DEF UnreadHits
    <2>2. PICK f \in queue : Unread(f, p)
      BY DEF UnreadHits
    <2>3. CASE f # e
      BY <2>1, <2>2, <2>3, <1>3, <1>4
    <2>4. CASE f = e
      <3>1. p[1] = s /\ p[2][1] >= i /\ p[2][1] \in 1..Len(segments[s].list)
        BY <2>1, <2>2, <2>4, <1>7 DEF Unread
      <3>2. CASE p[2][1] = i
        BY <2>1, <3>1, <3>2, <1>6
      <3>3. CASE p[2][1] # i
        <4>1. p[2][1] >= i + 1 /\ i < Len(segments[s].list)
          BY <3>1, <3>3, <1>1, <1>8
        <4>2. PICK g \in queue' : g.arrIndex = s /\ g.insideIndex = i + 1
          BY <4>1, <1>3
        <4>3. Unread(g, p)
          BY <3>1, <4>1, <4>2 DEF Unread
        <4> QED BY <2>1, <4>3, <1>4
      <3> QED BY <3>2, <3>3
    <2> QED BY <2>3, <2>4
  <1>10. ASSUME NEW p \in later
         PROVE  p \in UnreadHits(t, d) /\ p \notin new
    <2>1. p \in SegmentHits(t, d)
      BY <1>4
    <2>2. PICK f \in queue' : Unread(f, p)
      BY <1>4
    <2>3. CASE f \in queue /\ f # e /\ f.arrIndex # s
      BY <2>1, <2>2, <2>3, <1>5 DEF UnreadHits, Unread
    <2>4. CASE f.arrIndex = s /\ f.insideIndex = i + 1
      <3>1. p[1] = s /\ p[2][1] >= i + 1 /\ p[2][1] \in Nat
        BY <2>1, <2>2, <2>4, <1>7, <1>8 DEF Unread
      <3>2. p[2][1] >= i /\ p[2][1] # i
        BY <3>1, <1>1
      <3>3. Unread(e, p)
        BY <3>1, <3>2 DEF Unread
      <3> QED BY <2>1, <3>2, <3>3, <1>5 DEF UnreadHits
    <2> QED BY <2>3, <2>4, <1>3
  <1>11. ASSUME NEW p \in new
         PROVE  p \in UnreadHits(t, d)
    <2>1. p[2][1] >= i
      BY <1>1, <1>5
    <2> QED BY <2>1, <1>5 DEF UnreadHits, Unread
  <1>12. UnreadHits(t, d) = later \cup new /\ later \cap new = {}
    BY <1>9, <1>10, <1>11
  <1>13. IsFiniteSet(new) /\ Cardinality(new) = Weight(t, d, list)
    <2>1. IsFiniteSet(At(list.postings, d))
      BY <1>2, PlacesFinite DEF AnyList
    <2>2. PICK places : places = {i} \X At(list.postings, d)
      OBVIOUS
    <2>3. IsFiniteSet(places) /\ Cardinality(places) = Cardinality(At(list.postings, d))
      BY <2>1, <2>2, Tagged
    <2>4. IsFiniteSet({s} \X places) /\ Cardinality({s} \X places) = Cardinality(places)
      BY <2>3, Tagged
    <2>5. new = IF list.term = t THEN {s} \X places ELSE {}
      BY <2>2 DEF new
    <2> QED BY <2>3, <2>4, <2>5, FS_EmptySet DEF Weight
  <1>14. later \subseteq SegmentHits(t, d)
    BY <1>4
  <1>15. IsFiniteSet(later)
    BY <1>14, SegmentHitsFinite, FS_Subset
  <1>16. Cardinality(UnreadHits(t, d)) = Cardinality(later) + Cardinality(new)
    BY <1>12, <1>13, <1>15, Disjoint
  <1>17. Cardinality(later) \in Nat
    BY <1>15, FS_CardinalityType
  <1> QED BY <1>13, <1>16, <1>17 DEF later, list

\* The list Merge appends has the postings of the last one, sorted.
Appended == [last EXCEPT !.postings = Ascending(@)]

LEMMA AppendedIs ==
  ASSUME TypeOK, last.term # -1
  PROVE  /\ last \in Lists(TermIDs) /\ last \in AnyList
         /\ Appended \in Lists(TermIDs) /\ Appended \in AnyList
         /\ Appended = [term |-> last.term, postings |-> Ascending(last.postings)]
         /\ \A t, d : Weight(t, d, Appended) = CountOf(t, d, <<last>>)
  <1>1. last \in Lists(TermIDs)
    BY DEF TypeOK, PostingList, Lists, NoTerm
  <1>2. TermIDs \in SUBSET Int
    BY VocabParts
  <1>3. last.postings \in Seq(Nat) /\ last.term \in TermIDs
    BY <1>1 DEF Lists
  <1>4. Ascending(last.postings) \in Seq(Nat)
    BY <1>3, AscendingType
  <1>5. Appended = [term |-> last.term, postings |-> Ascending(last.postings)]
    BY <1>1 DEF Appended, Lists
  <1>6. Appended \in Lists(TermIDs) /\ Appended \in AnyList /\ last \in AnyList
    BY <1>1, <1>2, <1>3, <1>4, <1>5 DEF Lists, AnyList
  <1>7. ASSUME NEW t, NEW d
        PROVE  Weight(t, d, Appended) = CountOf(t, d, <<last>>)
    <2>1. Weight(t, d, Appended) = Weight(t, d, last)
      BY <1>3, <1>5, AscendingCounts DEF Weight
    <2> QED BY <2>1, <1>6, CountOne
  <1> QED BY <1>1, <1>5, <1>6, <1>7

\* Merge has no list without a term but the one it starts with.
LEMMA LastIs ==
  ASSUME TypeOK, last.term = -1
  PROVE  last = NoTerm
  <1>1. TermIDs \in SUBSET Nat
    BY VocabParts
  <1>2. last \in PostingList => last.term \in Nat
    BY <1>1 DEF PostingList
  <1> QED BY <1>2 DEF TypeOK

LEMMA OutParts ==
  ASSUME TypeOK
  PROVE  /\ out \in Seq(Lists(TermIDs)) /\ out \in Seq(AnyList)
         /\ last.term # -1 => last.term \in Nat
         /\ \A i \in DOMAIN out : out[i].term \in Nat /\ out[i].postings \in Seq(Nat)
         /\ Len(out) \in Nat /\ DOMAIN out = 1..Len(out)
  <1>1. out \in Seq(Lists(TermIDs))
    BY DEF TypeOK, PostingList, Lists
  <1>2. TermIDs \in SUBSET Nat /\ TermIDs \in SUBSET Int
    BY VocabParts
  <1>3. out \in Seq(AnyList)
    BY <1>1, <1>2, ListsGrow DEF Lists, AnyList
  <1>4. last.term # -1 => last.term \in Nat
    BY <1>2, AppendedIs DEF Lists
  <1>5. Len(out) \in Nat /\ DOMAIN out = 1..Len(out)
    BY <1>1, LenProperties
  <1>6. \A i \in DOMAIN out : out[i] \in Lists(TermIDs)
    BY <1>1, <1>5, ElementOfSeq
  <1> QED BY <1>1, <1>2, <1>3, <1>4, <1>5, <1>6 DEF Lists

\* Appending the last list moves its postings to the merged index.
LEMMA AppendedCounts ==
  ASSUME TypeOK, last.term # -1, NEW t \in TermIDs, NEW d
  PROVE  /\ Append(out, Appended) \in Seq(Lists(TermIDs))
         /\ CountOf(t, d, Append(out, Appended)) =
              CountOf(t, d, out) + CountOf(t, d, <<last>>)
  <1>1. out \in Seq(Lists(TermIDs)) /\ out \in Seq(AnyList)
    BY OutParts
  <1>2. Appended \in Lists(TermIDs) /\ Appended \in AnyList
    BY AppendedIs
  <1>3. Append(out, Appended) \in Seq(Lists(TermIDs))
    BY <1>1, <1>2, AppendProperties
  <1>4. CountOf(t, d, Append(out, Appended)) = CountOf(t, d, out) + Weight(t, d, Appended)
    BY <1>1, <1>2, CountAppend
  <1> QED BY <1>3, <1>4, AppendedIs

\* What Merge receives is added to what it has.
LEMMA ReceiveCounts ==
  ASSUME TypeOK, NEW list \in Lists(TermIDs), Receive(list), NEW t \in TermIDs, NEW d
  PROVE  /\ CountOf(t, d, out') + CountOf(t, d, <<last'>>) =
              CountOf(t, d, out) + CountOf(t, d, <<last>>) + Weight(t, d, list)
         /\ CountOf(t, d, out') \in Nat /\ CountOf(t, d, <<last'>>) \in Nat
  <1>1. TermIDs \in SUBSET Nat /\ TermIDs \in SUBSET Int
    BY VocabParts
  <1>2. list \in AnyList /\ list.term \in Nat /\ list.postings \in Seq(Nat)
    BY <1>1 DEF Lists, AnyList
  <1>3. CountOf(t, d, out) \in Nat
    BY OutParts, HitsFinite
  <1>4. Weight(t, d, list) \in Nat
    BY <1>2, WeightType
  <1>5. CASE list.term = last.term
    <2>1. last.term # -1
      BY <1>2, <1>5
    <2>2. last \in AnyList /\ last.postings \in Seq(Nat)
      BY <2>1, AppendedIs DEF AnyList
    <2>3. last' = [last EXCEPT !.postings = @ \o list.postings] /\ out' = out
      BY <1>5 DEF Receive
    <2>4. last' = [term |-> last.term, postings |-> last.postings \o list.postings]
      BY <2>2, <2>3 DEF AnyList
    <2>5. last.postings \o list.postings \in Seq(Nat)
      BY <1>2, <2>2, ConcatProperties
    <2>6. last' \in AnyList /\ last'.term = last.term
          /\ last'.postings = last.postings \o list.postings
      BY <2>2, <2>4, <2>5 DEF AnyList
    <2>7. Cardinality(At(last.postings \o list.postings, d)) =
            Cardinality(At(last.postings, d)) + Cardinality(At(list.postings, d))
      BY <1>2, <2>2, AtConcat
    <2>8. Weight(t, d, last') = Weight(t, d, last) + Weight(t, d, list)
      BY <2>6, <2>7, <1>5 DEF Weight
    <2>9. Weight(t, d, last) \in Nat
      BY <2>2, WeightType
    <2>10. CountOf(t, d, <<last'>>) = Weight(t, d, last')
           /\ CountOf(t, d, <<last>>) = Weight(t, d, last)
      BY <2>2, <2>6, CountOne
    <2> QED BY <2>3, <2>8, <2>9, <2>10, <1>3, <1>4
  <1>6. CASE list.term # last.term
    <2>1. last' = list
          /\ out' = IF last.term = -1 THEN out ELSE Append(out, Appended)
      BY <1>6 DEF Receive, Appended
    <2>2. CountOf(t, d, <<last'>>) = Weight(t, d, list)
      BY <2>1, <1>2, CountOne
    <2>3. CASE last.term = -1
      <3>1. last = NoTerm
        BY <2>3, <1>1 DEF TypeOK, PostingList
      <3>2. CountOf(t, d, <<last>>) = 0
        BY <3>1, <1>1, CountNoTerm
      <3> QED BY <2>1, <2>2, <2>3, <3>2, <1>3, <1>4
    <2>4. CASE last.term # -1
      <3>1. CountOf(t, d, out') = CountOf(t, d, out) + CountOf(t, d, <<last>>)
        BY <2>1, <2>4, AppendedCounts
      <3>2. CountOf(t, d, <<last>>) \in Nat
        BY <2>4, AppendedIs, CountOne, WeightType
      <3> QED BY <2>2, <3>1, <3>2, <1>3, <1>4
    <2> QED BY <2>3, <2>4
  <1> QED BY <1>5, <1>6

LEMMA ReceiveType ==
  ASSUME TypeOK, NEW list \in Lists(TermIDs), Receive(list)
  PROVE  last' \in Lists(TermIDs) /\ out' \in Seq(Lists(TermIDs)) /\ last'.term = list.term
  <1>1. list.postings \in Seq(Nat) /\ list.term # -1
    BY VocabParts DEF Lists
  <1>2. CASE list.term = last.term
    <2>1. last \in Lists(TermIDs) /\ last.postings \in Seq(Nat)
      BY <1>1, <1>2, AppendedIs DEF Lists
    <2>2. last.postings \o list.postings \in Seq(Nat)
      BY <1>1, <2>1, ConcatProperties
    <2>3. last' = [term |-> last.term, postings |-> last.postings \o list.postings] /\ out' = out
      BY <2>1, <1>2 DEF Receive, Lists
    <2> QED BY <2>1, <2>2, <2>3, <1>2, OutParts DEF Lists
  <1>3. CASE list.term # last.term
    <2>1. last' = list
          /\ out' = IF last.term = -1 THEN out ELSE Append(out, Appended)
      BY <1>3 DEF Receive, Appended
    <2>2. last.term # -1 => Append(out, Appended) \in Seq(Lists(TermIDs))
      BY OutParts, AppendedIs, AppendProperties
    <2> QED BY <2>1, <2>2, OutParts
  <1> QED BY <1>2, <1>3

-----------------------------------------------------------------------------
(* Lengths                                                                 *)

\* A set of sets of finite sets has a smallest one.
LEMMA SmallestSet ==
  ASSUME NEW F, F # {}, \A T \in F : IsFiniteSet(T)
  PROVE  \E T \in F : \A U \in F : ~ (U \subseteq T /\ U # T)
  <1> DEFINE S == UNION F
  <1>1. F \subseteq FiniteSubsetsOf(S)
    BY DEF FiniteSubsetsOf
  <1>2. IsWellFoundedOn(StrictSubsetOrdering(S), FiniteSubsetsOf(S))
    BY FS_StrictSubsetOrderingWellFounded
  <1>3. PICK T \in F : \A U \in F : ~ (<<U, T>> \in StrictSubsetOrdering(S))
    BY <1>1, <1>2, WFMin
  <1>4. \A U \in F : U \in SUBSET S
    OBVIOUS
  <1> HIDE DEF S
  <1> QED BY <1>3, <1>4 DEF StrictSubsetOrdering

SumStep(S, d, h) ==
  [T \in SUBSET S |->
     IF T = {} THEN 0
     ELSE LengthIn(CHOOSE x \in T : TRUE, d) + h[T \ {CHOOSE x \in T : TRUE}]]

\* The sum of the lengths of d in the segments of S, as the fold computes it.
Total(S, d) == (CHOOSE h : h = SumStep(S, d, h))[S]

LEMMA TotalIs ==
  ASSUME NEW d \in Docs
  PROVE  MergeFieldLengths[d] = Total(DOMAIN segments, d)
  BY DEF MergeFieldLengths, MapThenSumSet, MapThenFoldSet, SumStep, Total

\* When document d has length n in the segments of W and none in the others, the
\* lengths add up to n times the size of W.
LEMMA SumCounts ==
  ASSUME NEW S, IsFiniteSet(S), NEW d, NEW n \in Nat, NEW W \in SUBSET S,
         \A s \in S : LengthIn(s, d) = IF s \in W THEN n ELSE 0
  PROVE  Total(S, d) = n * Cardinality(W)
  <1> DEFINE Sum(T) == n * Cardinality(W \cap T)
             g == [T \in SUBSET S |-> Sum(T)]
             h == CHOOSE h : h = SumStep(S, d, h)
             Some(T) == CHOOSE x \in T : TRUE
  <1>1. \A T \in SUBSET S : IsFiniteSet(T) /\ IsFiniteSet(W \cap T) /\ Cardinality(W \cap T) \in Nat
    BY FS_Subset, FS_CardinalityType
  <1>2. Sum({}) = 0
    <2>1. Cardinality(W \cap {}) = 0
      BY FS_EmptySet
    <2> QED BY <2>1
  <1>3. ASSUME NEW T \in SUBSET S, T # {}
        PROVE  Some(T) \in T /\ Sum(T) = LengthIn(Some(T), d) + Sum(T \ {Some(T)})
    <2>1. PICK x \in T : x = Some(T)
      BY <1>3
    <2>2. PICK k \in Nat : k = Cardinality(W \cap (T \ {x}))
      BY <1>1
    <2>3. CASE x \in W
      <3>1. W \cap T = (W \cap (T \ {x})) \cup {x} /\ x \notin W \cap (T \ {x})
        BY <2>3
      <3>2. IsFiniteSet(W \cap (T \ {x}))
        BY <1>1
      <3>3. Cardinality(W \cap T) = k + 1
        BY <2>2, <3>1, <3>2, FS_AddElement
      <3>4. LengthIn(x, d) = n
        BY <2>3
      <3>5. n * (k + 1) = n + n * k
        OBVIOUS
      <3> QED BY <2>1, <2>2, <3>3, <3>4, <3>5
    <2>4. CASE x \notin W
      <3>1. W \cap T = W \cap (T \ {x})
        BY <2>4
      <3>2. LengthIn(x, d) = 0
        BY <2>4
      <3>3. n * k = 0 + n * k
        OBVIOUS
      <3>4. Cardinality(W \cap T) = k
        BY <2>2, <3>1
      <3> QED BY <2>1, <2>2, <3>2, <3>3, <3>4
    <2> QED BY <2>3, <2>4
  <1> HIDE DEF Sum
  <1>4. g = SumStep(S, d, g)
    <2>1. \A T \in SUBSET S : g[T] = Sum(T)
      OBVIOUS
    <2>2. \A T \in SUBSET S : T \ {Some(T)} \in SUBSET S
      OBVIOUS
    <2>3. \A T \in SUBSET S :
            Sum(T) = IF T = {} THEN 0 ELSE LengthIn(Some(T), d) + g[T \ {Some(T)}]
      BY <2>1, <2>2, <1>2, <1>3
    <2> HIDE DEF Some
    <2>4. SumStep(S, d, g) = [T \in SUBSET S |->
            IF T = {} THEN 0 ELSE LengthIn(Some(T), d) + g[T \ {Some(T)}]]
      BY DEF SumStep, Some
    <2> QED BY <2>3, <2>4
  <1> HIDE DEF g
  <1>5. h = SumStep(S, d, h)
    BY <1>4
  <1> HIDE DEF h
  <1>6. \A T \in SUBSET S :
          h[T] = IF T = {} THEN 0 ELSE LengthIn(Some(T), d) + h[T \ {Some(T)}]
    BY <1>5 DEF SumStep
  <1> HIDE DEF Some
  <1>7. h[S] = Sum(S)
    <2> DEFINE F == {T \in SUBSET S : h[T] # Sum(T)}
    <2>1. SUFFICES ASSUME h[S] # Sum(S)
                   PROVE  FALSE
      OBVIOUS
    <2>2. F # {} /\ \A T \in F : IsFiniteSet(T)
      BY <2>1, <1>1
    <2>3. PICK T \in F : \A U \in F : ~ (U \subseteq T /\ U # T)
      <3> HIDE DEF F
      <3> QED BY <2>2, SmallestSet
    <2>4. T # {}
      BY <1>2, <1>6
    <2>5. Some(T) \in T
      BY <2>4, <1>3
    <2>6. T \ {Some(T)} \in SUBSET S /\ T \ {Some(T)} \notin F
      BY <2>3, <2>5
    <2>7. h[T] = Sum(T)
      BY <2>4, <2>6, <1>3, <1>6
    <2> QED BY <2>7
  <1>8. W \cap S = W
    OBVIOUS
  <1>9. Total(S, d) = h[S]
    BY DEF h, Total
  <1> QED BY <1>7, <1>8, <1>9 DEF Sum

\* A document is in one buffer.
LEMMA OneBuffer ==
  ASSUME TypeOK, NEW b \in DOMAIN buffers, NEW c \in DOMAIN buffers,
         NEW d, d \in DOMAIN LenDF(b), d \in DOMAIN LenDF(c)
  PROVE  b = c
  <1>1. PICK i \in DOMAIN buffers[b] : buffers[b][i].doc = d
    BY DEF LenDF
  <1>2. PICK j \in DOMAIN buffers[c] : buffers[c][j].doc = d
    BY DEF LenDF
  <1>3. buffers \in Inputs
    BY DEF TypeOK
  <1> QED BY <1>1, <1>2, <1>3, SpimiInvertAssumption

LEMMA LenDFIs ==
  ASSUME TypeOK, NEW b \in DOMAIN buffers, NEW d \in DOMAIN LenDF(b)
  PROVE  LenDF(b)[d] \in Nat
  <1>1. IsFiniteSet(DOMAIN buffers[b])
    BY InputParts, FinitePlaces
  <1>2. IsFiniteSet({i \in DOMAIN buffers[b] : buffers[b][i].doc = d})
    BY <1>1, FS_Subset
  <1> QED BY <1>2, FS_CardinalityType DEF LenDF

\* A document with a length in some segment is of the buffer of that segment.
LEMMA DocsOfBuffers ==
  ASSUME TypeOK, Segmenting, NEW d \in Docs
  PROVE  \E b \in DOMAIN buffers : d \in DOMAIN LenDF(b)
  <1>1. PICK s \in DOMAIN segments : d \in DOMAIN segments[s].lenDF
    BY DEF Docs
  <1>2. segments[s].lenDF \in {LenDF(b) : b \in DOMAIN buffers}
    BY SegmentParts DEF Segment
  <1> QED BY <1>1, <1>2

LEMMA MergedLength ==
  ASSUME TypeOK, Segmenting, NEW b \in DOMAIN buffers, NEW d \in DOMAIN LenDF(b)
  PROVE  /\ Cardinality(SegmentsWith(d)) \in Nat
         /\ Total(DOMAIN segments, d) = LenDF(b)[d] * Cardinality(SegmentsWith(d))
  <1> DEFINE n == LenDF(b)[d]
  <1>1. n \in Nat
    BY LenDFIs
  <1>2. IsFiniteSet(DOMAIN segments)
    BY FinitePlaces DEF Segmenting
  <1>3. SegmentsWith(d) \in SUBSET DOMAIN segments
    BY DEF SegmentsWith
  <1>4. ASSUME NEW s \in DOMAIN segments
        PROVE  LengthIn(s, d) = IF s \in SegmentsWith(d) THEN n ELSE 0
    <2>1. PICK c \in DOMAIN buffers : segments[s].lenDF = LenDF(c)
      BY SegmentParts DEF Segment
    <2>2. d \in DOMAIN LenDF(c) => c = b
      BY OneBuffer
    <2> QED BY <2>1, <2>2 DEF LengthIn, SegmentsWith
  <1>5. IsFiniteSet(SegmentsWith(d)) /\ Cardinality(SegmentsWith(d)) \in Nat
    BY <1>2, <1>3, FS_Subset, FS_CardinalityType
  <1> HIDE DEF n
  <1>6. Total(DOMAIN segments, d) = n * Cardinality(SegmentsWith(d))
    BY <1>1, <1>2, <1>3, <1>4, SumCounts
  <1> QED BY <1>5, <1>6 DEF n

LEMMA MergedLengths ==
  ASSUME TypeOK, Segmenting
  PROVE  /\ DOMAIN MergeFieldLengths = Docs
         /\ \A b \in DOMAIN buffers : \A d \in Docs \cap DOMAIN LenDF(b) :
              MergeFieldLengths[d] = LenDF(b)[d] * Cardinality(SegmentsWith(d))
         /\ \A d \in Docs : MergeFieldLengths[d] \in Nat
  <1>1. DOMAIN MergeFieldLengths = Docs
    BY DEF MergeFieldLengths
  <1>2. ASSUME NEW b \in DOMAIN buffers, NEW d \in Docs \cap DOMAIN LenDF(b)
        PROVE  /\ MergeFieldLengths[d] = LenDF(b)[d] * Cardinality(SegmentsWith(d))
               /\ MergeFieldLengths[d] \in Nat
    <2>1. MergeFieldLengths[d] = Total(DOMAIN segments, d)
      BY TotalIs
    <2>2. MergeFieldLengths[d] = LenDF(b)[d] * Cardinality(SegmentsWith(d))
      BY <2>1, MergedLength
    <2>3. PICK n \in Nat, k \in Nat : n = LenDF(b)[d] /\ k = Cardinality(SegmentsWith(d))
      BY LenDFIs, MergedLength
    <2>4. n * k \in Nat
      OBVIOUS
    <2> QED BY <2>2, <2>3, <2>4
  <1> QED BY <1>1, <1>2, DocsOfBuffers

-----------------------------------------------------------------------------
(* The steps of the merge                                                  *)

\* Merge sorts the postings of the list it appends.
LEMMA AppendSorted ==
  ASSUME TypeOK, Merging, last.term # -1,
         NEW i \in DOMAIN Append(out, Appended)
  PROVE  Append(out, Appended)[i].postings = Ascending(Append(out, Appended)[i].postings)
  <1> DEFINE n == Len(out)
             more == Append(out, Appended)
  <1>1. /\ out \in Seq(Lists(TermIDs)) /\ n \in Nat /\ DOMAIN out = 1..n
        /\ last \in Lists(TermIDs) /\ Appended \in Lists(TermIDs)
        /\ Appended.postings = Ascending(last.postings)
    BY OutParts, AppendedIs
  <1>2. last.postings \in Seq(Nat)
    BY <1>1 DEF Lists
  <1>3. Appended.postings = Ascending(Appended.postings)
    BY <1>1, <1>2, AscendingTwice
  <1>4. /\ more \in Seq(Lists(TermIDs)) /\ Len(more) = n + 1
        /\ \A k \in 1..n : more[k] = out[k]
        /\ more[n + 1] = Appended
    BY <1>1, AppendProperties
  <1>5. i \in 1..n \/ i = n + 1
    <2>1. DOMAIN more = 1..(n + 1)
      BY <1>4, LenProperties
    <2> QED BY <2>1, <1>1
  <1>6. CASE i \in 1..n
    BY <1>1, <1>4, <1>6 DEF Merging
  <1>7. CASE i = n + 1
    BY <1>3, <1>4, <1>7
  <1> QED BY <1>5, <1>6, <1>7

\* Merge appends a list only when a greater term comes: the merged index ascends.
LEMMA AppendAscends ==
  ASSUME TypeOK, MergeAscends, last.term # -1
  PROVE  /\ \A i, j \in DOMAIN Append(out, Appended) :
              i < j => Append(out, Appended)[i].term < Append(out, Appended)[j].term
         /\ \A i \in DOMAIN Append(out, Appended) :
              Append(out, Appended)[i].term <= last.term
  <1> DEFINE more == Append(out, Appended)
             n == Len(out)
  <1>1. out \in Seq(Lists(TermIDs)) /\ n \in Nat /\ DOMAIN out = 1..n /\ last.term \in Nat
        /\ \A i \in DOMAIN out : out[i].term \in Nat
    BY OutParts
  <1>2. Appended \in Lists(TermIDs) /\ Appended.term = last.term
    BY AppendedIs
  <1>3. /\ more \in Seq(Lists(TermIDs)) /\ Len(more) = n + 1
        /\ \A i \in 1..n : more[i] = out[i]
        /\ more[n + 1] = Appended
    BY <1>1, <1>2, AppendProperties
  <1>4. DOMAIN more = 1..(n + 1)
    BY <1>3, LenProperties
  <1> HIDE DEF more, n
  <1>5. \A i \in 1..n : more[i].term = out[i].term /\ out[i].term < last.term
    BY <1>1, <1>3 DEF MergeAscends
  <1>6. \A i, j \in 1..n : i < j => more[i].term < more[j].term
    BY <1>1, <1>5 DEF MergeAscends
  <1>7. \A i \in 1..(n + 1) : i \in 1..n \/ i = n + 1
    BY <1>1
  <1>8. \A i \in 1..n : more[i].term < more[n + 1].term
    BY <1>2, <1>3, <1>5
  <1>9. \A i, j \in 1..(n + 1) : i < j => more[i].term < more[j].term
    <2> SUFFICES ASSUME NEW i \in 1..(n + 1), NEW j \in 1..(n + 1), i < j
                 PROVE  more[i].term < more[j].term
      OBVIOUS
    <2>1. i # n + 1
      BY <1>1
    <2>2. i \in 1..n
      BY <2>1, <1>7
    <2>3. CASE j \in 1..n
      BY <2>2, <2>3, <1>6
    <2>4. CASE j = n + 1
      BY <2>2, <2>4, <1>8
    <2> QED BY <2>3, <2>4, <1>7
  <1>10. \A i \in 1..(n + 1) : more[i].term <= last.term
    BY <1>1, <1>2, <1>3, <1>5, <1>7
  <1> QED BY <1>4, <1>9, <1>10 DEF more

LEMMA PopKeeps ==
  ASSUME IInv, NEW e \in queue, Pop(e)
  PROVE  IInv'
  <1> DEFINE s == e.arrIndex
             i == e.insideIndex
             list == segments[s].list[i]
  <1>1. /\ TypeOK /\ Streaming /\ Segmenting /\ Queueing /\ Merging /\ FieldLengths
        /\ MergeAscends /\ MergeConserves /\ OneSegmentEach
    BY DEF IInv
  <1>2. /\ phase = "merge" /\ \A other \in queue : e.term <= other.term
        /\ Receive(list)
        /\ queue' = (queue \ {e}) \cup
                      (IF HasNext(e) THEN {Entry(e.arrIndex, e.insideIndex + 1)} ELSE {})
    BY DEF Pop
  <1>3. UNCHANGED <<buffers, maxSize, vocab, stream, from, finished, segments, phase,
                    lenFieldInDoc>>
    BY DEF Pop, inputVars, invertVars
  <1>4. /\ s \in DOMAIN segments /\ i \in DOMAIN segments[s].list
        /\ list \in Lists(TermIDs) /\ list.term = e.term /\ e.term \in Nat
    BY <1>1, EntryParts
  <1> HIDE DEF list
  <1>5. last' \in Lists(TermIDs) /\ out' \in Seq(Lists(TermIDs)) /\ last'.term = e.term
    BY <1>1, <1>2, <1>4, ReceiveType
  <1>6. \A f \in queue' :
          \/ f \in queue /\ f # e /\ f.arrIndex # s
          \/ /\ f = Entry(s, i + 1)
             /\ f.arrIndex = s /\ f.insideIndex = i + 1
             /\ f.insideIndex \in DOMAIN segments[s].list
             /\ f.term \in Nat /\ e.term < f.term
    BY <1>1, <1>2, NextEntry
  <1>7. \A f \in queue' : /\ f = Entry(f.arrIndex, f.insideIndex)
                          /\ f.arrIndex \in DOMAIN segments
                          /\ f.insideIndex \in DOMAIN segments[f.arrIndex].list
    BY <1>1, <1>4, <1>6 DEF Queueing
  <1>8. \A f : Entry(f.arrIndex, f.insideIndex)' = Entry(f.arrIndex, f.insideIndex)
    BY <1>3 DEF Entry
  <1>9. TypeOK'
    <2>1. \A f \in queue' : f = Entry(f.arrIndex, f.insideIndex)'
      BY <1>7, <1>8
    <2>2. \A r \in DOMAIN segments' : segments'[r].list \in Seq(PostingList)'
      BY <1>1, <1>3 DEF TypeOK, PostingList, TermIDs
    <2>3. PostingList' = Lists(TermIDs)
      BY <1>3 DEF PostingList, Lists, TermIDs
    <2>4. out' \in Seq(PostingList)' /\ last' \in PostingList' \cup {NoTerm}
      BY <1>5, <2>3
    <2>5. \A c \in DOMAIN buffers' :
            stream'[c] \in Seq([term: TermIDs', doc: Nat]) /\ from'[c] \in 0..Len(stream'[c])
      BY <1>1, <1>3 DEF TypeOK, TermIDs
    <2>6. /\ buffers' \in Inputs /\ maxSize' \in MaxSizes /\ finished' \subseteq DOMAIN buffers'
          /\ vocab' \in Seq(Words) /\ phase' \in {"invert", "merge", "done"}
          /\ \A d \in DOMAIN lenFieldInDoc' : lenFieldInDoc'[d] \in Nat
      BY <1>1, <1>3 DEF TypeOK
    <2> QED BY <2>1, <2>2, <2>4, <2>5, <2>6 DEF TypeOK
  <1>10. Streaming' /\ Segmenting'
    BY <1>1, <1>3 DEF Streaming, Parsed, Segmenting, Segment, LenDF, AscendingTerms
  <1>11. Queueing'
    <2>1. \A f, g \in queue' : f.arrIndex = g.arrIndex => f = g
      BY <1>1, <1>6 DEF Queueing
    <2>2. \A f \in queue' : /\ f = Entry(f.arrIndex, f.insideIndex)'
                            /\ f.arrIndex \in DOMAIN segments'
                            /\ f.insideIndex \in DOMAIN segments'[f.arrIndex].list
      BY <1>3, <1>7, <1>8
    <2> QED BY <2>1, <2>2 DEF Queueing
  <1>12. Merging' /\ FieldLengths'
    <2>1. out' = out \/ (out' = Append(out, Appended) /\ last.term # -1)
      BY <1>2 DEF Receive, Appended
    <2>2. \A k \in DOMAIN out' : out'[k].postings = Ascending(out'[k].postings)
      BY <2>1, <1>1, AppendSorted DEF Merging
    <2>3. phase' = "merge" /\ last'.term # -1
      BY <1>2, <1>3, <1>4, <1>5
    <2>4. FieldLengths'
      BY <1>1, <1>2, <1>3 DEF FieldLengths
    <2> QED BY <2>2, <2>3, <2>4 DEF Merging
  <1>13. MergeAscends'
    <2>1. \A f \in queue' : last'.term <= f.term
      BY <1>2, <1>4, <1>5, <1>6
    <2>2. last'.term # -1
      BY <1>4, <1>5
    <2>3. CASE list.term = last.term
      <3>1. out' = out /\ last'.term = last.term
        BY <2>3, <1>2, <1>4, <1>5 DEF Receive
      <3> QED BY <2>1, <2>2, <3>1, <1>1 DEF MergeAscends
    <2>4. CASE list.term # last.term /\ last.term = -1
      <3>1. out' = <<>>
        BY <2>4, <1>1, <1>2 DEF Receive, Merging
      <3>2. DOMAIN out' = {}
        BY <3>1
      <3> QED BY <2>1, <3>2 DEF MergeAscends
    <2>5. CASE list.term # last.term /\ last.term # -1
      <3>1. out' = Append(out, Appended)
        BY <2>5, <1>2 DEF Receive, Appended
      <3>2. last.term \in Nat /\ last.term < e.term
        BY <2>5, <1>1, <1>4, OutParts DEF MergeAscends
      <3>3. /\ \A k, j \in DOMAIN out' : k < j => out'[k].term < out'[j].term
            /\ \A k \in DOMAIN out' : out'[k].term <= last.term
        BY <2>5, <3>1, <1>1, AppendAscends
      <3>4. \A k \in DOMAIN out' : out'[k].term \in Nat
        <4>1. \A k \in DOMAIN out' : out'[k] \in Lists(TermIDs)
          BY <1>5, ElementOfSeq, LenProperties
        <4> QED BY <4>1, <1>1, VocabParts DEF Lists
      <3>5. \A k \in DOMAIN out' : out'[k].term < last'.term
        BY <3>2, <3>3, <3>4, <1>4, <1>5
      <3> QED BY <2>1, <3>3, <3>5 DEF MergeAscends
    <2> QED BY <2>3, <2>4, <2>5
  <1>14. MergeConserves'
    <2> SUFFICES ASSUME NEW t \in TermIDs', NEW d \in Docs'
                 PROVE  (Cardinality(SegmentHits(t, d)) =
                           CountOf(t, d, out) + CountOf(t, d, <<last>>)
                           + Cardinality(UnreadHits(t, d)))'
      BY DEF MergeConserves
    <2>1. t \in TermIDs /\ d \in Docs
      BY <1>3 DEF TermIDs, Docs
    <2>2. SegmentHits(t, d)' = SegmentHits(t, d)
      BY <1>3 DEF SegmentHits
    <2>3. Cardinality(SegmentHits(t, d)) =
            CountOf(t, d, out) + CountOf(t, d, <<last>>) + Cardinality(UnreadHits(t, d))
      BY <2>1, <1>1, <1>2 DEF MergeConserves
    <2>4. /\ CountOf(t, d, out') + CountOf(t, d, <<last'>>) =
               CountOf(t, d, out) + CountOf(t, d, <<last>>) + Weight(t, d, list)
          /\ CountOf(t, d, out') \in Nat /\ CountOf(t, d, <<last'>>) \in Nat
      BY <2>1, <1>1, <1>2, <1>4, ReceiveCounts
    <2>5. /\ Cardinality(UnreadHits(t, d)') \in Nat
          /\ Cardinality(UnreadHits(t, d)) = Cardinality(UnreadHits(t, d)') + Weight(t, d, list)
      BY <1>1, <1>2, <1>3, UnreadSplit DEF list
    <2>6. Weight(t, d, list) \in Nat
      <3>1. list \in AnyList
        BY <1>1, <1>4, VocabParts DEF Lists, AnyList
      <3> QED BY <3>1, WeightType
    <2>7. CountOf(t, d, out) \in Nat /\ CountOf(t, d, <<last>>) \in Nat
      <3>1. last.term = -1 => last = NoTerm
        BY <1>1, LastIs
      <3>2. t \in Nat
        BY <2>1, <1>1, VocabParts
      <3> QED BY <3>1, <3>2, <1>1, OutParts, HitsFinite, CountNoTerm, AppendedIs, CountOne, WeightType
    <2> QED BY <2>2, <2>3, <2>4, <2>5, <2>6, <2>7
  <1>15. OneSegmentEach'
    BY <1>1, <1>3, OneSegmentStays
  <1> QED BY <1>9, <1>10, <1>11, <1>12, <1>13, <1>14, <1>15 DEF IInv

LEMMA EndMergeKeeps ==
  ASSUME IInv, EndMerge
  PROVE  IInv'
  <1>1. /\ TypeOK /\ Streaming /\ Segmenting /\ Queueing /\ Merging /\ FieldLengths
        /\ MergeAscends /\ MergeConserves /\ OneSegmentEach
    BY DEF IInv
  <1>2. /\ phase = "merge" /\ queue = {} /\ phase' = "done" /\ last' = NoTerm
        /\ lenFieldInDoc' = MergeFieldLengths
    BY DEF EndMerge
  <1>3. UNCHANGED <<buffers, maxSize, vocab, stream, from, finished, segments, queue>>
    BY DEF EndMerge, inputVars, invertVars
  <1>4. out' = IF last.term = -1 THEN out ELSE Append(out, Appended)
    BY DEF EndMerge, Appended
  <1>5. out' \in Seq(Lists(TermIDs))
    BY <1>1, <1>4, OutParts, AppendedIs, AppendProperties
  <1>6. TypeOK'
    <2>1. \A r \in DOMAIN segments' : segments'[r].list \in Seq(PostingList)'
      BY <1>1, <1>3 DEF TypeOK, PostingList, TermIDs
    <2>2. PostingList' = Lists(TermIDs)
      BY <1>3 DEF PostingList, Lists, TermIDs
    <2>3. out' \in Seq(PostingList)' /\ last' \in PostingList' \cup {NoTerm}
      BY <1>2, <1>5, <2>2
    <2>4. \A c \in DOMAIN buffers' :
            stream'[c] \in Seq([term: TermIDs', doc: Nat]) /\ from'[c] \in 0..Len(stream'[c])
      BY <1>1, <1>3 DEF TypeOK, TermIDs
    <2>5. /\ buffers' \in Inputs /\ maxSize' \in MaxSizes /\ finished' \subseteq DOMAIN buffers'
          /\ vocab' \in Seq(Words) /\ phase' \in {"invert", "merge", "done"}
      BY <1>1, <1>2, <1>3 DEF TypeOK
    <2>6. \A d \in DOMAIN lenFieldInDoc' : lenFieldInDoc'[d] \in Nat
      BY <1>1, <1>2, MergedLengths
    <2>7. queue' = {}
      BY <1>2, <1>3
    <2> QED BY <2>1, <2>3, <2>4, <2>5, <2>6, <2>7 DEF TypeOK
  <1>7. Streaming' /\ Segmenting' /\ Queueing'
    BY <1>1, <1>2, <1>3
    DEF Streaming, Parsed, Segmenting, Segment, LenDF, AscendingTerms, Queueing
  <1>8. Merging'
    <2>1. \A k \in DOMAIN out' : out'[k].postings = Ascending(out'[k].postings)
      BY <1>1, <1>4, AppendSorted DEF Merging
    <2> QED BY <2>1, <1>2, <1>3 DEF Merging
  <1>9. FieldLengths'
    <2>1. /\ Docs' = Docs
          /\ \A d : SegmentsWith(d)' = SegmentsWith(d)
          /\ \A b : LenDF(b)' = LenDF(b)
      BY <1>3 DEF Docs, SegmentsWith, LenDF
    <2> QED BY <2>1, <1>1, <1>2, <1>3, MergedLengths DEF FieldLengths
  <1>10. MergeAscends'
    <2>1. \A i, j \in DOMAIN out' : i < j => out'[i].term < out'[j].term
      BY <1>1, <1>4, AppendAscends DEF MergeAscends
    <2>2. last'.term = -1 /\ queue' = {}
      BY <1>2, <1>3 DEF NoTerm
    <2> QED BY <2>1, <2>2 DEF MergeAscends
  <1>11. MergeConserves'
    <2> SUFFICES ASSUME NEW t \in TermIDs', NEW d \in Docs'
                 PROVE  (Cardinality(SegmentHits(t, d)) =
                           CountOf(t, d, out) + CountOf(t, d, <<last>>)
                           + Cardinality(UnreadHits(t, d)))'
      BY DEF MergeConserves
    <2>1. t \in TermIDs /\ d \in Docs
      BY <1>3 DEF TermIDs, Docs
    <2>2. t \in Nat
      BY <2>1, <1>1, VocabParts
    <2>3. SegmentHits(t, d)' = SegmentHits(t, d)
      BY <1>3 DEF SegmentHits
    <2>4. Cardinality(SegmentHits(t, d)) =
            CountOf(t, d, out) + CountOf(t, d, <<last>>) + Cardinality(UnreadHits(t, d))
      BY <2>1, <1>1, <1>2 DEF MergeConserves
    <2>5. UnreadHits(t, d) = {} /\ UnreadHits(t, d)' = {}
      BY <1>2, <1>3 DEF UnreadHits
    <2>6. CountOf(t, d, <<last'>>) = 0 /\ Cardinality(UnreadHits(t, d)) = 0
      BY <2>2, <2>5, <1>2, CountNoTerm, FS_EmptySet
    <2>7. CountOf(t, d, out') = CountOf(t, d, out) + CountOf(t, d, <<last>>)
      <3>1. CASE last.term = -1
        <4>1. last = NoTerm
          BY <3>1, <1>1, LastIs
        <4>2. CountOf(t, d, <<last>>) = 0 /\ CountOf(t, d, out) \in Nat
          BY <4>1, <2>2, <1>1, CountNoTerm, OutParts, HitsFinite
        <4> QED BY <3>1, <4>2, <1>4
      <3>2. CASE last.term # -1
        BY <3>2, <2>1, <1>1, <1>4, AppendedCounts
      <3> QED BY <3>1, <3>2
    <2>8. Cardinality(SegmentHits(t, d)) \in Nat
      BY <1>1, SegmentHitsFinite
    <2> QED BY <2>3, <2>4, <2>5, <2>6, <2>7, <2>8
  <1>12. OneSegmentEach'
    BY <1>1, <1>3, OneSegmentStays
  <1> QED BY <1>6, <1>7, <1>8, <1>9, <1>10, <1>11, <1>12 DEF IInv


-----------------------------------------------------------------------------
(* The invariant of the specification                                      *)

LEMMA InitInv ==
  ASSUME Init
  PROVE  IInv
  <1>1. /\ buffers \in Inputs /\ maxSize \in MaxSizes /\ vocab = <<>>
        /\ stream = [b \in DOMAIN buffers |-> <<>>] /\ from = [b \in DOMAIN buffers |-> 0]
        /\ finished = {} /\ segments = <<>> /\ phase = "invert" /\ queue = {}
        /\ last = NoTerm /\ out = <<>> /\ lenFieldInDoc = NoLengths
    BY DEF Init
  <1>2. DOMAIN segments = {} /\ DOMAIN out = {} /\ DOMAIN vocab = {}
    BY <1>1
  <1>3. \A b \in DOMAIN buffers : stream[b] = <<>> /\ from[b] = 0
    BY <1>1
  <1>4. DOMAIN lenFieldInDoc = {}
    BY <1>1 DEF NoLengths
  <1>5. TypeOK
    <2>1. \A b \in DOMAIN buffers :
            stream[b] \in Seq([term: TermIDs, doc: Nat]) /\ from[b] \in 0..Len(stream[b])
      <3>1. <<>> \in Seq([term: TermIDs, doc: Nat]) /\ 0 \in 0..Len(<<>>)
        BY EmptySeq
      <3> QED BY <3>1, <1>3
    <2>2. vocab \in Seq(Words) /\ out \in Seq(PostingList)
      BY <1>1, EmptySeq
    <2> QED BY <1>1, <1>2, <1>4, <2>1, <2>2 DEF TypeOK
  <1>6. Streaming
    <2>1. DOMAIN stream = DOMAIN buffers /\ DOMAIN from = DOMAIN buffers
      BY <1>1
    <2>2. \A b \in DOMAIN buffers : Len(stream[b]) = 0 /\ DOMAIN stream[b] = {}
      BY <1>3, EmptySeq
    <2>3. \A b \in DOMAIN buffers : Len(buffers[b]) \in Nat
      BY <1>5, InputParts
    <2> QED BY <1>1, <1>2, <2>1, <2>2, <2>3 DEF Streaming
  <1>7. Segmenting
    BY <1>1, <1>2, EmptySeq DEF Segmenting
  <1>8. Queueing /\ Merging /\ FieldLengths /\ MergeConserves
    BY <1>1, <1>2 DEF Queueing, Merging, FieldLengths, MergeConserves
  <1>9. MergeAscends
    BY <1>1, <1>2 DEF MergeAscends, NoTerm
  <1>10. OneSegmentEach
    <2>1. PICK owner : owner = [s \in DOMAIN segments |-> 0]
      OBVIOUS
    <2>2. owner \in [DOMAIN segments -> finished]
      BY <1>2, <2>1
    <2> QED BY <1>1, <1>2, <1>3, <2>2 DEF OneSegmentEach
  <1> QED BY <1>5, <1>6, <1>7, <1>8, <1>9, <1>10 DEF IInv

LEMMA StutterKeeps ==
  ASSUME IInv, UNCHANGED vars
  PROVE  IInv'
  <1>1. /\ TypeOK /\ Streaming /\ Segmenting /\ Queueing /\ Merging /\ FieldLengths
        /\ MergeAscends /\ MergeConserves /\ OneSegmentEach
    BY DEF IInv
  <1>2. UNCHANGED <<buffers, maxSize, vocab, stream, from, finished, segments, phase,
                    queue, last, out, lenFieldInDoc>>
    BY DEF vars, inputVars, invertVars, mergeVars
  <1>3. TermIDs' = TermIDs /\ Docs' = Docs /\ \A b : LenDF(b)' = LenDF(b)
    BY <1>2 DEF TermIDs, Docs, LenDF
  <1>4. TypeOK'
    <2>1. \A e : Entry(e.arrIndex, e.insideIndex)' = Entry(e.arrIndex, e.insideIndex)
      BY <1>2 DEF Entry
    <2>2. PostingList' = PostingList
      BY <1>3 DEF PostingList
    <2> QED BY <1>1, <1>2, <1>3, <2>1, <2>2 DEF TypeOK
  <1>5. Streaming' /\ Segmenting' /\ Queueing' /\ Merging' /\ MergeAscends'
    BY <1>1, <1>2
    DEF Streaming, Parsed, Segmenting, Segment, LenDF, AscendingTerms, Queueing, Entry,
        Merging, MergeAscends
  <1>6. FieldLengths'
    <2>1. \A d : SegmentsWith(d)' = SegmentsWith(d)
      BY <1>2 DEF SegmentsWith
    <2> QED BY <2>1, <1>1, <1>2, <1>3 DEF FieldLengths
  <1>7. MergeConserves'
    <2>1. \A t, d : SegmentHits(t, d)' = SegmentHits(t, d)
      BY <1>2 DEF SegmentHits
    <2>2. \A t, d : UnreadHits(t, d)' = UnreadHits(t, d)
      BY <1>2, <2>1 DEF UnreadHits
    <2> QED BY <2>1, <2>2, <1>1, <1>2, <1>3 DEF MergeConserves
  <1>8. OneSegmentEach'
    BY <1>1, <1>2, OneSegmentStays
  <1> QED BY <1>4, <1>5, <1>6, <1>7, <1>8 DEF IInv

LEMMA NextKeeps ==
  ASSUME IInv, [Next]_vars
  PROVE  IInv'
  <1>1. ASSUME NEW b \in DOMAIN buffers, ParseWord(b)
        PROVE  IInv'
    BY <1>1, ParseWordKeeps
  <1>2. ASSUME NEW b \in DOMAIN buffers, FlushFull(b)
        PROVE  IInv'
    BY <1>2, FlushFullKeeps
  <1>3. ASSUME NEW b \in DOMAIN buffers, Finish(b)
        PROVE  IInv'
    BY <1>3, FinishKeeps
  <1>4. CASE StartMerge
    BY <1>4, StartMergeKeeps
  <1>5. ASSUME NEW e \in queue, Pop(e)
        PROVE  IInv'
    BY <1>5, PopKeeps
  <1>6. CASE EndMerge
    BY <1>6, EndMergeKeeps
  <1>7. CASE UNCHANGED vars
    BY <1>7, StutterKeeps
  <1> QED BY <1>1, <1>2, <1>3, <1>4, <1>5, <1>6, <1>7 DEF Next, Merged

LEMMA Inductive == Spec => []IInv
  <1>1. Init => IInv
    BY InitInv
  <1>2. IInv /\ [Next]_vars => IInv'
    BY NextKeeps
  <1> QED BY <1>1, <1>2, PTL DEF Spec

\* The state stays within its values: every queue entry stands for a posting list
\* of its segment, every term in the merged index is one of the dictionary.
THEOREM TypeCorrect == Spec => []TypeOK
  <1>1. IInv => TypeOK
    BY DEF IInv
  <1> QED BY <1>1, Inductive, PTL

\* The merged index is written in strictly ascending term order, and nothing still
\* to come is smaller: no term is split in two lists (Merge, mergeKSortedArray).
THEOREM MergeIsAscending == Spec => []MergeAscends
  <1>1. IInv => MergeAscends
    BY DEF IInv
  <1> QED BY <1>1, Inductive, PTL

\* The merge neither loses a posting of a segment nor takes one twice, at any point
\* of it and whatever the flushes wrote (Merge, mergeKSortedArray).
THEOREM MergeIsConserving == Spec => []MergeConserves
  <1>1. IInv => MergeConserves
    BY DEF IInv
  <1> QED BY <1>1, Inductive, PTL

-----------------------------------------------------------------------------
(* The merged index and the documents                                      *)

\* Families of finite sets of the same sizes have as many elements in all.
Tags(F) == UNION {{i} \X F[i] : i \in DOMAIN F}

LEMMA TagIs ==
  ASSUME NEW F, NEW p
  PROVE  p \in Tags(F) <=> \E i \in DOMAIN F : \E x \in F[i] : p = <<i, x>>
  BY DEF Tags

LEMMA SameTags ==
  ASSUME NEW F, NEW G, IsFiniteSet(DOMAIN F),
         NEW owner \in [DOMAIN F -> DOMAIN G],
         \A i, j \in DOMAIN F : owner[i] = owner[j] => i = j,
         \A k \in DOMAIN G : \E i \in DOMAIN F : owner[i] = k,
         \A i \in DOMAIN F : /\ IsFiniteSet(F[i]) /\ IsFiniteSet(G[owner[i]])
                             /\ Cardinality(F[i]) = Cardinality(G[owner[i]])
  PROVE  Cardinality(Tags(F)) = Cardinality(Tags(G))
  <1> DEFINE g == [i \in DOMAIN F |-> CHOOSE h : h \in Bijection(F[i], G[owner[i]])]
             f == [p \in Tags(F) |-> <<owner[p[1]], g[p[1]][p[2]]>>]
  <1>1. ASSUME NEW i \in DOMAIN F
        PROVE  /\ g[i] \in [F[i] -> G[owner[i]]]
               /\ \A x, y \in F[i] : g[i][x] = g[i][y] => x = y
               /\ \A z \in G[owner[i]] : \E x \in F[i] : g[i][x] = z
    <2>1. ExistsBijection(F[i], G[owner[i]])
      BY FS_SameCardinalityBij
    <2>2. \E h : h \in Bijection(F[i], G[owner[i]])
      BY <2>1 DEF ExistsBijection
    <2>3. g[i] \in Bijection(F[i], G[owner[i]])
      BY <2>2
    <2> HIDE DEF g
    <2> QED BY <2>3 DEF Bijection, Injection, Surjection, IsInjective
  <1> HIDE DEF g
  <1>2. \A i \in DOMAIN F : \A x \in F[i] : <<i, x>> \in Tags(F) /\ f[<<i, x>>] = <<owner[i], g[i][x]>>
    BY TagIs
  <1> HIDE DEF f
  <1>3. f \in [Tags(F) -> Tags(G)]
    <2>1. \A p \in Tags(F) : f[p] \in Tags(G)
      <3> SUFFICES ASSUME NEW p \in Tags(F)
                   PROVE  f[p] \in Tags(G)
        OBVIOUS
      <3>1. PICK i \in DOMAIN F : \E x \in F[i] : p = <<i, x>>
        BY TagIs
      <3>2. PICK x \in F[i] : p = <<i, x>>
        BY <3>1
      <3>3. g[i][x] \in G[owner[i]] /\ owner[i] \in DOMAIN G
        BY <1>1
      <3> QED BY <3>2, <3>3, <1>2, TagIs
    <2> QED BY <2>1 DEF f
  <1>4. \A p, q \in Tags(F) : f[p] = f[q] => p = q
    <2> SUFFICES ASSUME NEW p \in Tags(F), NEW q \in Tags(F), f[p] = f[q]
                 PROVE  p = q
      OBVIOUS
    <2>1. PICK i \in DOMAIN F : \E x \in F[i] : p = <<i, x>>
      BY TagIs
    <2>2. PICK j \in DOMAIN F : \E y \in F[j] : q = <<j, y>>
      BY TagIs
    <2>3. PICK x \in F[i], y \in F[j] : p = <<i, x>> /\ q = <<j, y>>
      BY <2>1, <2>2
    <2>4. owner[i] = owner[j] /\ g[i][x] = g[j][y]
      BY <2>3, <1>2
    <2> QED BY <2>3, <2>4, <1>1
  <1>5. \A q \in Tags(G) : \E p \in Tags(F) : f[p] = q
    <2> SUFFICES ASSUME NEW q \in Tags(G)
                 PROVE  \E p \in Tags(F) : f[p] = q
      OBVIOUS
    <2>1. PICK k \in DOMAIN G : \E z \in G[k] : q = <<k, z>>
      BY TagIs
    <2>2. PICK i \in DOMAIN F : owner[i] = k
      OBVIOUS
    <2>3. PICK z \in G[k] : q = <<k, z>>
      BY <2>1
    <2>4. PICK x \in F[i] : g[i][x] = z
      BY <2>2, <2>3, <1>1
    <2> QED BY <2>2, <2>3, <2>4, <1>2
  <1>6. IsFiniteSet(Tags(F))
    <2>1. PICK h : h = [i \in DOMAIN F |-> {i} \X F[i]]
      OBVIOUS
    <2>2. \A i \in DOMAIN F : IsFiniteSet(h[i])
      BY <2>1, Tagged
    <2>3. IsFiniteSet(UNION {h[i] : i \in DOMAIN F})
      BY <2>1, <2>2, FiniteUnion
    <2>4. Tags(F) = UNION {h[i] : i \in DOMAIN F}
      BY <2>1 DEF Tags
    <2> QED BY <2>3, <2>4
  <1>7. f \in Bijection(Tags(F), Tags(G))
    <2>1. f \in Injection(Tags(F), Tags(G))
      BY <1>3, <1>4 DEF Injection, IsInjective
    <2>2. f \in Surjection(Tags(F), Tags(G))
      BY <1>3, <1>5 DEF Surjection
    <2> QED BY <2>1, <2>2 DEF Bijection
  <1> QED BY <1>6, <1>7, FS_Bijection DEF ExistsBijection

\* A stream has a term and a document where its buffer has the word and the document.
LEMMA StreamIsBuffer ==
  ASSUME TypeOK, Streaming, NEW b \in DOMAIN buffers, Parsed(b), NEW t \in TermIDs, NEW d,
         NEW k
  PROVE  k \in PairsAt(stream[b], t, d) <=>
           k \in DOMAIN buffers[b] /\ buffers[b][k] = [doc |-> d, word |-> vocab[t + 1]]
  <1>1. DOMAIN stream[b] = DOMAIN buffers[b]
    BY StreamParts, InputParts DEF Parsed
  <1>2. ASSUME k \in DOMAIN stream[b]
        PROVE  stream[b][k] = [term |-> t, doc |-> d] <=>
                 buffers[b][k] = [doc |-> d, word |-> vocab[t + 1]]
    <2>1. /\ stream[b][k] = [term |-> stream[b][k].term, doc |-> stream[b][k].doc]
          /\ stream[b][k].term \in TermIDs
      BY <1>2, StreamParts, PairParts
    <2>2. buffers[b][k] \in Token
      BY <1>1, <1>2, InputParts, ElementOfSeq
    <2>3. buffers[b][k] = [doc |-> buffers[b][k].doc, word |-> buffers[b][k].word]
      BY <2>2 DEF Token
    <2>4. /\ stream[b][k].doc = buffers[b][k].doc
          /\ vocab[stream[b][k].term + 1] = buffers[b][k].word
      BY <1>2 DEF Streaming
    <2>5. \A u, v \in TermIDs : vocab[u + 1] = vocab[v + 1] => u = v
      <3>1. \A u \in TermIDs : u \in Nat /\ u + 1 \in DOMAIN vocab
        BY VocabParts DEF TermIDs
      <3> QED BY <3>1 DEF Streaming
    <2>6. stream[b][k].term = t <=> buffers[b][k].word = vocab[t + 1]
      BY <2>1, <2>4, <2>5
    <2> QED BY <2>1, <2>3, <2>4, <2>6
  <1> QED BY <1>1, <1>2 DEF PairsAt

\* Without an early flush the segments have what the documents have.
LEMMA SegmentsHaveAll ==
  ASSUME IInv, phase # "invert", NoEarlyFlush, NEW t \in TermIDs, NEW d
  PROVE  Cardinality(SegmentHits(t, d)) = Occurrences(t, d)
  <1>1. TypeOK /\ Streaming /\ Segmenting /\ OneSegmentEach
    BY DEF IInv
  <1>2. finished = DOMAIN buffers /\ \A b \in DOMAIN buffers : Parsed(b)
    BY <1>1 DEF Streaming
  <1>3. PICK owner \in [DOMAIN segments -> finished] :
          /\ \A s, r \in DOMAIN segments : owner[s] = owner[r] => s = r
          /\ \A b \in finished : \E s \in DOMAIN segments : owner[s] = b
          /\ \A s \in DOMAIN segments : segments[s] = WholeSegment(owner[s])
    BY <1>1 DEF OneSegmentEach
  <1>4. PICK F : F = [s \in DOMAIN segments |-> Hits(t, d, segments[s].list)]
    OBVIOUS
  <1>5. PICK G : G = [b \in DOMAIN buffers |-> PairsAt(stream[b], t, d)]
    OBVIOUS
  <1>6. ASSUME NEW s \in DOMAIN F
        PROVE  /\ IsFiniteSet(F[s]) /\ IsFiniteSet(G[owner[s]])
               /\ Cardinality(F[s]) = Cardinality(G[owner[s]])
    <2>1. PICK b \in DOMAIN buffers : b = owner[s]
      BY <1>2, <1>3, <1>4
    <2>2. segments[s].list = ByTerm(PostingMap(stream[b]))
      BY <2>1, <1>3, <1>4 DEF WholeSegment
    <2>3. /\ IsFiniteSet(PairsAt(stream[b], t, d))
          /\ CountOf(t, d, ByTerm(PostingMap(stream[b]))) = Cardinality(PairsAt(stream[b], t, d))
      BY <1>1, StreamParts, ByTermCounts
    <2>4. IsFiniteSet(Hits(t, d, segments[s].list))
      BY <1>1, <1>4, SegmentParts, HitsFinite
    <2> QED BY <2>1, <2>2, <2>3, <2>4, <1>4, <1>5 DEF CountOf
  <1>7. Cardinality(Tags(F)) = Cardinality(Tags(G))
    <2>1. DOMAIN F = DOMAIN segments /\ DOMAIN G = finished
      BY <1>2, <1>4, <1>5
    <2>2. IsFiniteSet(DOMAIN F)
      BY <2>1, <1>1, FinitePlaces DEF Segmenting
    <2> QED BY <2>1, <2>2, <1>3, <1>6, SameTags
  <1>8. SegmentHits(t, d) = Tags(F)
    BY <1>4 DEF SegmentHits, Tags
  <1>9. {p \in UNION {{b} \X DOMAIN buffers[b] : b \in DOMAIN buffers} :
           buffers[p[1]][p[2]] = [doc |-> d, word |-> vocab[t + 1]]} = Tags(G)
    <2>1. \A b \in DOMAIN buffers : \A k :
            k \in G[b] <=>
              k \in DOMAIN buffers[b] /\ buffers[b][k] = [doc |-> d, word |-> vocab[t + 1]]
      BY <1>1, <1>2, <1>5, StreamIsBuffer
    <2>2. DOMAIN G = DOMAIN buffers
      BY <1>5
    <2> QED BY <2>1, <2>2, TagIs
  <1> QED BY <1>7, <1>8, <1>9 DEF Occurrences

\* When no stream reaches the limit of the postings in memory, the merged index has
\* each document as often under a term as it has the word, sorted, whatever IDs the
\* race for the dictionary gave (SpimiInvert, SpimiParseOSMNode, Merge).
THEOREM MergedIsExact == Spec => []MergedExact
  <1>1. IInv => MergedExact
    <2> SUFFICES ASSUME IInv, phase = "done", NoEarlyFlush
                 PROVE  /\ \A t \in TermIDs, d \in Docs :
                             CountOf(t, d, out) = Occurrences(t, d)
                        /\ \A i \in DOMAIN out : out[i].postings = Ascending(out[i].postings)
      BY DEF MergedExact
    <2>1. TypeOK /\ Merging /\ MergeConserves
      BY DEF IInv
    <2>2. last = NoTerm /\ queue = {}
      BY <2>1 DEF Merging
    <2>3. ASSUME NEW t \in TermIDs, NEW d \in Docs
          PROVE  CountOf(t, d, out) = Occurrences(t, d)
      <3>1. Cardinality(SegmentHits(t, d)) =
              CountOf(t, d, out) + CountOf(t, d, <<last>>) + Cardinality(UnreadHits(t, d))
        BY <2>1 DEF MergeConserves
      <3>2. UnreadHits(t, d) = {}
        BY <2>2 DEF UnreadHits
      <3>3. CountOf(t, d, <<last>>) = 0 /\ Cardinality(UnreadHits(t, d)) = 0
        BY <2>1, <2>2, <3>2, VocabParts, CountNoTerm, FS_EmptySet
      <3>4. CountOf(t, d, out) \in Nat
        BY <2>1, OutParts, HitsFinite
      <3> QED BY <3>1, <3>3, <3>4, SegmentsHaveAll
    <2>4. \A i \in DOMAIN out : out[i].postings = Ascending(out[i].postings)
      BY <2>1 DEF Merging
    <2> QED BY <2>3, <2>4
  <1> QED BY <1>1, Inductive, PTL

\* Under the same condition a document's length in the merged index is its number of
\* tokens: the sum over the segments counts it once (MergeFieldLengths).
THEOREM LengthsAreExact == Spec => []LengthsExact
  <1>1. IInv => LengthsExact
    <2> SUFFICES ASSUME IInv, phase = "done", NoEarlyFlush,
                        NEW b \in DOMAIN buffers, NEW i \in DOMAIN buffers[b],
                        NEW d, d = buffers[b][i].doc
                 PROVE  /\ d \in DOMAIN lenFieldInDoc
                        /\ lenFieldInDoc[d] =
                             Cardinality({j \in DOMAIN buffers[b] : buffers[b][j].doc = d})
      BY DEF LengthsExact
    <2>1. TypeOK /\ Streaming /\ Segmenting /\ FieldLengths /\ OneSegmentEach
      BY DEF IInv
    <2>2. finished = DOMAIN buffers
      BY <2>1 DEF Streaming
    <2>3. PICK owner \in [DOMAIN segments -> finished] :
            /\ \A s, r \in DOMAIN segments : owner[s] = owner[r] => s = r
            /\ \A c \in finished : \E s \in DOMAIN segments : owner[s] = c
            /\ \A s \in DOMAIN segments : segments[s] = WholeSegment(owner[s])
      BY <2>1 DEF OneSegmentEach
    <2>4. PICK s \in DOMAIN segments : owner[s] = b
      BY <2>2, <2>3
    <2>5. \A r \in DOMAIN segments : segments[r].lenDF = LenDF(owner[r])
      BY <2>3 DEF WholeSegment
    <2>6. d \in DOMAIN LenDF(b)
      BY DEF LenDF
    <2>7. SegmentsWith(d) = {s}
      <3>1. \A r \in SegmentsWith(d) : owner[r] = b
        BY <2>1, <2>2, <2>5, <2>6, OneBuffer DEF SegmentsWith
      <3>2. s \in SegmentsWith(d)
        BY <2>4, <2>5, <2>6 DEF SegmentsWith
      <3>3. \A r \in SegmentsWith(d) : r = s
        BY <3>1, <2>3, <2>4 DEF SegmentsWith
      <3> QED BY <3>2, <3>3
    <2>8. Cardinality(SegmentsWith(d)) = 1
      BY <2>7, FS_Singleton
    <2>9. d \in Docs
      BY <2>4, <2>5, <2>6 DEF Docs
    <2>10. d \in DOMAIN lenFieldInDoc /\ lenFieldInDoc[d] = LenDF(b)[d] * 1
      BY <2>1, <2>6, <2>8, <2>9 DEF FieldLengths
    <2>11. LenDF(b)[d] \in Nat
      BY <2>1, <2>6, LenDFIs
    <2>12. LenDF(b)[d] = Cardinality({j \in DOMAIN buffers[b] : buffers[b][j].doc = d})
      BY <2>6 DEF LenDF
    <2> QED BY <2>10, <2>11, <2>12
  <1> QED BY <1>1, Inductive, PTL
=============================================================================
