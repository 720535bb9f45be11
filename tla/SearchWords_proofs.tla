------------------------- MODULE SearchWords_proofs -------------------------
(***************************************************************************)
(* Theorems about SearchWords, for any documents, queries and training     *)
(* lines: a free form query goes on with words at most two edits away and  *)
(* panics only without one, autocomplete goes on with different queries,   *)
(* as many as there are up to three, training counts every error once and  *)
(* each single edit as that edit, and the estimates of the language model  *)
(* sum to one.                                                             *)
(*                                                                         *)
(* All rest on what the recursive operators of the model return.  A fold  *)
(* or a recursive function is a CHOOSE of a solution of its equation, so   *)
(* one is shown to exist first (RecursionExists): its values come in the   *)
(* order of a measure.  Then follow, by induction in the form "a set that  *)
(* has 0 and with n also n + 1 has all numbers" (NatSet): the words and    *)
(* the number of queries Products lists (ProductsHave), what WithoutSeen   *)
(* and Listed keep and drop, that Levenshtein is a number and that no      *)
(* lower case word is within two edits of the unknown token                *)
(* (UnknownIsFar), that PreProcessData replaces nothing                    *)
(* (NothingIsReplaced) and that each word it leaves is counted, so that    *)
(* the language model finds every query of such words possible             *)
(* (CountedIsPossible).                                                    *)
(*                                                                         *)
(* The invariant IInv adds to the two properties that the dictionary has   *)
(* the words of the documents and no others while they are indexed, and    *)
(* that the server, which starts with it, has their words and the markers  *)
(* as vocabulary and their prepared text as data.  Training has an         *)
(* invariant of its own (Trained): the counts add up to the errors read,   *)
(* by counting pairs of an edit and a number up to its count               *)
(* (SumIsTallied), and no edit is counted less often than it is the edit   *)
(* of a first error, which GetEdit finds (SingleEditIs).  The estimates    *)
(* after a context sum to the places where it is followed (NumSumHas),     *)
(* which are those where it ended a word earlier and, for start tokens,    *)
(* the first words of the documents (LaterIs, FirstIs).                    *)
(***************************************************************************)
EXTENDS SearchWords, TLAPS, SequenceTheorems, FiniteSetTheorems, NaturalsInduction,
        WellFoundedInduction

-----------------------------------------------------------------------------
(* Induction and recursion                                                 *)

LEMMA LeastNat ==
  ASSUME NEW S \in SUBSET Nat, S # {}
  PROVE  \E n \in S : \A m \in S : n <= m
  <1>1. PICK n \in S : \A m \in S : ~ (<<m, n>> \in OpToRel(<, Nat))
    BY NatLessThanWellFounded, WFMin
  <1>2. \A m \in S : ~ (m < n)
    BY <1>1 DEF OpToRel
  <1>3. \A m \in S : m \in Nat
    OBVIOUS
  <1> QED BY <1>2, <1>3

\* Induction over the numbers, for the set of those a statement holds of.
LEMMA NatSet ==
  ASSUME NEW T, 0 \in T, \A n \in Nat : n \in T => n + 1 \in T
  PROVE  Nat \subseteq T
  <1> SUFFICES ASSUME Nat \ T # {}
               PROVE  FALSE
    OBVIOUS
  <1>1. PICK n \in Nat \ T : \A m \in Nat \ T : n <= m
    BY LeastNat
  <1>2. n # 0 /\ n - 1 \in Nat
    BY <1>1
  <1>3. n - 1 \in T
    BY <1>1, <1>2
  <1> QED BY <1>1, <1>2, <1>3

\* G gives the value at x from a function of which only the values at arguments of a
\* smaller measure matter.
Measured(D, V, m, G) ==
  /\ V # {}
  /\ m \in [D -> Nat]
  /\ \A x \in D : \A h \in [D -> V] : G[<<x, h>>] \in V
  /\ \A x \in D : \A h, k \in [D -> V] :
       (\A y \in D : m[y] < m[x] => h[y] = k[y]) => G[<<x, h>>] = G[<<x, k>>]

\* A measured recursion has a solution.
LEMMA RecursionExists ==
  ASSUME NEW D, NEW V, NEW m, NEW G, Measured(D, V, m, G)
  PROVE  \E h \in [D -> V] : \A x \in D : h[x] = G[<<x, h>>]
  <1>a. PICK v0 \in V : TRUE
    BY DEF Measured
  <1>b. m \in [D -> Nat]
    BY DEF Measured
  <1>c. \A x \in D : \A h \in [D -> V] : G[<<x, h>>] \in V
    BY DEF Measured
  <1>d. \A x \in D : \A h, k \in [D -> V] :
          (\A y \in D : m[y] < m[x] => h[y] = k[y]) => G[<<x, h>>] = G[<<x, k>>]
    BY DEF Measured
  <1> USE <1>a, <1>b, <1>c, <1>d
  <1> DEFINE Good(n, h) == h \in [D -> V] /\ \A x \in D : m[x] < n => h[x] = G[<<x, h>>]
             T == {n \in Nat : \E h : Good(n, h)}
  <1>0. \A x \in D : m[x] \in Nat
    OBVIOUS
  <1>1. 0 \in T
    <2>1. PICK h : h = [x \in D |-> v0]
      OBVIOUS
    <2>2. Good(0, h)
      BY <2>1, <1>0
    <2> HIDE DEF Good
    <2> QED BY <2>2
  <1>2. ASSUME NEW n \in Nat, n \in T
        PROVE  n + 1 \in T
    <2>1. PICK h : Good(n, h)
      BY <1>2
    <2>2. PICK k : k = [x \in D |-> IF m[x] = n THEN G[<<x, h>>] ELSE h[x]]
      OBVIOUS
    <2>3. k \in [D -> V]
      BY <2>1, <2>2
    <2>4. \A y \in D : m[y] < n => h[y] = k[y]
      BY <2>2, <1>0
    <2>5. ASSUME NEW x \in D, m[x] < n + 1
          PROVE  k[x] = G[<<x, k>>]
      <3>1. m[x] <= n
        BY <2>5, <1>0
      <3>2. \A y \in D : m[y] < m[x] => h[y] = k[y]
        BY <3>1, <2>4, <1>0
      <3>3. G[<<x, h>>] = G[<<x, k>>]
        BY <2>1, <2>3, <3>2
      <3>4. CASE m[x] = n
        BY <3>3, <3>4, <2>2
      <3>5. CASE m[x] # n
        <4>1. m[x] < n
          BY <3>1, <3>5, <1>0
        <4> QED BY <4>1, <3>3, <2>1, <2>4
      <3> QED BY <3>4, <3>5
    <2>6. Good(n + 1, k)
      BY <2>3, <2>5
    <2> HIDE DEF Good
    <2> QED BY <2>6
  <1>3. ASSUME NEW n \in Nat, NEW h, NEW k, Good(n, h), Good(n, k)
        PROVE  \A x \in D : m[x] < n => h[x] = k[x]
    <2> DEFINE U == {j \in Nat : j <= n => \A x \in D : m[x] < j => h[x] = k[x]}
    <2>1. 0 \in U
      BY <1>0
    <2>2. ASSUME NEW j \in Nat, j \in U
          PROVE  j + 1 \in U
      <3> SUFFICES ASSUME j + 1 <= n, NEW x \in D, m[x] < j + 1
                   PROVE  h[x] = k[x]
        OBVIOUS
      <3>1. \A y \in D : m[y] < m[x] => m[y] < j
        BY <1>0
      <3>2. \A y \in D : m[y] < m[x] => h[y] = k[y]
        BY <3>1, <2>2
      <3>3. G[<<x, h>>] = G[<<x, k>>]
        BY <3>2, <1>3
      <3>4. m[x] < n
        BY <1>0
      <3> QED BY <3>3, <3>4, <1>3
    <2> HIDE DEF U
    <2>3. n \in U
      BY <2>1, <2>2, NatSet
    <2> QED BY <2>3 DEF U
  <1>4. \A n \in Nat : \E h : Good(n, h)
    <2> HIDE DEF Good
    <2>1. Nat \subseteq T
      BY <1>1, <1>2, NatSet
    <2> QED BY <2>1
  <1>5. PICK H : H = [n \in Nat |-> CHOOSE h : Good(n, h)]
    OBVIOUS
  <1>6. \A n \in Nat : Good(n, H[n])
    <2> HIDE DEF Good
    <2> QED BY <1>4, <1>5
  <1>7. \A n, j \in Nat : n <= j => Good(n, H[j])
    BY <1>0, <1>6
  <1>8. PICK f : f = [x \in D |-> H[m[x] + 1][x]]
    OBVIOUS
  <1>9. \A x \in D : m[x] + 1 \in Nat /\ m[x] < m[x] + 1
    BY <1>0
  <1>10. f \in [D -> V]
    BY <1>6, <1>8, <1>9
  <1>11. ASSUME NEW x \in D
         PROVE  f[x] = G[<<x, f>>]
    <2>1. \A y \in D : m[y] < m[x] => f[y] = H[m[x] + 1][y]
      <3> SUFFICES ASSUME NEW y \in D, m[y] < m[x]
                   PROVE  f[y] = H[m[x] + 1][y]
        OBVIOUS
      <3>1. m[y] + 1 <= m[x] + 1
        BY <1>0
      <3>2. Good(m[y] + 1, H[m[x] + 1]) /\ Good(m[y] + 1, H[m[y] + 1])
        BY <3>1, <1>7, <1>9
      <3> HIDE DEF Good
      <3> QED BY <3>2, <1>3, <1>8, <1>9
    <2>2. H[m[x] + 1] \in [D -> V] /\ H[m[x] + 1][x] = G[<<x, H[m[x] + 1]>>]
      BY <1>6, <1>9
    <2>3. G[<<x, f>>] = G[<<x, H[m[x] + 1]>>]
      BY <2>1, <2>2, <1>10
    <2> QED BY <2>2, <2>3, <1>8
  <1> QED BY <1>10, <1>11

\* A fold over a finite set, that takes the elements in the order c chooses them.
Folding(S, c, V, base, G) ==
  /\ IsFiniteSet(S)
  /\ \A T \in SUBSET S : T # {} => c[T] \in T
  /\ base \in V
  /\ \A x \in S : \A v \in V : G[<<x, v>>] \in V

Solves(f, S, c, V, base, G) ==
  /\ f \in [SUBSET S -> V]
  /\ \A T \in SUBSET S : f[T] = IF T = {} THEN base ELSE G[<<c[T], f[T \ {c[T]}]>>]

LEMMA SetRecursion ==
  ASSUME NEW S, NEW c, NEW V, NEW base, NEW G, Folding(S, c, V, base, G)
  PROVE  \E f : Solves(f, S, c, V, base, G)
  <1>a. IsFiniteSet(S) /\ base \in V
    BY DEF Folding
  <1>b. \A T \in SUBSET S : T # {} => c[T] \in T
    BY DEF Folding
  <1>c. \A x \in S : \A v \in V : G[<<x, v>>] \in V
    BY DEF Folding
  <1> USE <1>a, <1>b, <1>c
  <1> DEFINE D == SUBSET S
             H == [p \in D \X [D -> V] |->
                     IF p[1] = {} THEN base ELSE G[<<c[p[1]], p[2][p[1] \ {c[p[1]]}]>>]]
  <1>1. PICK m : m = [T \in D |-> Cardinality(T)]
    OBVIOUS
  <1>2. \A T \in D : IsFiniteSet(T) /\ Cardinality(T) \in Nat
    BY FS_Subset, FS_CardinalityType
  <1>3. m \in [D -> Nat]
    BY <1>1, <1>2
  <1>4. \A T \in D : T # {} => /\ T \ {c[T]} \in D
                               /\ m[T \ {c[T]}] < m[T]
    <2> SUFFICES ASSUME NEW T \in D, T # {}
                 PROVE  T \ {c[T]} \in D /\ m[T \ {c[T]}] < m[T]
      OBVIOUS
    <2>1. c[T] \in T
      OBVIOUS
    <2>2. Cardinality(T \ {c[T]}) = Cardinality(T) - 1
      BY <2>1, <1>2, FS_RemoveElement
    <2>3. T \ {c[T]} \in D
      OBVIOUS
    <2> QED BY <2>2, <2>3, <1>1, <1>2
  <1>5. \A T \in D : \A h \in [D -> V] :
          H[<<T, h>>] = IF T = {} THEN base ELSE G[<<c[T], h[T \ {c[T]}]>>]
    <2> HIDE DEF D
    <2> QED OBVIOUS
  <1> HIDE DEF H
  <1>6. \A T \in D : \A h \in [D -> V] : H[<<T, h>>] \in V
    <2>a. ASSUME NEW T \in D, NEW h \in [D -> V], T = {}
          PROVE  H[<<T, h>>] \in V
      <3> HIDE DEF D
      <3> QED BY <2>a, <1>5
    <2>b. ASSUME NEW T \in D, NEW h \in [D -> V], T # {}
          PROVE  H[<<T, h>>] = G[<<c[T], h[T \ {c[T]}]>>]
      <3> HIDE DEF D
      <3> QED BY <2>b, <1>5
    <2> SUFFICES ASSUME NEW T \in D, NEW h \in [D -> V], T # {}
                 PROVE  G[<<c[T], h[T \ {c[T]}]>>] \in V
      <3> HIDE DEF D
      <3> QED BY <2>a, <2>b
    <2>1. c[T] \in S
      OBVIOUS
    <2> HIDE DEF D
    <2>2. h[T \ {c[T]}] \in V
      BY <1>4
    <2> QED BY <2>1, <2>2
  <1>7. \A T \in D : \A h, k \in [D -> V] :
          (\A U \in D : m[U] < m[T] => h[U] = k[U]) => H[<<T, h>>] = H[<<T, k>>]
    <2> SUFFICES ASSUME NEW T \in D, NEW h \in [D -> V], NEW k \in [D -> V],
                        \A U \in D : m[U] < m[T] => h[U] = k[U]
                 PROVE  H[<<T, h>>] = H[<<T, k>>]
      OBVIOUS
    <2>1. CASE T = {}
      BY <2>1, <1>5
    <2>2. CASE T # {}
      <3>1. h[T \ {c[T]}] = k[T \ {c[T]}]
        BY <2>2, <1>4
      <3>2. H[<<T, h>>] = G[<<c[T], h[T \ {c[T]}]>>]
        BY <2>2, <1>5
      <3>3. H[<<T, k>>] = G[<<c[T], k[T \ {c[T]}]>>]
        BY <2>2, <1>5
      <3> QED BY <3>1, <3>2, <3>3
    <2> QED BY <2>1, <2>2
  <1> HIDE DEF D
  <1>8. PICK f \in [D -> V] : \A T \in D : f[T] = H[<<T, f>>]
    <2>1. Measured(D, V, m, H)
      BY <1>3, <1>6, <1>7 DEF Measured
    <2> QED BY <2>1, RecursionExists
  <1>9. \A T \in D : f[T] = IF T = {} THEN base ELSE G[<<c[T], f[T \ {c[T]}]>>]
    BY <1>5, <1>8
  <1> QED BY <1>8, <1>9 DEF D, Solves

LEMMA UpTo ==
  ASSUME NEW n \in Nat
  PROVE  IsFiniteSet(1..n) /\ Cardinality(1..n) = n
  <1>1. 1 \in Int /\ n \in Int
    OBVIOUS
  <1>2. IsFiniteSet(1..n) /\ Cardinality(1..n) = IF 1 > n THEN 0 ELSE n - 1 + 1
    BY <1>1, FS_Interval
  <1> QED BY <1>2

LEMMA MaxIs ==
  ASSUME NEW T, T \subseteq Int, NEW x \in T, \A y \in T : x >= y
  PROVE  Max(T) = x
  <1>1. \A y \in T : (\A z \in T : y >= z) => y = x
    OBVIOUS
  <1> QED BY <1>1 DEF Max

LEMMA MaxIn ==
  ASSUME NEW n \in Nat, NEW T \in SUBSET (1..n), T # {}
  PROVE  Max(T) \in T /\ \A y \in T : Max(T) >= y
  <1> DEFINE B == {k \in Nat : \A y \in T : y <= k}
  <1>1. n \in B
    OBVIOUS
  <1>2. PICK k \in B : \A j \in B : k <= j
    <2>1. B \in SUBSET Nat /\ B # {}
      BY <1>1
    <2> HIDE DEF B
    <2> QED BY <2>1, LeastNat
  <1>3. k \in T
    <2> SUFFICES ASSUME k \notin T
                 PROVE  FALSE
      OBVIOUS
    <2>1. PICK y \in T : TRUE
      OBVIOUS
    <2>2. k > 0
      BY <2>1
    <2>3. k - 1 \in B
      BY <2>2
    <2> QED BY <2>3, <1>2
  <1>4. \A y \in T : k >= y
    OBVIOUS
  <1> QED BY <1>3, <1>4 DEF Max

LEMMA MinIn ==
  ASSUME NEW T \in SUBSET Nat, T # {}
  PROVE  Min(T) \in T /\ \A y \in T : Min(T) <= y
  <1>1. PICK n \in T : \A y \in T : n <= y
    BY LeastNat
  <1> QED BY <1>1 DEF Min

\* The sets a fold over a sequence goes through.
LEMMA LastOfUpTo ==
  ASSUME NEW k \in Nat
  PROVE  1..0 = {} /\ 1..(k + 1) # {} /\ Max(1..(k + 1)) = k + 1 /\ 1..(k + 1) \ {k + 1} = 1..k
  <1>1. Max(1..(k + 1)) = k + 1
    <2>1. 1..(k + 1) \subseteq Int /\ k + 1 \in 1..(k + 1) /\ \A y \in 1..(k + 1) : k + 1 >= y
      OBVIOUS
    <2> QED BY <2>1, MaxIs
  <1> QED BY <1>1

\* A fold over a sequence of n elements, from the first one on.
FoldingUp(n, V, base, G) ==
  /\ n \in Nat
  /\ base \in V
  /\ \A k \in 1..n : \A v \in V : G[<<k, v>>] \in V

SolvesUp(f, n, V, base, G) ==
  /\ f \in [SUBSET (1..n) -> V]
  /\ \A T \in SUBSET (1..n) :
       f[T] = IF T = {} THEN base ELSE G[<<Max(T), f[T \ {Max(T)}]>>]

LEMMA UpRecursion ==
  ASSUME NEW n, NEW V, NEW base, NEW G, FoldingUp(n, V, base, G)
  PROVE  \E f : SolvesUp(f, n, V, base, G)
  <1>1. n \in Nat
    BY DEF FoldingUp
  <1>2. PICK c : c = [T \in SUBSET (1..n) |-> Max(T)]
    OBVIOUS
  <1>3. \A T \in SUBSET (1..n) : T # {} => c[T] \in T
    BY <1>1, <1>2, MaxIn
  <1>4. Folding(1..n, c, V, base, G)
    BY <1>1, <1>3, UpTo DEF Folding, FoldingUp
  <1>5. PICK f : Solves(f, 1..n, c, V, base, G)
    BY <1>4, SetRecursion
  <1>6. \A T \in SUBSET (1..n) : c[T] = Max(T)
    BY <1>2
  <1>7. f \in [SUBSET (1..n) -> V]
    BY <1>5 DEF Solves
  <1>8. \A T \in SUBSET (1..n) :
          f[T] = IF T = {} THEN base ELSE G[<<Max(T), f[T \ {Max(T)}]>>]
    <2>1. \A T \in SUBSET (1..n) : f[T] = IF T = {} THEN base ELSE G[<<c[T], f[T \ {c[T]}]>>]
      BY <1>5 DEF Solves
    <2> QED BY <2>1, <1>6
  <1> QED BY <1>7, <1>8 DEF SolvesUp

\* What holds of 0 and goes on to the next number holds up to n.
LEMMA UpToSet ==
  ASSUME NEW n \in Nat, NEW T, 0 \in T, \A k \in 0..(n - 1) : k \in T => k + 1 \in T
  PROVE  \A k \in 0..n : k \in T
  <1> DEFINE U == {k \in Nat : k <= n => k \in T}
  <1>1. 0 \in U
    OBVIOUS
  <1>2. ASSUME NEW k \in Nat, k \in U
        PROVE  k + 1 \in U
    <2> SUFFICES ASSUME k + 1 <= n
                 PROVE  k + 1 \in T
      OBVIOUS
    <2>1. k \in 0..(n - 1) /\ k \in T
      BY <1>2
    <2> QED BY <2>1
  <1> HIDE DEF U
  <1>3. Nat \subseteq U
    BY <1>1, <1>2, NatSet
  <1> QED BY <1>3 DEF U

\* The values of a fold up to one element after the other.
LEMMA UpChain ==
  ASSUME NEW n \in Nat, NEW V, NEW base, NEW G, NEW f, SolvesUp(f, n, V, base, G)
  PROVE  \E p : /\ p \in [0..n -> V]
                /\ p[0] = base
                /\ \A k \in 0..(n - 1) : p[k + 1] = G[<<k + 1, p[k]>>]
                /\ p[n] = f[1..n]
  <1> DEFINE D == SUBSET (1..n)
  <1>1. f \in [D -> V] /\ f[{}] = base
    BY DEF SolvesUp
  <1>2. \A T \in D : T # {} => f[T] = G[<<Max(T), f[T \ {Max(T)}]>>]
    BY DEF SolvesUp
  <1>3. PICK p : p = [k \in 0..n |-> f[1..k]]
    OBVIOUS
  <1>4. p \in [0..n -> V]
    <2>1. \A k \in 0..n : 1..k \in D
      OBVIOUS
    <2> QED BY <2>1, <1>1, <1>3
  <1>5. p[0] = base
    BY <1>1, <1>3
  <1>6. ASSUME NEW k \in 0..(n - 1)
        PROVE  p[k + 1] = G[<<k + 1, p[k]>>]
    <2>1. k \in Nat /\ k \in 0..n /\ k + 1 \in 0..n /\ 1..(k + 1) \in D
      OBVIOUS
    <2>2. 1..(k + 1) # {} /\ Max(1..(k + 1)) = k + 1 /\ 1..(k + 1) \ {k + 1} = 1..k
      BY <2>1, LastOfUpTo
    <2>3. f[1..(k + 1)] = G[<<Max(1..(k + 1)), f[1..(k + 1) \ {Max(1..(k + 1))}]>>]
      BY <2>1, <2>2, <1>2
    <2>4. f[1..(k + 1)] = G[<<k + 1, f[1..k]>>]
      BY <2>2, <2>3
    <2>5. p[k + 1] = f[1..(k + 1)] /\ p[k] = f[1..k]
      BY <2>1, <1>3
    <2> QED BY <2>4, <2>5
  <1>7. p[n] = f[1..n]
    BY <1>3
  <1> QED BY <1>4, <1>5, <1>6, <1>7

\* A set of subsets of S that a set is in with its subsets of one element less.
LEMMA SubsetInduction ==
  ASSUME NEW S, IsFiniteSet(S), NEW F,
         \A T \in SUBSET S : (\A x \in T : T \ {x} \in F) => T \in F
  PROVE  S \in F
  <1> DEFINE U == {n \in Nat : \A T \in SUBSET S : Cardinality(T) = n => T \in F}
  <1>1. \A T \in SUBSET S : /\ IsFiniteSet(T) /\ Cardinality(T) \in Nat
                           /\ \A x \in T : Cardinality(T \ {x}) = Cardinality(T) - 1
    BY FS_Subset, FS_CardinalityType, FS_RemoveElement
  <1>2. 0 \in U
    <2> SUFFICES ASSUME NEW T \in SUBSET S, Cardinality(T) = 0
                 PROVE  T \in F
      OBVIOUS
    <2>1. T = {}
      BY <1>1, FS_EmptySet
    <2> QED BY <2>1
  <1>3. ASSUME NEW n \in Nat, n \in U
        PROVE  n + 1 \in U
    <2> SUFFICES ASSUME NEW T \in SUBSET S, Cardinality(T) = n + 1, NEW x \in T
                 PROVE  T \ {x} \in F
      OBVIOUS
    <2>1. Cardinality(T \ {x}) = n /\ T \ {x} \in SUBSET S
      BY <1>1
    <2> QED BY <2>1, <1>3
  <1> HIDE DEF U
  <1>4. Nat \subseteq U
    BY <1>2, <1>3, NatSet
  <1>5. Cardinality(S) \in U
    BY <1>1, <1>4
  <1> QED BY <1>5 DEF U

\* Two folds that go on in the same way are the same.
LEMMA UpUnique ==
  ASSUME NEW n \in Nat, NEW f, NEW g, f[{}] = g[{}],
         \A T \in SUBSET (1..n) :
           T # {} /\ f[T \ {Max(T)}] = g[T \ {Max(T)}] => f[T] = g[T]
  PROVE  f[1..n] = g[1..n]
  <1> DEFINE S == 1..n
             F == {T \in SUBSET S : f[T] = g[T]}
  <1>1. ASSUME NEW T \in SUBSET S, \A x \in T : T \ {x} \in F
        PROVE  T \in F
    <2>1. CASE T = {}
      BY <2>1
    <2>2. CASE T # {}
      <3>1. Max(T) \in T
        BY <2>2, MaxIn
      <3>2. T \ {Max(T)} \in F
        BY <3>1, <1>1
      <3>3. f[T \ {Max(T)}] = g[T \ {Max(T)}]
        BY <3>2
      <3>4. f[T] = g[T]
        BY <2>2, <3>3
      <3> QED BY <3>4
    <2> QED BY <2>1, <2>2
  <1>2. IsFiniteSet(S)
    BY UpTo
  <1> HIDE DEF F, S
  <1>3. S \in F
    BY <1>1, <1>2, SubsetInduction
  <1> QED BY <1>3 DEF F, S

-----------------------------------------------------------------------------
(* Sequences                                                               *)

LEMMA FunctionIsSeq ==
  ASSUME NEW S, NEW n \in Nat, NEW s \in [1..n -> S]
  PROVE  s \in Seq(S) /\ Len(s) = n /\ DOMAIN s = 1..n
  <1>1. s \in Seq(S)
    BY IsASeq
  <1>2. DOMAIN s = 1..n /\ Len(s) \in Nat /\ DOMAIN s = 1..Len(s)
    BY <1>1, LenProperties
  <1> QED BY <1>1, <1>2

LEMMA ConcatSet ==
  ASSUME NEW X, NEW s \in Seq(X), NEW t \in Seq(X)
  PROVE  /\ s \o t \in Seq(X)
         /\ Len(s \o t) = Len(s) + Len(t)
         /\ ToSet(s \o t) = ToSet(s) \cup ToSet(t)
  <1>1. /\ s \o t \in Seq(X) /\ Len(s \o t) = Len(s) + Len(t)
        /\ \A i \in 1..(Len(s) + Len(t)) : (s \o t)[i] = IF i <= Len(s) THEN s[i] ELSE t[i - Len(s)]
    BY ConcatProperties
  <1>2. Len(s) \in Nat /\ Len(t) \in Nat /\ DOMAIN s = 1..Len(s) /\ DOMAIN t = 1..Len(t)
        /\ DOMAIN (s \o t) = 1..(Len(s) + Len(t))
    BY <1>1, LenProperties
  <1>3. ASSUME NEW x \in ToSet(s \o t)
        PROVE  x \in ToSet(s) \cup ToSet(t)
    <2>1. PICK i \in 1..(Len(s) + Len(t)) : x = (s \o t)[i]
      BY <1>2 DEF ToSet
    <2>2. CASE i <= Len(s)
      BY <2>1, <2>2, <1>1, <1>2 DEF ToSet
    <2>3. CASE ~ (i <= Len(s))
      <3>1. i - Len(s) \in 1..Len(t) /\ x = t[i - Len(s)]
        BY <2>1, <2>3, <1>1, <1>2
      <3> QED BY <3>1, <1>2 DEF ToSet
    <2> QED BY <2>2, <2>3
  <1>4. ASSUME NEW x \in ToSet(s)
        PROVE  x \in ToSet(s \o t)
    <2>1. PICK i \in 1..Len(s) : x = s[i]
      BY <1>2 DEF ToSet
    <2>2. i \in 1..(Len(s) + Len(t)) /\ (s \o t)[i] = x
      BY <2>1, <1>1, <1>2
    <2> QED BY <2>2, <1>2 DEF ToSet
  <1>5. ASSUME NEW x \in ToSet(t)
        PROVE  x \in ToSet(s \o t)
    <2>1. PICK i \in 1..Len(t) : x = t[i]
      BY <1>2 DEF ToSet
    <2>2. i + Len(s) \in 1..(Len(s) + Len(t)) /\ ~ (i + Len(s) <= Len(s)) /\ (i + Len(s)) - Len(s) = i
      BY <1>2
    <2>3. (s \o t)[i + Len(s)] = x
      BY <2>1, <2>2, <1>1
    <2> QED BY <2>2, <2>3, <1>2 DEF ToSet
  <1> QED BY <1>1, <1>3, <1>4, <1>5

LEMMA ConcatInjective ==
  ASSUME NEW X, NEW s \in Seq(X), NEW t \in Seq(X), IsInjective(s), IsInjective(t),
         ToSet(s) \cap ToSet(t) = {}
  PROVE  IsInjective(s \o t)
  <1>1. /\ s \o t \in Seq(X) /\ Len(s \o t) = Len(s) + Len(t)
        /\ \A i \in 1..(Len(s) + Len(t)) : (s \o t)[i] = IF i <= Len(s) THEN s[i] ELSE t[i - Len(s)]
    BY ConcatProperties
  <1>2. Len(s) \in Nat /\ Len(t) \in Nat /\ DOMAIN s = 1..Len(s) /\ DOMAIN t = 1..Len(t)
        /\ DOMAIN (s \o t) = 1..(Len(s) + Len(t))
    BY <1>1, LenProperties
  <1>3. ASSUME NEW i \in DOMAIN (s \o t), NEW j \in DOMAIN (s \o t), (s \o t)[i] = (s \o t)[j],
               i <= Len(s)
        PROVE  i = j
    <2>1. i \in DOMAIN s /\ (s \o t)[i] = s[i]
      BY <1>1, <1>2, <1>3
    <2>2. j <= Len(s)
      <3> SUFFICES ASSUME ~ (j <= Len(s))
                   PROVE  FALSE
        OBVIOUS
      <3>1. j - Len(s) \in DOMAIN t /\ (s \o t)[j] = t[j - Len(s)]
        BY <1>1, <1>2
      <3>2. s[i] \in ToSet(s) /\ s[i] \in ToSet(t)
        BY <2>1, <3>1, <1>3 DEF ToSet
      <3> QED BY <3>2
    <2>3. j \in DOMAIN s /\ (s \o t)[j] = s[j]
      BY <2>2, <1>1, <1>2
    <2> QED BY <2>1, <2>3, <1>3 DEF IsInjective
  <1>4. ASSUME NEW i \in DOMAIN (s \o t), NEW j \in DOMAIN (s \o t), (s \o t)[i] = (s \o t)[j],
               ~ (i <= Len(s)), ~ (j <= Len(s))
        PROVE  i = j
    <2>1. i - Len(s) \in DOMAIN t /\ (s \o t)[i] = t[i - Len(s)]
      BY <1>1, <1>2, <1>4
    <2>2. j - Len(s) \in DOMAIN t /\ (s \o t)[j] = t[j - Len(s)]
      BY <1>1, <1>2, <1>4
    <2>3. i - Len(s) = j - Len(s)
      BY <2>1, <2>2, <1>4 DEF IsInjective
    <2>4. i \in Nat /\ j \in Nat
      BY <1>2
    <2> QED BY <2>3, <2>4, <1>2
  <1> QED BY <1>3, <1>4 DEF IsInjective

LEMMA AppendSet ==
  ASSUME NEW X, NEW s \in Seq(X), NEW x \in X
  PROVE  /\ Append(s, x) \in Seq(X)
         /\ Len(Append(s, x)) = Len(s) + 1
         /\ ToSet(Append(s, x)) = ToSet(s) \cup {x}
         /\ IsInjective(s) /\ x \notin ToSet(s) => IsInjective(Append(s, x))
  <1>1. /\ Append(s, x) \in Seq(X) /\ Len(Append(s, x)) = Len(s) + 1
        /\ \A i \in 1..Len(s) : Append(s, x)[i] = s[i]
        /\ Append(s, x)[Len(s) + 1] = x
    BY AppendProperties
  <1>2. Len(s) \in Nat /\ DOMAIN s = 1..Len(s) /\ DOMAIN Append(s, x) = 1..(Len(s) + 1)
    BY <1>1, LenProperties
  <1>3. 1..(Len(s) + 1) = 1..Len(s) \cup {Len(s) + 1}
    BY <1>2
  <1>4. ToSet(Append(s, x)) = ToSet(s) \cup {x}
    BY <1>1, <1>2, <1>3 DEF ToSet
  <1>5. IsInjective(s) /\ x \notin ToSet(s) => IsInjective(Append(s, x))
    <2> SUFFICES ASSUME IsInjective(s), x \notin ToSet(s),
                        NEW i \in 1..(Len(s) + 1), NEW j \in 1..(Len(s) + 1),
                        Append(s, x)[i] = Append(s, x)[j]
                 PROVE  i = j
      BY <1>2 DEF IsInjective
    <2>1. \A k \in 1..Len(s) : s[k] # x
      BY <1>2 DEF ToSet
    <2>2. CASE i = Len(s) + 1
      <3>1. j \in 1..Len(s) \/ j = Len(s) + 1
        BY <1>3
      <3> QED BY <2>1, <2>2, <3>1, <1>1
    <2>3. CASE i \in 1..Len(s)
      <3>1. j \in 1..Len(s)
        BY <2>1, <2>3, <1>1, <1>3
      <3> QED BY <2>3, <3>1, <1>1, <1>2 DEF IsInjective
    <2> QED BY <2>2, <2>3, <1>3
  <1> QED BY <1>1, <1>4, <1>5

-----------------------------------------------------------------------------
(* FlattenSeq                                                              *)

FlattenStep(ss, h) ==
  [i \in 1..Len(ss) |-> IF i = 1 THEN ss[i] ELSE h[i - 1] \o ss[i]]

Flattened(ss) == CHOOSE h : h = FlattenStep(ss, h)

LEMMA FlattenedIs ==
  ASSUME NEW ss, Len(ss) # 0
  PROVE  FlattenSeq(ss) = Flattened(ss)[Len(ss)]
  BY DEF FlattenSeq, Flattened, FlattenStep

LEMMA FlattenedSteps ==
  ASSUME NEW X, NEW ss \in Seq(Seq(X))
  PROVE  \A i \in 1..Len(ss) :
           Flattened(ss)[i] = IF i = 1 THEN ss[i] ELSE Flattened(ss)[i - 1] \o ss[i]
  <1> DEFINE D == 1..Len(ss)
             V == Seq(X)
             H == [p \in D \X [D -> V] |-> IF p[1] = 1 THEN ss[p[1]] ELSE p[2][p[1] - 1] \o ss[p[1]]]
  <1>1. Len(ss) \in Nat /\ \A i \in D : ss[i] \in V
    OBVIOUS
  <1>2. PICK m : m = [i \in D |-> i]
    OBVIOUS
  <1>3. m \in [D -> Nat] /\ \A i \in D : i # 1 => i - 1 \in D /\ m[i - 1] < m[i]
    BY <1>1, <1>2
  <1>4. \A i \in D : \A h \in [D -> V] :
          H[<<i, h>>] = IF i = 1 THEN ss[i] ELSE h[i - 1] \o ss[i]
    OBVIOUS
  <1> HIDE DEF H
  <1>5. \A i \in D : \A h \in [D -> V] : H[<<i, h>>] \in V
    <2> SUFFICES ASSUME NEW i \in D, NEW h \in [D -> V]
                 PROVE  H[<<i, h>>] \in V
      OBVIOUS
    <2>1. CASE i = 1
      BY <2>1, <1>1, <1>4
    <2>2. CASE i # 1
      <3>1. h[i - 1] \in Seq(X) /\ ss[i] \in Seq(X)
        BY <2>2, <1>1, <1>3
      <3>2. h[i - 1] \o ss[i] \in Seq(X)
        BY <3>1
      <3> QED BY <2>2, <3>2, <1>4
    <2> QED BY <2>1, <2>2
  <1>6. \A i \in D : \A h, k \in [D -> V] :
          (\A j \in D : m[j] < m[i] => h[j] = k[j]) => H[<<i, h>>] = H[<<i, k>>]
    <2> SUFFICES ASSUME NEW i \in D, NEW h \in [D -> V], NEW k \in [D -> V],
                        \A j \in D : m[j] < m[i] => h[j] = k[j]
                 PROVE  H[<<i, h>>] = H[<<i, k>>]
      OBVIOUS
    <2>1. CASE i = 1
      BY <2>1, <1>4
    <2>2. CASE i # 1
      <3>1. h[i - 1] = k[i - 1]
        BY <2>2, <1>3
      <3>2. H[<<i, h>>] = h[i - 1] \o ss[i]
        BY <2>2, <1>4
      <3>3. H[<<i, k>>] = k[i - 1] \o ss[i]
        BY <2>2, <1>4
      <3> QED BY <3>1, <3>2, <3>3
    <2> QED BY <2>1, <2>2
  <1>7. Measured(D, V, m, H)
    <2>1. << >> \in V
      OBVIOUS
    <2> HIDE DEF D, V
    <2> QED BY <2>1, <1>3, <1>5, <1>6 DEF Measured
  <1>8. PICK f \in [D -> V] : \A i \in D : f[i] = H[<<i, f>>]
    <2> HIDE DEF D, V
    <2> QED BY <1>7, RecursionExists
  <1>9. \A i \in D : f[i] = IF i = 1 THEN ss[i] ELSE f[i - 1] \o ss[i]
    BY <1>4, <1>8
  <1>10. f = FlattenStep(ss, f)
    BY <1>9 DEF FlattenStep
  <1>11. Flattened(ss) = FlattenStep(ss, Flattened(ss))
    BY <1>10 DEF Flattened
  <1>12. PICK g : g = Flattened(ss)
    OBVIOUS
  <1>13. g = FlattenStep(ss, g)
    BY <1>11, <1>12
  <1>14. \A i \in D : g[i] = IF i = 1 THEN ss[i] ELSE g[i - 1] \o ss[i]
    BY <1>13 DEF FlattenStep
  <1> QED BY <1>12, <1>14

LEMMA FlattenHas ==
  ASSUME NEW X, NEW ss \in Seq(Seq(X))
  PROVE  /\ FlattenSeq(ss) \in Seq(X)
         /\ ToSet(FlattenSeq(ss)) = UNION {ToSet(ss[i]) : i \in DOMAIN ss}
         /\ \A c \in Nat : (\A i \in DOMAIN ss : Len(ss[i]) = c) => Len(FlattenSeq(ss)) = Len(ss) * c
         /\ (\A i \in DOMAIN ss : IsInjective(ss[i])) /\
            (\A i, j \in DOMAIN ss : i # j => ToSet(ss[i]) \cap ToSet(ss[j]) = {})
              => IsInjective(FlattenSeq(ss))
  <1> DEFINE n == Len(ss)
             Distinct == (\A i \in 1..n : IsInjective(ss[i])) /\
                         (\A i, j \in 1..n : i # j => ToSet(ss[i]) \cap ToSet(ss[j]) = {})
  <1>1. n \in Nat /\ DOMAIN ss = 1..n /\ \A i \in 1..n : ss[i] \in Seq(X)
    BY LenProperties, ElementOfSeq
  <1>2. CASE n = 0
    <2>1. ss = << >>
      BY <1>2, EmptySeq
    <2>2. FlattenSeq(ss) = << >>
      BY <1>2, <2>1 DEF FlattenSeq
    <2>3. DOMAIN ss = {} /\ Len(ss) * 0 = 0 /\ DOMAIN << >> = {}
      BY <1>1, <1>2
    <2>4. \A c \in Nat : Len(ss) * c = 0
      BY <1>2
    <2>5. Len(<< >>) = 0 /\ << >> \in Seq(X)
      OBVIOUS
    <2>6. ToSet(<< >>) = {} /\ IsInjective(<< >>)
      BY <2>3 DEF ToSet, IsInjective
    <2> QED BY <2>2, <2>3, <2>4, <2>5, <2>6
  <1>3. CASE n # 0
    <2>1. PICK g : g = Flattened(ss)
      OBVIOUS
    <2>2. \A i \in 1..n : g[i] = IF i = 1 THEN ss[i] ELSE g[i - 1] \o ss[i]
      BY <2>1, FlattenedSteps
    <2>3. FlattenSeq(ss) = g[n]
      BY <1>3, <2>1, FlattenedIs
    <2> DEFINE Right(k) ==
                 /\ g[k] \in Seq(X)
                 /\ \A x : x \in ToSet(g[k]) <=> \E i \in 1..k : x \in ToSet(ss[i])
                 /\ \A c \in Nat : (\A i \in 1..n : Len(ss[i]) = c) => Len(g[k]) = k * c
                 /\ Distinct => IsInjective(g[k])
               T == {k \in 0..n : k # 0 => Right(k)}
    <2>4. ASSUME NEW k \in 0..(n - 1), k \in T
          PROVE  k + 1 \in T
      <3>1. k + 1 \in 1..n /\ k + 1 \in 0..n /\ k \in Nat
        BY <1>1
      <3>2. ss[k + 1] \in Seq(X)
        BY <3>1, <1>1
      <3>3. CASE k = 0
        <4>1. g[k + 1] = ss[k + 1] /\ k + 1 = 1 /\ 1..(k + 1) = {1}
          BY <3>1, <3>3, <2>2
        <4>2. \A c \in Nat : (k + 1) * c = c
          BY <4>1
        <4>3. Right(k + 1)
          BY <3>1, <3>2, <4>1, <4>2
        <4> HIDE DEF Right
        <4> QED BY <3>1, <4>3
      <3>4. CASE k # 0
        <4>1. g[k + 1] = g[k] \o ss[k + 1]
          <5>1. (k + 1) - 1 = k /\ k + 1 # 1
            BY <3>1, <3>4
          <5>2. g[k + 1] = g[(k + 1) - 1] \o ss[k + 1]
            BY <5>1, <3>1, <2>2
          <5> QED BY <5>1, <5>2
        <4>2. Right(k)
          BY <3>4, <2>4
        <4>3. /\ g[k + 1] \in Seq(X) /\ Len(g[k + 1]) = Len(g[k]) + Len(ss[k + 1])
              /\ ToSet(g[k + 1]) = ToSet(g[k]) \cup ToSet(ss[k + 1])
          BY <4>1, <4>2, <3>2, ConcatSet
        <4>4. 1..(k + 1) = 1..k \cup {k + 1}
          BY <3>1
        <4>5. \A x : x \in ToSet(g[k + 1]) <=> \E i \in 1..(k + 1) : x \in ToSet(ss[i])
          BY <4>2, <4>3, <4>4
        <4>6. ASSUME NEW c \in Nat, \A i \in 1..n : Len(ss[i]) = c
              PROVE  Len(g[k + 1]) = (k + 1) * c
          <5>1. Len(g[k]) = k * c
            BY <4>2, <4>6
          <5>2. Len(ss[k + 1]) = c
            BY <3>1, <4>6
          <5>3. k * c + c = (k + 1) * c
            BY <3>1
          <5> QED BY <5>1, <5>2, <5>3, <4>3
        <4>7. ASSUME Distinct
              PROVE  IsInjective(g[k + 1])
          <5>1. IsInjective(g[k]) /\ IsInjective(ss[k + 1])
            BY <4>7, <4>2, <3>1
          <5>2. ToSet(g[k]) \cap ToSet(ss[k + 1]) = {}
            <6> SUFFICES ASSUME NEW x, x \in ToSet(g[k]), x \in ToSet(ss[k + 1])
                         PROVE  FALSE
              OBVIOUS
            <6>1. PICK i \in 1..k : x \in ToSet(ss[i])
              BY <4>2
            <6>2. i # k + 1 /\ i \in 1..n
              BY <3>1
            <6> QED BY <6>1, <6>2, <3>1, <4>7
          <5> QED BY <5>1, <5>2, <4>1, <4>2, <3>2, ConcatInjective
        <4>8. Right(k + 1)
          <5> HIDE DEF Distinct
          <5> QED BY <4>3, <4>5, <4>6, <4>7
        <4> HIDE DEF Right
        <4> QED BY <3>1, <4>8
      <3> QED BY <3>3, <3>4
    <2>5. 0 \in T
      BY <1>1
    <2> HIDE DEF T
    <2>6. \A k \in 0..n : k \in T
      <3> HIDE DEF n
      <3> QED BY <2>4, <2>5, <1>1, UpToSet
    <2>7. n \in 0..n
      BY <1>1
    <2>8. Right(n)
      <3> HIDE DEF Right
      <3> QED BY <1>3, <2>6, <2>7 DEF T
    <2>9. ToSet(FlattenSeq(ss)) = UNION {ToSet(ss[i]) : i \in 1..n}
      BY <2>8, <2>3
    <2> HIDE DEF n
    <2> QED BY <2>3, <2>8, <2>9, <1>1 DEF n
  <1> QED BY <1>2, <1>3

-----------------------------------------------------------------------------
(* Products                                                                *)

\* Every query so far goes on with every candidate of the next word.
Extended(ps, list) ==
  FlattenSeq([i \in DOMAIN ps |-> [j \in DOMAIN list |-> Append(ps[i], list[j])]])

ProductStep(lists, h) ==
  [T \in SUBSET (DOMAIN lists) |->
     IF T = {} THEN << << >> >> ELSE Extended(h[T \ {Max(T)}], lists[Max(T)])]

ProductFold(lists) == CHOOSE h : h = ProductStep(lists, h)

LEMMA ProductsIs ==
  ASSUME NEW lists
  PROVE  Products(lists) = ProductFold(lists)[DOMAIN lists]
  BY DEF Products, FoldLeft, MapThenFoldSet, ProductFold, ProductStep, Extended

LEMMA LastAppended ==
  ASSUME NEW W, NEW p \in Seq(W), NEW q \in Seq(W), NEW x \in W, NEW y \in W,
         Append(p, x) = Append(q, y)
  PROVE  p = q /\ x = y
  BY AppendInjective

OneMore(ps, list, more) ==
  \A y : y \in ToSet(more) <=> \E p \in ToSet(ps) : \E x \in ToSet(list) : y = Append(p, x)

LEMMA ExtendedHas ==
  ASSUME NEW W, NEW ps \in Seq(Seq(W)), NEW list \in Seq(W)
  PROVE  /\ Extended(ps, list) \in Seq(Seq(W))
         /\ OneMore(ps, list, Extended(ps, list))
         /\ Len(Extended(ps, list)) = Len(ps) * Len(list)
         /\ IsInjective(ps) /\ IsInjective(list) => IsInjective(Extended(ps, list))
  <1>1. Len(ps) \in Nat /\ DOMAIN ps = 1..Len(ps) /\ Len(list) \in Nat /\ DOMAIN list = 1..Len(list)
    BY LenProperties
  <1>2. (\A i \in DOMAIN ps : ps[i] \in Seq(W)) /\ (\A j \in DOMAIN list : list[j] \in W)
    BY <1>1, ElementOfSeq
  <1>3. PICK ss : ss = [i \in DOMAIN ps |-> [j \in DOMAIN list |-> Append(ps[i], list[j])]]
    OBVIOUS
  <1>4. DOMAIN ss = DOMAIN ps /\ \A i \in DOMAIN ps :
          ss[i] = [j \in DOMAIN list |-> Append(ps[i], list[j])]
    BY <1>3
  <1>5. \A i \in DOMAIN ps : /\ ss[i] \in Seq(Seq(W)) /\ Len(ss[i]) = Len(list)
                             /\ DOMAIN ss[i] = DOMAIN list
                             /\ \A j \in DOMAIN list : ss[i][j] = Append(ps[i], list[j])
    <2> SUFFICES ASSUME NEW i \in DOMAIN ps
                 PROVE  /\ ss[i] \in Seq(Seq(W)) /\ Len(ss[i]) = Len(list)
                        /\ DOMAIN ss[i] = DOMAIN list
                        /\ \A j \in DOMAIN list : ss[i][j] = Append(ps[i], list[j])
      OBVIOUS
    <2>1. \A j \in DOMAIN list : Append(ps[i], list[j]) \in Seq(W)
      BY <1>2, AppendProperties
    <2>2. DOMAIN ss[i] = DOMAIN list /\ \A j \in DOMAIN list : ss[i][j] = Append(ps[i], list[j])
      BY <1>4
    <2>3. ss[i] \in [1..Len(list) -> Seq(W)]
      BY <1>1, <1>4, <2>1
    <2>4. ss[i] \in Seq(Seq(W)) /\ Len(ss[i]) = Len(list)
      <3> DEFINE V == Seq(W)
                 t == ss[i]
                 n == Len(list)
      <3>1. t \in [1..n -> V] /\ n \in Nat
        BY <2>3, <1>1
      <3> HIDE DEF V, t, n
      <3>2. t \in Seq(V) /\ Len(t) = n
        BY <3>1, FunctionIsSeq
      <3> QED BY <3>2 DEF V, t, n
    <2> QED BY <2>2, <2>4
  <1>6. ss \in Seq(Seq(Seq(W))) /\ Len(ss) = Len(ps)
    <2>1. ss \in [1..Len(ps) -> Seq(Seq(W))]
      BY <1>1, <1>3, <1>5
    <2> DEFINE V == Seq(Seq(W))
               n == Len(ps)
    <2>2. ss \in [1..n -> V] /\ n \in Nat
      BY <2>1, <1>1
    <2> HIDE DEF V, n
    <2>3. ss \in Seq(V) /\ Len(ss) = n
      BY <2>2, FunctionIsSeq
    <2> QED BY <2>3 DEF V, n
  <1>7. Extended(ps, list) = FlattenSeq(ss)
    BY <1>3 DEF Extended
  <1>8. Extended(ps, list) \in Seq(Seq(W)) /\ Len(Extended(ps, list)) = Len(ps) * Len(list)
    BY <1>1, <1>4, <1>5, <1>6, <1>7, FlattenHas
  <1>9. ToSet(Extended(ps, list)) = UNION {ToSet(ss[i]) : i \in DOMAIN ps}
    BY <1>4, <1>6, <1>7, FlattenHas
  <1>10. \A i \in DOMAIN ps : ToSet(ss[i]) = {Append(ps[i], x) : x \in ToSet(list)}
    <2> SUFFICES ASSUME NEW i \in DOMAIN ps
                 PROVE  ToSet(ss[i]) = {Append(ps[i], x) : x \in ToSet(list)}
      OBVIOUS
    <2>1. DOMAIN ss[i] = DOMAIN list /\ \A j \in DOMAIN list : ss[i][j] = Append(ps[i], list[j])
      BY <1>5
    <2>2. ToSet(ss[i]) = {Append(ps[i], list[j]) : j \in DOMAIN list}
      BY <2>1 DEF ToSet
    <2> QED BY <2>2 DEF ToSet
  <1>11. \A y : y \in ToSet(Extended(ps, list)) <=>
                \E p \in ToSet(ps) : \E x \in ToSet(list) : y = Append(p, x)
    <2>1. \A y : y \in ToSet(Extended(ps, list)) <=>
                 \E i \in DOMAIN ps : \E x \in ToSet(list) : y = Append(ps[i], x)
      BY <1>9, <1>10
    <2>2. PICK P, L : P = ToSet(ps) /\ L = ToSet(list)
      OBVIOUS
    <2>3. \A p : p \in P <=> \E i \in DOMAIN ps : p = ps[i]
      BY <2>2 DEF ToSet
    <2>4. \A y : y \in ToSet(Extended(ps, list)) <=> \E p \in P : \E x \in L : y = Append(p, x)
      BY <2>1, <2>2, <2>3
    <2> QED BY <2>2, <2>4
  <1>12. ASSUME IsInjective(ps), IsInjective(list)
         PROVE  IsInjective(Extended(ps, list))
    <2>1. \A i \in DOMAIN ps : IsInjective(ss[i])
      <3>1. ASSUME NEW i \in DOMAIN ps, NEW j \in DOMAIN ss[i], NEW k \in DOMAIN ss[i],
                   ss[i][j] = ss[i][k]
            PROVE  j = k
        <4>1. j \in DOMAIN list /\ k \in DOMAIN list
          BY <1>5
        <4>2. Append(ps[i], list[j]) = Append(ps[i], list[k])
          BY <3>1, <4>1, <1>5
        <4>3. list[j] = list[k]
          BY <4>1, <4>2, <1>2, LastAppended
        <4> QED BY <4>1, <4>3, <1>12 DEF IsInjective
      <3> QED BY <3>1 DEF IsInjective
    <2>2. \A i, k \in DOMAIN ps : i # k => ToSet(ss[i]) \cap ToSet(ss[k]) = {}
      <3> SUFFICES ASSUME NEW i \in DOMAIN ps, NEW k \in DOMAIN ps, NEW y,
                          y \in ToSet(ss[i]), y \in ToSet(ss[k])
                   PROVE  i = k
        OBVIOUS
      <3>1. PICK a \in ToSet(list) : y = Append(ps[i], a)
        BY <1>10
      <3>2. PICK b \in ToSet(list) : y = Append(ps[k], b)
        BY <1>10
      <3>3. a \in W /\ b \in W
        BY <1>2 DEF ToSet
      <3>4. ps[i] = ps[k]
        <4>1. PICK p \in Seq(W) : p = ps[i]
          BY <1>2
        <4>2. PICK q \in Seq(W) : q = ps[k]
          BY <1>2
        <4>3. Append(p, a) = Append(q, b)
          BY <3>1, <3>2, <4>1, <4>2
        <4>4. p = q
          BY <3>3, <4>3, LastAppended
        <4> QED BY <4>1, <4>2, <4>4
      <3> QED BY <3>4, <1>12 DEF IsInjective
    <2> QED BY <2>1, <2>2, <1>4, <1>6, <1>7, FlattenHas
  <1> QED BY <1>8, <1>11, <1>12 DEF OneMore

LEMMA ProductChain ==
  ASSUME NEW W, NEW lists \in Seq(Seq(W))
  PROVE  \E p : /\ p[0] = << << >> >>
                /\ \A k \in 0..(Len(lists) - 1) : p[k + 1] = Extended(p[k], lists[k + 1])
                /\ Products(lists) = p[Len(lists)]
  <1> DEFINE n == Len(lists)
             V == Seq(Seq(W))
             G == [x \in (1..n) \X V |-> Extended(x[2], lists[x[1]])]
             D == SUBSET (1..n)
  <1>1. n \in Nat /\ DOMAIN lists = 1..n /\ \A i \in 1..n : lists[i] \in Seq(W)
    BY LenProperties, ElementOfSeq
  <1>2. << << >> >> \in V
    OBVIOUS
  <1>3. \A k \in 1..n : \A v \in V : G[<<k, v>>] = Extended(v, lists[k]) /\ G[<<k, v>>] \in V
    <2>1. \A k \in 1..n : \A v \in V : G[<<k, v>>] = Extended(v, lists[k])
      OBVIOUS
    <2>2. \A k \in 1..n : \A v \in V : Extended(v, lists[k]) \in V
      BY <1>1, ExtendedHas
    <2> QED BY <2>1, <2>2
  <1> HIDE DEF G
  <1>4. FoldingUp(n, V, << << >> >>, G)
    <2> HIDE DEF n, V
    <2> QED BY <1>1, <1>2, <1>3 DEF FoldingUp
  <1>5. PICK f : SolvesUp(f, n, V, << << >> >>, G)
    <2> HIDE DEF n, V
    <2> QED BY <1>4, UpRecursion
  <1>6. f \in [D -> V] /\ \A T \in D :
           f[T] = IF T = {} THEN << << >> >> ELSE G[<<Max(T), f[T \ {Max(T)}]>>]
    BY <1>5 DEF SolvesUp
  <1>7. \A T \in D : T # {} => /\ Max(T) \in 1..n /\ T \ {Max(T)} \in D
                               /\ f[T] = Extended(f[T \ {Max(T)}], lists[Max(T)])
    <2> SUFFICES ASSUME NEW T \in D, T # {}
                 PROVE  /\ Max(T) \in 1..n /\ T \ {Max(T)} \in D
                        /\ f[T] = Extended(f[T \ {Max(T)}], lists[Max(T)])
      OBVIOUS
    <2>1. Max(T) \in T
      BY <1>1, MaxIn
    <2>2. Max(T) \in 1..n /\ T \ {Max(T)} \in D
      BY <2>1
    <2>3. f[T \ {Max(T)}] \in V
      BY <2>2, <1>6
    <2> HIDE DEF n, V, D
    <2> QED BY <2>2, <2>3, <1>3, <1>6
  <1>8. f = ProductStep(lists, f)
    <2>1. \A T \in D : f[T] = IF T = {} THEN << << >> >> ELSE Extended(f[T \ {Max(T)}], lists[Max(T)])
      BY <1>6, <1>7
    <2>2. ProductStep(lists, f) =
            [T \in D |-> IF T = {} THEN << << >> >> ELSE Extended(f[T \ {Max(T)}], lists[Max(T)])]
      BY <1>1 DEF ProductStep
    <2> HIDE DEF D
    <2> QED BY <2>1, <2>2, <1>6
  <1>9. PICK g : g = ProductFold(lists)
    OBVIOUS
  <1>10. g = ProductStep(lists, g)
    BY <1>8, <1>9 DEF ProductFold
  <1>11. \A T \in D : g[T] = IF T = {} THEN << << >> >> ELSE Extended(g[T \ {Max(T)}], lists[Max(T)])
    BY <1>1, <1>10 DEF ProductStep
  <1>12. f[1..n] = g[1..n]
    <2>1. f[{}] = g[{}]
      BY <1>6, <1>11
    <2>2. \A T \in D : T # {} /\ f[T \ {Max(T)}] = g[T \ {Max(T)}] => f[T] = g[T]
      BY <1>7, <1>11
    <2> QED BY <2>1, <2>2, <1>1, UpUnique
  <1>13. PICK p : /\ p \in [0..n -> V]
                  /\ p[0] = << << >> >>
                  /\ \A k \in 0..(n - 1) : p[k + 1] = G[<<k + 1, p[k]>>]
                  /\ p[n] = f[1..n]
    <2> HIDE DEF n, V
    <2> QED BY <1>1, <1>5, UpChain
  <1>14. \A k \in 0..(n - 1) : k + 1 \in 1..n /\ p[k] \in V
    BY <1>1, <1>13
  <1>15. \A k \in 0..(n - 1) : p[k + 1] = Extended(p[k], lists[k + 1])
    BY <1>3, <1>13, <1>14
  <1>16. Products(lists) = p[n]
    BY <1>1, <1>9, <1>12, <1>13, ProductsIs
  <1> QED BY <1>13, <1>15, <1>16

\* The queries Products lists, in numbers by the lengths of the lists.
LEMMA ProductsHave ==
  ASSUME NEW W, NEW lists \in Seq(Seq(W))
  PROVE  /\ Products(lists) \in Seq(Seq(W))
         /\ \A q : q \in ToSet(Products(lists)) =>
              Len(q) = Len(lists) /\ \A i \in 1..Len(lists) : q[i] \in ToSet(lists[i])
         /\ (\A i \in 1..Len(lists) : IsInjective(lists[i])) => IsInjective(Products(lists))
         /\ \A r : r[0] = 1 /\ (\A k \in 0..(Len(lists) - 1) : r[k + 1] = r[k] * Len(lists[k + 1]))
              => Len(Products(lists)) = r[Len(lists)]
         /\ (\A i \in 1..Len(lists) : Len(lists[i]) # 0) => Len(Products(lists)) # 0
  <1> DEFINE n == Len(lists)
             Distinct == \A i \in 1..n : IsInjective(lists[i])
  <1>1. n \in Nat /\ DOMAIN lists = 1..n /\ \A i \in 1..n : lists[i] \in Seq(W)
    BY LenProperties, ElementOfSeq
  <1>2. PICK p : /\ p[0] = << << >> >>
                 /\ \A k \in 0..(n - 1) : p[k + 1] = Extended(p[k], lists[k + 1])
                 /\ Products(lists) = p[n]
    BY ProductChain
  <1> DEFINE Good(k) ==
               /\ p[k] \in Seq(Seq(W))
               /\ \A q : q \in ToSet(p[k]) => /\ q \in Seq(W) /\ Len(q) = k
                                              /\ \A i \in 1..k : q[i] \in ToSet(lists[i])
               /\ Distinct => IsInjective(p[k])
             T == {k \in 0..n : Good(k)}
  <1>3. Good(0)
    <2>1. p[0] \in Seq(Seq(W)) /\ Len(p[0]) = 1 /\ DOMAIN p[0] = {1} /\ p[0][1] = << >>
      BY <1>2
    <2>2. ToSet(p[0]) = {<< >>} /\ IsInjective(p[0])
      BY <2>1 DEF ToSet, IsInjective
    <2>3. << >> \in Seq(W) /\ Len(<< >>) = 0
      OBVIOUS
    <2> HIDE DEF Distinct
    <2> QED BY <2>1, <2>2, <2>3
  <1>4. ASSUME NEW k \in 0..(n - 1), Good(k)
        PROVE  Good(k + 1)
    <2>1. k + 1 \in 1..n /\ k \in Nat /\ lists[k + 1] \in Seq(W)
      BY <1>1
    <2>2. p[k + 1] = Extended(p[k], lists[k + 1])
      BY <1>2
    <2>3. /\ p[k + 1] \in Seq(Seq(W))
          /\ \A y : y \in ToSet(p[k + 1]) =>
                    \E q \in ToSet(p[k]) : \E x \in ToSet(lists[k + 1]) : y = Append(q, x)
          /\ IsInjective(p[k]) /\ IsInjective(lists[k + 1]) => IsInjective(p[k + 1])
      <3>1. PICK ps \in Seq(Seq(W)) : ps = p[k]
        BY <1>4
      <3>2. PICK list \in Seq(W) : list = lists[k + 1]
        BY <2>1
      <3>3. Extended(ps, list) \in Seq(Seq(W))
        BY ExtendedHas
      <3>6. OneMore(ps, list, Extended(ps, list))
        BY ExtendedHas
      <3>4. \A y : y \in ToSet(Extended(ps, list)) =>
                   \E q \in ToSet(ps) : \E x \in ToSet(list) : y = Append(q, x)
        BY <3>6 DEF OneMore
      <3>5. IsInjective(ps) /\ IsInjective(list) => IsInjective(Extended(ps, list))
        BY ExtendedHas
      <3> QED BY <3>1, <3>2, <3>3, <3>4, <3>5, <2>2
    <2>4. ASSUME NEW y, y \in ToSet(p[k + 1])
          PROVE  /\ y \in Seq(W) /\ Len(y) = k + 1
                 /\ \A i \in 1..(k + 1) : y[i] \in ToSet(lists[i])
      <3>1. PICK q \in ToSet(p[k]) : \E x \in ToSet(lists[k + 1]) : y = Append(q, x)
        BY <2>3, <2>4
      <3>2. PICK x \in ToSet(lists[k + 1]) : y = Append(q, x)
        BY <3>1
      <3>3. q \in Seq(W) /\ Len(q) = k /\ \A i \in 1..k : q[i] \in ToSet(lists[i])
        BY <1>4
      <3>4. x \in W
        BY <2>1, ElementOfSeq, LenProperties DEF ToSet
      <3>5. /\ y \in Seq(W) /\ Len(y) = k + 1 /\ y[k + 1] = x
            /\ \A i \in 1..k : y[i] = q[i]
        BY <3>2, <3>3, <3>4, AppendProperties
      <3>6. 1..(k + 1) = 1..k \cup {k + 1}
        BY <2>1
      <3> QED BY <3>3, <3>5, <3>6
    <2>5. Distinct => IsInjective(p[k + 1])
      BY <2>1, <2>3, <1>4
    <2> HIDE DEF Distinct
    <2> QED BY <2>3, <2>4, <2>5
  <1>5. \A k \in 0..n : Good(k)
    <2> HIDE DEF Good
    <2>1. 0 \in T /\ \A k \in 0..(n - 1) : k \in T => k + 1 \in T
      BY <1>1, <1>3, <1>4
    <2> HIDE DEF T, n
    <2>2. \A k \in 0..n : k \in T
      BY <2>1, <1>1, UpToSet
    <2> QED BY <2>2 DEF T
  <1>6. ASSUME NEW r, r[0] = 1, \A k \in 0..(n - 1) : r[k + 1] = r[k] * Len(lists[k + 1])
        PROVE  Len(p[n]) = r[n]
    <2> DEFINE U == {k \in 0..n : Len(p[k]) = r[k]}
    <2>1. 0 \in U
      <3>1. Len(<< << >> >>) = 1 /\ 0 \in 0..n
        BY <1>1
      <3>2. Len(p[0]) = r[0]
        BY <3>1, <1>2, <1>6
      <3> QED BY <3>1, <3>2
    <2>2. ASSUME NEW k \in 0..(n - 1), k \in U
          PROVE  k + 1 \in U
      <3>1. k + 1 \in 1..n /\ k + 1 \in 0..n /\ k \in 0..n
        BY <1>1
      <3>2. p[k] \in Seq(Seq(W)) /\ lists[k + 1] \in Seq(W)
        BY <3>1, <1>1, <1>5
      <3>3. Len(p[k + 1]) = Len(p[k]) * Len(lists[k + 1])
        <4>1. PICK ps \in Seq(Seq(W)) : ps = p[k]
          BY <3>2
        <4>2. PICK list \in Seq(W) : list = lists[k + 1]
          BY <3>2
        <4>3. Len(Extended(ps, list)) = Len(ps) * Len(list)
          BY ExtendedHas
        <4> QED BY <4>1, <4>2, <4>3, <1>2
      <3>4. r[k + 1] = r[k] * Len(lists[k + 1])
        BY <1>6
      <3> QED BY <3>1, <3>3, <3>4, <2>2
    <2> HIDE DEF U
    <2>3. \A k \in 0..n : k \in U
      <3> HIDE DEF n
      <3> QED BY <2>1, <2>2, <1>1, UpToSet
    <2>4. n \in 0..n
      BY <1>1
    <2> QED BY <2>3, <2>4 DEF U
  <1>7. n \in 0..n
    BY <1>1
  <1>8. Good(n)
    <2> HIDE DEF Good, n
    <2> QED BY <1>5, <1>7
  <1> HIDE DEF n
  <1>9. \A q : q \in ToSet(Products(lists)) =>
              Len(q) = n /\ \A i \in 1..n : q[i] \in ToSet(lists[i])
    BY <1>2, <1>8
  <1>10. \A r : r[0] = 1 /\ (\A k \in 0..(n - 1) : r[k + 1] = r[k] * Len(lists[k + 1]))
              => Len(Products(lists)) = r[n]
    BY <1>2, <1>6
  <1>11. ASSUME \A i \in 1..n : Len(lists[i]) # 0
         PROVE  Len(p[n]) # 0
    <2> DEFINE U == {k \in 0..n : Len(p[k]) # 0}
    <2>1. 0 \in U
      <3>1. Len(<< << >> >>) = 1 /\ 0 \in 0..n
        BY <1>1 DEF n
      <3>2. Len(p[0]) = 1
        BY <3>1, <1>2
      <3>3. Len(p[0]) # 0
        BY <3>2
      <3> QED BY <3>1, <3>3, <1>1 DEF n
    <2>2. ASSUME NEW k \in 0..(n - 1), k \in U
          PROVE  k + 1 \in U
      <3>1. k + 1 \in 1..n /\ k + 1 \in 0..n /\ k \in 0..n
        BY <1>1 DEF n
      <3>2. PICK ps \in Seq(Seq(W)) : ps = p[k]
        BY <3>1, <1>5
      <3>3. PICK list \in Seq(W) : list = lists[k + 1]
        BY <3>1, <1>1 DEF n
      <3>4. Len(Extended(ps, list)) = Len(ps) * Len(list)
        BY ExtendedHas
      <3>5. Len(ps) \in Nat /\ Len(list) \in Nat /\ Len(ps) # 0 /\ Len(list) # 0
        BY <3>1, <3>2, <3>3, <2>2, <1>11, LenProperties
      <3>6. Len(ps) * Len(list) # 0
        BY <3>5
      <3> QED BY <3>1, <3>2, <3>3, <3>4, <3>6, <1>2
    <2> HIDE DEF U
    <2>3. n \in U
      BY <2>1, <2>2, <1>1, <1>7, UpToSet DEF n
    <2> QED BY <2>3 DEF U
  <1> QED BY <1>2, <1>8, <1>9, <1>10, <1>11 DEF n

-----------------------------------------------------------------------------
(* Listed and WithoutSeen                                                  *)

ListedStep(S, h) ==
  [T \in SUBSET S |->
     IF T = {} THEN << >> ELSE Append(h[T \ {CHOOSE x \in T : TRUE}], CHOOSE x \in T : TRUE)]

ListedFold(S) == CHOOSE h : h = ListedStep(S, h)

LEMMA ListedIs ==
  ASSUME NEW S
  PROVE  Listed(S) = ListedFold(S)[S]
  BY DEF Listed, FoldSet, MapThenFoldSet, ListedFold, ListedStep

\* Listed takes every element once.
LEMMA ListedHas ==
  ASSUME NEW S, IsFiniteSet(S)
  PROVE  Listed(S) \in Seq(S) /\ ToSet(Listed(S)) = S /\ IsInjective(Listed(S))
  <1> DEFINE D == SUBSET S
             V == Seq(S)
             G == [x \in S \X V |-> Append(x[2], x[1])]
  <1>1. PICK c : c = [T \in D |-> CHOOSE x \in T : TRUE]
    OBVIOUS
  <1>2. \A T \in D : c[T] = CHOOSE x \in T : TRUE
    BY <1>1
  <1>3. \A T \in D : T # {} => c[T] \in T
    BY <1>2
  <1>4. \A x \in S : \A v \in V : G[<<x, v>>] = Append(v, x) /\ G[<<x, v>>] \in V
    <2>1. \A x \in S : \A v \in V : G[<<x, v>>] = Append(v, x)
      OBVIOUS
    <2>2. \A x \in S : \A v \in V : Append(v, x) \in V
      BY AppendProperties
    <2> QED BY <2>1, <2>2
  <1>5. << >> \in V
    OBVIOUS
  <1> HIDE DEF G
  <1>6. Folding(S, c, V, << >>, G)
    <2> HIDE DEF V
    <2> QED BY <1>3, <1>4, <1>5 DEF Folding
  <1>7. PICK f \in [D -> V] : \A T \in D :
          f[T] = IF T = {} THEN << >> ELSE G[<<c[T], f[T \ {c[T]}]>>]
    <2>1. PICK f : Solves(f, S, c, V, << >>, G)
      BY <1>6, SetRecursion
    <2> QED BY <2>1 DEF Solves
  <1>8. \A T \in D : T # {} => T \ {c[T]} \in D /\ f[T] = Append(f[T \ {c[T]}], c[T])
    <2> SUFFICES ASSUME NEW T \in D, T # {}
                 PROVE  T \ {c[T]} \in D /\ f[T] = Append(f[T \ {c[T]}], c[T])
      OBVIOUS
    <2>1. c[T] \in S /\ T \ {c[T]} \in D
      BY <1>3
    <2>2. f[T \ {c[T]}] \in V
      BY <2>1
    <2> HIDE DEF V, D
    <2> QED BY <2>1, <2>2, <1>4, <1>7
  <1>9. f = ListedStep(S, f)
    <2>1. \A T \in D : f[T] = IF T = {} THEN << >> ELSE Append(f[T \ {c[T]}], c[T])
      BY <1>7, <1>8
    <2>2. \A T \in D : f[T] = IF T = {} THEN << >>
                              ELSE Append(f[T \ {CHOOSE x \in T : TRUE}], CHOOSE x \in T : TRUE)
      BY <2>1, <1>2
    <2> QED BY <2>2 DEF ListedStep
  <1>10. PICK g : g = ListedFold(S)
    OBVIOUS
  <1>11. g = ListedStep(S, g)
    BY <1>9, <1>10 DEF ListedFold
  <1>12. \A T \in D : g[T] = IF T = {} THEN << >> ELSE Append(g[T \ {c[T]}], c[T])
    <2>1. \A T \in D : g[T] = IF T = {} THEN << >>
                              ELSE Append(g[T \ {CHOOSE x \in T : TRUE}], CHOOSE x \in T : TRUE)
      BY <1>11 DEF ListedStep
    <2> QED BY <2>1, <1>2
  <1> DEFINE F == {T \in D : g[T] \in Seq(S) /\ ToSet(g[T]) = T /\ IsInjective(g[T])}
  <1>13. ASSUME NEW T \in D, \A x \in T : T \ {x} \in F
         PROVE  T \in F
    <2>1. CASE T = {}
      <3>1. g[T] = << >>
        BY <2>1, <1>12
      <3>2. DOMAIN << >> = {} /\ << >> \in Seq(S)
        OBVIOUS
      <3> QED BY <2>1, <3>1, <3>2 DEF ToSet, IsInjective
    <2>2. CASE T # {}
      <3>1. PICK x \in T : x = c[T]
        BY <2>2, <1>3
      <3>2. PICK t : t = g[T \ {x}]
        OBVIOUS
      <3>3. t \in Seq(S) /\ ToSet(t) = T \ {x} /\ IsInjective(t)
        BY <3>2, <1>13
      <3>4. g[T] = Append(t, x)
        BY <2>2, <3>1, <3>2, <1>12
      <3>5. x \in S /\ x \notin ToSet(t)
        BY <3>3
      <3>6. /\ Append(t, x) \in Seq(S) /\ ToSet(Append(t, x)) = ToSet(t) \cup {x}
            /\ IsInjective(Append(t, x))
        BY <3>3, <3>5, AppendSet
      <3>7. (T \ {x}) \cup {x} = T
        OBVIOUS
      <3> QED BY <3>3, <3>4, <3>6, <3>7
    <2> QED BY <2>1, <2>2
  <1> HIDE DEF F
  <1>14. S \in F
    BY <1>13, SubsetInduction
  <1> QED BY <1>10, <1>14, ListedIs DEF F

SeenNext(t, w) == IF w \in ToSet(t) THEN t ELSE Append(t, w)

SeenStep(s, more, h) ==
  [T \in SUBSET (DOMAIN more) |->
     IF T = {} THEN s ELSE SeenNext(h[T \ {Max(T)}], more[Max(T)])]

SeenFold(s, more) == CHOOSE h : h = SeenStep(s, more, h)

LEMMA WithoutSeenIs ==
  ASSUME NEW s, NEW more
  PROVE  WithoutSeen(s, more) = SeenFold(s, more)[DOMAIN more]
  BY DEF WithoutSeen, FoldLeft, MapThenFoldSet, SeenFold, SeenStep, SeenNext

LEMMA SeenNextHas ==
  ASSUME NEW W, NEW t \in Seq(W), NEW w \in W
  PROVE  /\ SeenNext(t, w) \in Seq(W)
         /\ ToSet(SeenNext(t, w)) = ToSet(t) \cup {w}
         /\ IsInjective(t) => IsInjective(SeenNext(t, w))
  BY AppendSet DEF SeenNext

\* The lists WithoutSeen goes through, word by word.
SeenSoFar(p, W, s, more) ==
  /\ p \in [0..Len(more) -> Seq(W)]
  /\ p[0] = s
  /\ \A k \in 0..(Len(more) - 1) : p[k + 1] = SeenNext(p[k], more[k + 1])
  /\ WithoutSeen(s, more) = p[Len(more)]

LEMMA SeenChain ==
  ASSUME NEW W, NEW s \in Seq(W), NEW more \in Seq(W)
  PROVE  \E p : SeenSoFar(p, W, s, more)
  <1> DEFINE n == Len(more)
             V == Seq(W)
             G == [x \in (1..n) \X V |-> SeenNext(x[2], more[x[1]])]
             D == SUBSET (1..n)
  <1>1. n \in Nat /\ DOMAIN more = 1..n /\ \A i \in 1..n : more[i] \in W
    BY LenProperties, ElementOfSeq
  <1>2. \A k \in 1..n : \A v \in V : G[<<k, v>>] = SeenNext(v, more[k]) /\ G[<<k, v>>] \in V
    <2>1. \A k \in 1..n : \A v \in V : G[<<k, v>>] = SeenNext(v, more[k])
      OBVIOUS
    <2>2. \A k \in 1..n : \A v \in V : SeenNext(v, more[k]) \in V
      BY <1>1, SeenNextHas
    <2> QED BY <2>1, <2>2
  <1> HIDE DEF G
  <1>3. FoldingUp(n, V, s, G)
    <2>1. s \in V
      OBVIOUS
    <2> HIDE DEF n, V
    <2> QED BY <1>1, <1>2, <2>1 DEF FoldingUp
  <1>4. PICK f : SolvesUp(f, n, V, s, G)
    <2> HIDE DEF n, V
    <2> QED BY <1>3, UpRecursion
  <1>5. f \in [D -> V] /\ \A T \in D : f[T] = IF T = {} THEN s ELSE G[<<Max(T), f[T \ {Max(T)}]>>]
    BY <1>4 DEF SolvesUp
  <1>6. \A T \in D : T # {} => f[T] = SeenNext(f[T \ {Max(T)}], more[Max(T)])
    <2> SUFFICES ASSUME NEW T \in D, T # {}
                 PROVE  f[T] = SeenNext(f[T \ {Max(T)}], more[Max(T)])
      OBVIOUS
    <2>1. Max(T) \in 1..n /\ T \ {Max(T)} \in D
      BY <1>1, MaxIn
    <2>2. f[T \ {Max(T)}] \in V
      BY <2>1, <1>5
    <2> HIDE DEF n, V, D
    <2> QED BY <2>1, <2>2, <1>2, <1>5
  <1>7. f = SeenStep(s, more, f)
    <2>1. \A T \in D : f[T] = IF T = {} THEN s ELSE SeenNext(f[T \ {Max(T)}], more[Max(T)])
      BY <1>5, <1>6
    <2>2. SeenStep(s, more, f) =
            [T \in D |-> IF T = {} THEN s ELSE SeenNext(f[T \ {Max(T)}], more[Max(T)])]
      BY <1>1 DEF SeenStep
    <2> HIDE DEF D
    <2> QED BY <2>1, <2>2, <1>5
  <1>8. PICK g : g = SeenFold(s, more)
    OBVIOUS
  <1>9. g = SeenStep(s, more, g)
    BY <1>7, <1>8 DEF SeenFold
  <1>10. \A T \in D : g[T] = IF T = {} THEN s ELSE SeenNext(g[T \ {Max(T)}], more[Max(T)])
    BY <1>1, <1>9 DEF SeenStep
  <1>11. f[1..n] = g[1..n]
    <2>1. f[{}] = g[{}]
      BY <1>5, <1>10
    <2>2. \A T \in D : T # {} /\ f[T \ {Max(T)}] = g[T \ {Max(T)}] => f[T] = g[T]
      BY <1>6, <1>10
    <2> QED BY <2>1, <2>2, <1>1, UpUnique
  <1>12. PICK p : /\ p \in [0..n -> V]
                  /\ p[0] = s
                  /\ \A k \in 0..(n - 1) : p[k + 1] = G[<<k + 1, p[k]>>]
                  /\ p[n] = f[1..n]
    <2> HIDE DEF n, V
    <2> QED BY <1>1, <1>4, UpChain
  <1>13. \A k \in 0..(n - 1) : k + 1 \in 1..n /\ p[k] \in V
    BY <1>1, <1>12
  <1>14. \A k \in 0..(n - 1) : p[k + 1] = SeenNext(p[k], more[k + 1])
    BY <1>2, <1>12, <1>13
  <1>15. WithoutSeen(s, more) = p[n]
    BY <1>1, <1>8, <1>11, <1>12, WithoutSeenIs
  <1>16. SeenSoFar(p, W, s, more)
    BY <1>12, <1>14, <1>15 DEF SeenSoFar
  <1> QED BY <1>16

\* WithoutSeen adds the words of the second list, and no word twice.
LEMMA WithoutSeenHas ==
  ASSUME NEW W, NEW s \in Seq(W), NEW more \in Seq(W)
  PROVE  /\ WithoutSeen(s, more) \in Seq(W)
         /\ ToSet(WithoutSeen(s, more)) = ToSet(s) \cup ToSet(more)
         /\ IsInjective(s) => IsInjective(WithoutSeen(s, more))
  <1> DEFINE n == Len(more)
  <1>1. n \in Nat /\ DOMAIN more = 1..n /\ \A i \in 1..n : more[i] \in W
    BY LenProperties, ElementOfSeq
  <1>a. PICK p : SeenSoFar(p, W, s, more)
    BY SeenChain
  <1>2. /\ p \in [0..n -> Seq(W)]
        /\ p[0] = s
        /\ \A k \in 0..(n - 1) : p[k + 1] = SeenNext(p[k], more[k + 1])
        /\ WithoutSeen(s, more) = p[n]
    BY <1>a DEF SeenSoFar
  <1> DEFINE Good(k) == /\ ToSet(p[k]) = ToSet(s) \cup {more[i] : i \in 1..k}
                        /\ IsInjective(s) => IsInjective(p[k])
             T == {k \in 0..n : Good(k)}
  <1>3. 0 \in T
    BY <1>1, <1>2
  <1>4. ASSUME NEW k \in 0..(n - 1), k \in T
        PROVE  k + 1 \in T
    <2>1. k + 1 \in 1..n /\ k \in 0..n /\ k + 1 \in 0..n
      BY <1>1
    <2>2. PICK t \in Seq(W) : t = p[k]
      BY <2>1, <1>2
    <2>3. PICK w \in W : w = more[k + 1]
      BY <2>1, <1>1
    <2>4. p[k + 1] = SeenNext(t, w)
      BY <2>2, <2>3, <1>2
    <2>5. ToSet(p[k + 1]) = ToSet(t) \cup {w}
      BY <2>4, SeenNextHas
    <2>6. IsInjective(t) => IsInjective(p[k + 1])
      BY <2>4, SeenNextHas
    <2>7. 1..(k + 1) = 1..k \cup {k + 1}
      BY <2>1
    <2>8. ToSet(p[k + 1]) = ToSet(s) \cup {more[i] : i \in 1..(k + 1)}
      BY <2>2, <2>3, <2>5, <2>7, <1>4
    <2> QED BY <2>1, <2>2, <2>6, <2>8, <1>4
  <1>5. n \in T
    <2>1. n \in 0..n
      BY <1>1
    <2> HIDE DEF T, n
    <2> QED BY <1>1, <1>3, <1>4, <2>1, UpToSet
  <1>6. ToSet(more) = {more[i] : i \in 1..n}
    BY <1>1 DEF ToSet
  <1>7. p[n] \in Seq(W)
    BY <1>1, <1>2
  <1> QED BY <1>2, <1>5, <1>6, <1>7

-----------------------------------------------------------------------------
(* Levenshtein                                                             *)

Apart(x, y) == IF x = y THEN 0 ELSE 1

\* The distance of the first i letters of u from the first j letters of v, from what h
\* says of shorter words.
DistanceOf(u, v, h, i, j) ==
  IF i = 0 THEN j ELSE IF j = 0 THEN i
  ELSE Min({h[<<i - 1, j>>] + 1, h[<<i, j - 1>>] + 1, h[<<i - 1, j - 1>>] + Apart(u[i], v[j])})

DistanceStep(u, v, h) ==
  [p \in (0..Len(u)) \X (0..Len(v)) |-> DistanceOf(u, v, h, p[1], p[2])]

Distances(u, v) == CHOOSE h : h = DistanceStep(u, v, h)

LEMMA LevenshteinIs ==
  ASSUME NEW u, NEW v
  PROVE  Levenshtein(u, v) = Distances(u, v)[<<Len(u), Len(v)>>]
  BY DEF Levenshtein, Distances, DistanceStep, DistanceOf, Apart

LEMMA MinOfThree ==
  ASSUME NEW a \in Nat, NEW b \in Nat, NEW c \in Nat
  PROVE  /\ Min({a, b, c}) \in Nat
         /\ Min({a, b, c}) <= a /\ Min({a, b, c}) <= b /\ Min({a, b, c}) <= c
         /\ Min({a, b, c}) = a \/ Min({a, b, c}) = b \/ Min({a, b, c}) = c
  <1>1. PICK T : T = {a, b, c}
    OBVIOUS
  <1>2. T \in SUBSET Nat /\ T # {} /\ a \in T /\ b \in T /\ c \in T
    BY <1>1
  <1>3. Min(T) \in T /\ \A y \in T : Min(T) <= y
    BY <1>2, MinIn
  <1> QED BY <1>1, <1>2, <1>3

LEMMA DistanceChain ==
  ASSUME NEW X, NEW u \in Seq(X), NEW v \in Seq(X)
  PROVE  \E d : /\ \A i \in 0..Len(u) : \A j \in 0..Len(v) :
                     d[<<i, j>>] \in Nat /\ d[<<i, j>>] = DistanceOf(u, v, d, i, j)
                /\ Levenshtein(u, v) = d[<<Len(u), Len(v)>>]
  <1> DEFINE m == Len(u)
             n == Len(v)
             D == (0..m) \X (0..n)
             H == [x \in D \X [D -> Nat] |-> DistanceOf(u, v, x[2], x[1][1], x[1][2])]
  <1>1. m \in Nat /\ n \in Nat
    BY LenProperties
  <1>2. PICK s : s = [p \in D |-> p[1] + p[2]]
    OBVIOUS
  <1>3. s \in [D -> Nat]
    <2>1. \A p \in D : p[1] \in Nat /\ p[2] \in Nat
      BY <1>1
    <2>2. \A p \in D : p[1] + p[2] \in Nat
      BY <2>1
    <2> HIDE DEF D
    <2> QED BY <2>2, <1>2
  <1>4. \A p \in D : \A h \in [D -> Nat] : H[<<p, h>>] = DistanceOf(u, v, h, p[1], p[2])
    <2> HIDE DEF D
    <2> QED OBVIOUS
  <1> HIDE DEF H
  <1>5. ASSUME NEW i \in 1..m, NEW j \in 1..n
        PROVE  /\ <<i - 1, j>> \in D /\ <<i, j - 1>> \in D /\ <<i - 1, j - 1>> \in D /\ <<i, j>> \in D
               /\ s[<<i - 1, j>>] < s[<<i, j>>] /\ s[<<i, j - 1>>] < s[<<i, j>>]
               /\ s[<<i - 1, j - 1>>] < s[<<i, j>>]
    <2>1. <<i - 1, j>> \in D /\ <<i, j - 1>> \in D /\ <<i - 1, j - 1>> \in D /\ <<i, j>> \in D
      BY <1>1
    <2>2. s[<<i - 1, j>>] = (i - 1) + j /\ s[<<i, j - 1>>] = i + (j - 1)
      BY <2>1, <1>2
    <2>3. s[<<i - 1, j - 1>>] = (i - 1) + (j - 1) /\ s[<<i, j>>] = i + j
      BY <2>1, <1>2
    <2>4. (i - 1) + j < i + j /\ i + (j - 1) < i + j /\ (i - 1) + (j - 1) < i + j
      BY <1>1
    <2> HIDE DEF D
    <2>5. s[<<i - 1, j>>] < s[<<i, j>>] /\ s[<<i, j - 1>>] < s[<<i, j>>]
      BY <2>2, <2>3, <2>4
    <2>6. s[<<i - 1, j - 1>>] < s[<<i, j>>]
      BY <2>3, <2>4
    <2> QED BY <2>1, <2>5, <2>6
  <1>6. ASSUME NEW i \in 0..m, NEW j \in 0..n, NEW h \in [D -> Nat]
        PROVE  DistanceOf(u, v, h, i, j) \in Nat
    <2>1. CASE i = 0 \/ j = 0
      BY <2>1, <1>1 DEF DistanceOf
    <2>2. CASE i # 0 /\ j # 0
      <3>1. i \in 1..m /\ j \in 1..n
        BY <2>2, <1>1
      <3>2. h[<<i - 1, j>>] \in Nat /\ h[<<i, j - 1>>] \in Nat /\ h[<<i - 1, j - 1>>] \in Nat
        BY <3>1, <1>5
      <3>3. Apart(u[i], v[j]) \in Nat
        BY DEF Apart
      <3>4. PICK a \in Nat : a = h[<<i - 1, j>>] + 1
        BY <3>2
      <3>5. PICK b \in Nat : b = h[<<i, j - 1>>] + 1
        BY <3>2
      <3>6. PICK c \in Nat : c = h[<<i - 1, j - 1>>] + Apart(u[i], v[j])
        BY <3>2, <3>3
      <3>7. Min({a, b, c}) \in Nat
        BY MinOfThree
      <3> QED BY <2>2, <3>4, <3>5, <3>6, <3>7 DEF DistanceOf
    <2> QED BY <2>1, <2>2
  <1>7. ASSUME NEW i \in 0..m, NEW j \in 0..n, NEW h \in [D -> Nat], NEW k \in [D -> Nat],
               \A q \in D : s[q] < s[<<i, j>>] => h[q] = k[q]
        PROVE  DistanceOf(u, v, h, i, j) = DistanceOf(u, v, k, i, j)
    <2>1. CASE i = 0 \/ j = 0
      BY <2>1 DEF DistanceOf
    <2>2. CASE i # 0 /\ j # 0
      <3>1. i \in 1..m /\ j \in 1..n
        BY <2>2, <1>1
      <3>2. /\ h[<<i - 1, j>>] = k[<<i - 1, j>>] /\ h[<<i, j - 1>>] = k[<<i, j - 1>>]
            /\ h[<<i - 1, j - 1>>] = k[<<i - 1, j - 1>>]
        <4> HIDE DEF D, m, n
        <4> QED BY <3>1, <1>5, <1>7
      <3> QED BY <2>2, <3>2 DEF DistanceOf
    <2> QED BY <2>1, <2>2
  <1>8. \A p \in D : p[1] \in 0..m /\ p[2] \in 0..n /\ p = <<p[1], p[2]>>
    OBVIOUS
  <1>9. Measured(D, Nat, s, H)
    <2>1. ASSUME NEW p \in D, NEW h \in [D -> Nat]
          PROVE  H[<<p, h>>] \in Nat
      <3>1. p[1] \in 0..m /\ p[2] \in 0..n
        BY <1>8
      <3> HIDE DEF D, m, n
      <3>2. DistanceOf(u, v, h, p[1], p[2]) \in Nat
        BY <3>1, <1>6
      <3> QED BY <3>2, <1>4
    <2>2. ASSUME NEW p \in D, NEW h \in [D -> Nat], NEW k \in [D -> Nat],
                 \A q \in D : s[q] < s[p] => h[q] = k[q]
          PROVE  H[<<p, h>>] = H[<<p, k>>]
      <3>1. DistanceOf(u, v, h, p[1], p[2]) = DistanceOf(u, v, k, p[1], p[2])
        <4> HIDE DEF D, m, n
        <4> QED BY <2>2, <1>7, <1>8
      <3>2. H[<<p, h>>] = DistanceOf(u, v, h, p[1], p[2])
        <4> HIDE DEF D
        <4> QED BY <1>4
      <3>3. H[<<p, k>>] = DistanceOf(u, v, k, p[1], p[2])
        <4> HIDE DEF D
        <4> QED BY <1>4
      <3> QED BY <3>1, <3>2, <3>3
    <2> HIDE DEF D
    <2> QED BY <2>1, <2>2, <1>3 DEF Measured
  <1>10. PICK f \in [D -> Nat] : \A p \in D : f[p] = H[<<p, f>>]
    <2> HIDE DEF D
    <2> QED BY <1>9, RecursionExists
  <1>11. f = DistanceStep(u, v, f)
    <2>1. \A p \in D : f[p] = DistanceOf(u, v, f, p[1], p[2])
      <3> HIDE DEF D
      <3> QED BY <1>4, <1>10
    <2>2. DistanceStep(u, v, f) = [p \in D |-> DistanceOf(u, v, f, p[1], p[2])]
      BY DEF DistanceStep
    <2> HIDE DEF D
    <2> QED BY <2>1, <2>2
  <1>12. PICK g : g = Distances(u, v)
    OBVIOUS
  <1>13. g = DistanceStep(u, v, g)
    BY <1>11, <1>12 DEF Distances
  <1>14. \A i \in 0..m : \A j \in 0..n : g[<<i, j>>] = DistanceOf(u, v, g, i, j)
    <2> SUFFICES ASSUME NEW i \in 0..m, NEW j \in 0..n
                 PROVE  g[<<i, j>>] = DistanceOf(u, v, g, i, j)
      OBVIOUS
    <2>1. DistanceStep(u, v, g) = [p \in D |-> DistanceOf(u, v, g, p[1], p[2])]
      BY DEF DistanceStep
    <2>2. PICK p \in D : p = <<i, j>>
      OBVIOUS
    <2>3. p[1] = i /\ p[2] = j
      BY <2>2
    <2>4. g[p] = DistanceOf(u, v, g, p[1], p[2])
      <3> HIDE DEF D
      <3> QED BY <2>1, <1>13
    <2> QED BY <2>2, <2>3, <2>4
  <1> DEFINE Good(l) == \A i \in 0..m : \A j \in 0..n : i + j < l => g[<<i, j>>] \in Nat
             T == {l \in Nat : Good(l)}
  <1>15. 0 \in T
    BY <1>1
  <1>16. ASSUME NEW l \in Nat, l \in T
         PROVE  l + 1 \in T
    <2> SUFFICES ASSUME NEW i \in 0..m, NEW j \in 0..n, i + j < l + 1
                 PROVE  g[<<i, j>>] \in Nat
      <3>1. Good(l + 1)
        OBVIOUS
      <3> HIDE DEF Good
      <3> QED BY <3>1
    <2>1. g[<<i, j>>] = DistanceOf(u, v, g, i, j)
      BY <1>14
    <2>2. CASE i = 0 \/ j = 0
      BY <2>1, <2>2, <1>1 DEF DistanceOf
    <2>3. CASE i # 0 /\ j # 0
      <3>1. /\ i - 1 \in 0..m /\ j - 1 \in 0..n /\ (i - 1) + j < l /\ i + (j - 1) < l
            /\ (i - 1) + (j - 1) < l
        BY <2>3, <1>1
      <3>2. g[<<i - 1, j>>] \in Nat /\ g[<<i, j - 1>>] \in Nat /\ g[<<i - 1, j - 1>>] \in Nat
        BY <3>1, <1>16
      <3>3. Apart(u[i], v[j]) \in Nat
        BY DEF Apart
      <3>4. PICK a \in Nat : a = g[<<i - 1, j>>] + 1
        BY <3>2
      <3>5. PICK b \in Nat : b = g[<<i, j - 1>>] + 1
        BY <3>2
      <3>6. PICK c \in Nat : c = g[<<i - 1, j - 1>>] + Apart(u[i], v[j])
        BY <3>2, <3>3
      <3>7. Min({a, b, c}) \in Nat
        BY MinOfThree
      <3> QED BY <2>1, <2>3, <3>4, <3>5, <3>6, <3>7 DEF DistanceOf
    <2> QED BY <2>2, <2>3
  <1> HIDE DEF T
  <1>17. Nat \subseteq T
    BY <1>15, <1>16, NatSet
  <1>18. \A i \in 0..m : \A j \in 0..n : g[<<i, j>>] \in Nat
    <2> SUFFICES ASSUME NEW i \in 0..m, NEW j \in 0..n
                 PROVE  g[<<i, j>>] \in Nat
      OBVIOUS
    <2>1. (i + j) + 1 \in T /\ i + j < (i + j) + 1
      BY <1>1, <1>17
    <2> QED BY <2>1 DEF T
  <1>19. Levenshtein(u, v) = g[<<m, n>>]
    BY <1>12, LevenshteinIs
  <1> QED BY <1>14, <1>18, <1>19

LEMMA LevenshteinType ==
  ASSUME NEW X, NEW u \in Seq(X), NEW v \in Seq(X)
  PROVE  Levenshtein(u, v) \in Nat
  <1>1. Len(u) \in Nat /\ Len(v) \in Nat
    BY LenProperties
  <1>2. Len(u) \in 0..Len(u) /\ Len(v) \in 0..Len(v)
    BY <1>1
  <1> QED BY <1>2, DistanceChain

\* The letters of words and markers.
Letters == STRING \cup {"<", ">", "/", "s", "U", "N", "K"}

LEMMA MarkersAreWords ==
  /\ Markers \subseteq Seq(Letters)
  /\ Len(UNKNOWN_TOKEN) = 5
  /\ \A j \in 2..4 : UNKNOWN_TOKEN[j] \in {"U", "N", "K"}
  <1>1. UNKNOWN_TOKEN \in Seq({"<", "U", "N", "K", ">"})
    BY DEF UNKNOWN_TOKEN
  <1>2. START_TOKEN \in Seq({"<", "s", ">"})
    BY DEF START_TOKEN
  <1>3. END_TOKEN \in Seq({"<", "/", "s", ">"})
    BY DEF END_TOKEN
  <1>4. {"<", "U", "N", "K", ">"} \subseteq Letters /\ {"<", "s", ">"} \subseteq Letters
        /\ {"<", "/", "s", ">"} \subseteq Letters
    BY DEF Letters
  <1>5. Markers \subseteq Seq(Letters)
    BY <1>1, <1>2, <1>3, <1>4, SeqMonotonic DEF Markers
  <1>6. Len(UNKNOWN_TOKEN) = 5
    BY DEF UNKNOWN_TOKEN
  <1>7. \A j \in 2..4 : UNKNOWN_TOKEN[j] \in {"U", "N", "K"}
    BY DEF UNKNOWN_TOKEN
  <1> QED BY <1>5, <1>6, <1>7

\* No word without the letters U, N and K is within two edits of the marker <UNK>.
LEMMA UnknownIsFar ==
  ASSUME NEW u \in Seq(Letters), ToSet(u) \cap {"U", "N", "K"} = {}
  PROVE  ~ (Levenshtein(u, UNKNOWN_TOKEN) <= 2)
  <1> DEFINE v == UNKNOWN_TOKEN
             m == Len(u)
             Low(j) == IF j <= 1 THEN 0 ELSE IF j >= 4 THEN 3 ELSE j - 1
  <1>1. m \in Nat /\ DOMAIN u = 1..m
    BY LenProperties
  <1>2. v \in Seq(Letters) /\ Len(v) = 5
    BY MarkersAreWords DEF Markers
  <1>3. \A j \in 2..4 : v[j] \in {"U", "N", "K"}
    BY MarkersAreWords
  <1>4. \A i \in 1..m : \A j \in 2..4 : u[i] # v[j]
    <2>1. \A i \in 1..m : u[i] \in ToSet(u)
      BY <1>1 DEF ToSet
    <2> QED BY <2>1, <1>3
  <1> HIDE DEF v
  <1>5. PICK d : /\ \A i \in 0..m : \A j \in 0..5 :
                      d[<<i, j>>] \in Nat /\ d[<<i, j>>] = DistanceOf(u, v, d, i, j)
                 /\ Levenshtein(u, v) = d[<<m, 5>>]
    <2>1. PICK d : /\ \A i \in 0..Len(u) : \A j \in 0..Len(v) :
                         d[<<i, j>>] \in Nat /\ d[<<i, j>>] = DistanceOf(u, v, d, i, j)
                   /\ Levenshtein(u, v) = d[<<Len(u), Len(v)>>]
      BY <1>2, DistanceChain
    <2> QED BY <2>1, <1>2
  <1> DEFINE Good(l) == \A i \in 0..m : \A j \in 0..5 : i + j < l => d[<<i, j>>] >= Low(j)
             T == {l \in Nat : Good(l)}
  <1>6. 0 \in T
    BY <1>1
  <1>7. ASSUME NEW l \in Nat, l \in T
        PROVE  l + 1 \in T
    <2> SUFFICES ASSUME NEW i \in 0..m, NEW j \in 0..5, i + j < l + 1
                 PROVE  d[<<i, j>>] >= Low(j)
      <3>1. Good(l + 1)
        OBVIOUS
      <3> HIDE DEF Good
      <3> QED BY <3>1
    <2>1. d[<<i, j>>] \in Nat /\ d[<<i, j>>] = DistanceOf(u, v, d, i, j)
      BY <1>5
    <2>2. CASE i = 0 \/ j = 0
      BY <2>1, <2>2 DEF DistanceOf
    <2>3. CASE i # 0 /\ j # 0
      <3>1. /\ i - 1 \in 0..m /\ j - 1 \in 0..5 /\ (i - 1) + j < l /\ i + (j - 1) < l
            /\ (i - 1) + (j - 1) < l /\ i \in 1..m /\ j \in 1..5
        BY <2>3, <1>1
      <3>2. PICK a \in Nat : a = d[<<i - 1, j>>] /\ a >= Low(j)
        BY <3>1, <1>5, <1>7
      <3>3. PICK b \in Nat : b = d[<<i, j - 1>>] /\ b >= Low(j - 1)
        BY <3>1, <1>5, <1>7
      <3>4. PICK c \in Nat : c = d[<<i - 1, j - 1>>] /\ c >= Low(j - 1)
        BY <3>1, <1>5, <1>7
      <3>5. PICK e \in Nat : e = Apart(u[i], v[j])
        BY DEF Apart
      <3>6. j \in 2..4 => e = 1
        BY <3>1, <3>5, <1>4 DEF Apart
      <3>10. /\ Low(j) \in Nat /\ Low(j - 1) \in Nat /\ Low(j) <= Low(j - 1) + 1
             /\ j \in 2..4 \/ Low(j) = Low(j - 1)
        BY <3>1
      <3> HIDE DEF Low
      <3>12. PICK x \in Nat : x = Low(j)
        BY <3>10
      <3>13. PICK y \in Nat : y = Low(j - 1)
        BY <3>10
      <3>7. a + 1 >= x /\ b + 1 >= x /\ c + e >= x
        <4>1. a >= x /\ b >= y /\ c >= y /\ x <= y + 1
          BY <3>2, <3>3, <3>4, <3>10, <3>12, <3>13
        <4>2. e = 1 \/ x = y
          BY <3>6, <3>10, <3>12, <3>13
        <4> QED BY <4>1, <4>2
      <3>8. d[<<i, j>>] = Min({a + 1, b + 1, c + e})
        BY <3>2, <3>3, <3>4, <3>5, <2>1, <2>3 DEF DistanceOf
      <3>11. a + 1 \in Nat /\ b + 1 \in Nat /\ c + e \in Nat
        OBVIOUS
      <3>9. d[<<i, j>>] = a + 1 \/ d[<<i, j>>] = b + 1 \/ d[<<i, j>>] = c + e
        BY <3>8, <3>11, MinOfThree
      <3> QED BY <3>7, <3>9, <3>12
    <2> QED BY <2>2, <2>3
  <1> HIDE DEF T
  <1>8. Nat \subseteq T
    BY <1>6, <1>7, NatSet
  <1>9. m + 6 \in T /\ m + 5 < m + 6 /\ m \in 0..m /\ 5 \in 0..5
    BY <1>1, <1>8
  <1>10. d[<<m, 5>>] >= Low(5) /\ d[<<m, 5>>] \in Nat
    BY <1>5, <1>9 DEF T
  <1> QED BY <1>5, <1>10 DEF v

-----------------------------------------------------------------------------
(* The language model                                                      *)

Words(ds) == UNION {ToSet(ds[d]) : d \in DOMAIN ds}

LEMMA PositionsFinite ==
  ASSUME NEW X, NEW ds \in Seq(Seq(X))
  PROVE  IsFiniteSet(Positions(ds))
  <1>1. Len(ds) \in Nat /\ DOMAIN ds = 1..Len(ds)
    BY LenProperties
  <1> DEFINE Of(d) == {d} \X DOMAIN ds[d]
             All == {Of(d) : d \in DOMAIN ds}
  <1>2. ASSUME NEW d \in DOMAIN ds
        PROVE  IsFiniteSet(Of(d))
    <2>1. PICK doc \in Seq(X) : doc = ds[d]
      BY <1>1, ElementOfSeq
    <2>2. Len(doc) \in Nat /\ DOMAIN doc = 1..Len(doc)
      BY LenProperties
    <2>3. IsFiniteSet(DOMAIN doc)
      BY <2>2, UpTo
    <2>4. IsFiniteSet({d} \X DOMAIN doc)
      BY <2>3, FS_Singleton, FS_Product
    <2> QED BY <2>1, <2>4
  <1> HIDE DEF Of
  <1>3. IsFiniteSet(All)
    <2>1. IsFiniteSet(DOMAIN ds)
      BY <1>1, UpTo
    <2>2. PICK f : f = [d \in DOMAIN ds |-> Of(d)]
      OBVIOUS
    <2>3. f \in [DOMAIN ds -> All] /\ \A y \in All : \E d \in DOMAIN ds : f[d] = y
      BY <2>2
    <2>4. f \in Surjection(DOMAIN ds, All)
      BY <2>3 DEF Surjection
    <2> QED BY <2>1, <2>4, FS_Surjection
  <1>4. \A t \in All : IsFiniteSet(t)
    BY <1>2
  <1>5. IsFiniteSet(UNION All)
    <2> HIDE DEF All
    <2> QED BY <1>3, <1>4, FS_UNION
  <1> QED BY <1>5 DEF Positions, Of, All

\* Counted twice, every word of the documents is frequent enough.
LEMMA NothingIsReplaced ==
  ASSUME NEW X, NEW ds \in Seq(Seq(X))
  PROVE  PreProcessData(ds) = ds
  <1>1. Len(ds) \in Nat /\ DOMAIN ds = 1..Len(ds) /\ \A d \in DOMAIN ds : ds[d] \in Seq(X)
    BY LenProperties, ElementOfSeq
  <1>2. ASSUME NEW d \in DOMAIN ds, NEW i \in DOMAIN ds[d]
        PROVE  ds[d][i] \in ClosedWords(ds)
    <2>1. PICK p : p = <<d, i>>
      OBVIOUS
    <2>2. p \in Positions(ds) /\ At(ds, p) = ds[d][i]
      <3>1. p \in {d} \X DOMAIN ds[d]
        BY <2>1
      <3> QED BY <2>1, <3>1 DEF Positions, At
    <2>3. PICK w : w = ds[d][i]
      OBVIOUS
    <2>4. PICK S : S = {q \in Positions(ds) : At(ds, q) = w}
      OBVIOUS
    <2>5. IsFiniteSet(S) /\ S # {}
      BY <2>2, <2>3, <2>4, PositionsFinite, FS_Subset
    <2>6. Cardinality(S) \in Nat /\ Cardinality(S) # 0
      BY <2>5, FS_CardinalityType, FS_EmptySet
    <2>7. WordCount(ds, w) = 2 * Cardinality(S)
      BY <2>4 DEF WordCount
    <2>8. WordCount(ds, w) >= COUNT_THRESOLD_NGRAM
      BY <2>6, <2>7 DEF COUNT_THRESOLD_NGRAM
    <2> QED BY <2>2, <2>3, <2>8 DEF ClosedWords
  <1>3. PICK e : e = PreProcessData(ds)
    OBVIOUS
  <1>4. ASSUME NEW d \in DOMAIN ds
        PROVE  e[d] = ds[d]
    <2>1. PICK doc \in Seq(X) : doc = ds[d]
      BY <1>1
    <2>2. e[d] = [i \in DOMAIN ds[d] |-> IF ds[d][i] \in ClosedWords(ds) THEN ds[d][i]
                                                                         ELSE UNKNOWN_TOKEN]
      BY <1>3 DEF PreProcessData
    <2>3. e[d] = [i \in DOMAIN doc |-> doc[i]]
      BY <2>1, <2>2, <1>2
    <2>4. doc = [i \in DOMAIN doc |-> doc[i]]
      BY LenProperties
    <2> QED BY <2>1, <2>3, <2>4
  <1>5. e = [d \in DOMAIN ds |-> e[d]]
    BY <1>3 DEF PreProcessData
  <1>6. ds = [d \in DOMAIN ds |-> ds[d]]
    OBVIOUS
  <1> QED BY <1>3, <1>4, <1>5, <1>6

LEMMA Singleton ==
  ASSUME NEW X, NEW x \in X
  PROVE  <<x>> \in Seq(X) /\ Len(<<x>>) = 1 /\ <<x>>[1] = x
  OBVIOUS

LEMMA OneElement ==
  ASSUME NEW X, NEW s \in Seq(X), NEW i \in 1..Len(s)
  PROVE  SubSeq(s, i, i) = <<s[i]>> /\ s[i] \in X /\ <<s[i]>> \in Seq(X)
  <1>1. Len(s) \in Nat /\ s[i] \in X /\ i \in 1..(Len(s) + 1) /\ i \in (i - 1)..Len(s)
    BY LenProperties, ElementOfSeq
  <1>2. /\ SubSeq(s, i, i) \in Seq(X)
        /\ Len(SubSeq(s, i, i)) = IF i <= i THEN i - i + 1 ELSE 0
        /\ \A j \in 1..(i - i + 1) : SubSeq(s, i, i)[j] = s[i + j - 1]
    BY <1>1, SubSeqProperties
  <1>3. PICK t \in Seq(X) : t = SubSeq(s, i, i)
    BY <1>2
  <1>4. i - i + 1 = 1 /\ i + 1 - 1 = i /\ i <= i
    BY <1>1
  <1>5. Len(t) = 1 /\ t[1] = s[i]
    BY <1>2, <1>3, <1>4
  <1>6. PICK u : u = <<s[i]>>
    OBVIOUS
  <1>7. u \in Seq(X) /\ Len(u) = 1 /\ u[1] = s[i]
    BY <1>1, <1>6, Singleton
  <1>8. t = u
    BY <1>5, <1>7, SeqEqual
  <1> QED BY <1>1, <1>3, <1>6, <1>7, <1>8

\* Every word of the documents, and the start and the end of a document, are counted.
LEMMA WordsAreCounted ==
  ASSUME NEW ds \in Seq(Seq(Seq(Letters))), ds # << >>,
         NEW w \in Words(ds) \cup {START_TOKEN, END_TOKEN}
  PROVE  Count(ds, <<w>>) \in Nat /\ Count(ds, <<w>>) # 0
  <1> DEFINE X == Seq(Letters)
             Padded(d) == AddStartEndToken(ds[d], 1)
             At1(d) == {b \in Begins(ds[d]) : SubSeq(Padded(d), b, b + 1 - 1) = <<w>>}
             All == {{<<d, i>> : i \in At1(d)} : d \in DOMAIN ds}
  <1>1. /\ Len(ds) \in Nat /\ DOMAIN ds = 1..Len(ds) /\ Len(ds) # 0
        /\ \A d \in DOMAIN ds : ds[d] \in Seq(X)
    BY LenProperties, ElementOfSeq, EmptySeq
  <1>2. START_TOKEN \in X /\ END_TOKEN \in X
    BY MarkersAreWords DEF Markers
  <1>3. \A d \in DOMAIN ds : Begins(ds[d]) = 1..(Len(ds[d]) + 2) /\ Len(ds[d]) \in Nat
    BY <1>1, LenProperties DEF Begins
  <1>4. ASSUME NEW d \in DOMAIN ds
        PROVE  /\ Padded(d) \in Seq(X) /\ Len(Padded(d)) = Len(ds[d]) + 2
               /\ Padded(d)[1] = START_TOKEN
               /\ Padded(d)[Len(ds[d]) + 2] = END_TOKEN
               /\ \A i \in 1..Len(ds[d]) : Padded(d)[i + 1] = ds[d][i]
    <2>1. PICK doc \in Seq(X) : doc = ds[d]
      BY <1>1
    <2>2. Len(doc) \in Nat
      BY LenProperties
    <2>3. PICK one : one = [i \in 1..1 |-> START_TOKEN]
      OBVIOUS
    <2>4. one \in Seq(X) /\ Len(one) = 1 /\ one[1] = START_TOKEN
      <3>1. one \in [1..1 -> X] /\ 1 \in Nat /\ one[1] = START_TOKEN
        BY <2>3, <1>2
      <3> HIDE DEF X
      <3> QED BY <3>1, FunctionIsSeq
    <2>5. PICK end : end = <<END_TOKEN>>
      OBVIOUS
    <2>6. end \in Seq(X) /\ Len(end) = 1 /\ end[1] = END_TOKEN
      <3> HIDE DEF X
      <3> QED BY <2>5, <1>2, Singleton
    <2>7. /\ one \o doc \in Seq(X) /\ Len(one \o doc) = 1 + Len(doc)
          /\ \A i \in 1..(1 + Len(doc)) : (one \o doc)[i] = IF i <= 1 THEN one[i] ELSE doc[i - 1]
      <3> HIDE DEF X
      <3>1. PICK s \in Seq(X) : s = one
        BY <2>4
      <3>2. /\ s \o doc \in Seq(X) /\ Len(s \o doc) = Len(s) + Len(doc)
            /\ \A i \in 1..(Len(s) + Len(doc)) :
                 (s \o doc)[i] = IF i <= Len(s) THEN s[i] ELSE doc[i - Len(s)]
        BY ConcatProperties
      <3> QED BY <3>1, <3>2, <2>4
    <2>8. PICK most \in Seq(X) : most = one \o doc
      BY <2>7
    <2>9. /\ most \o end \in Seq(X) /\ Len(most \o end) = Len(most) + Len(end)
          /\ \A i \in 1..(Len(most) + Len(end)) :
               (most \o end)[i] = IF i <= Len(most) THEN most[i] ELSE end[i - Len(most)]
      <3> HIDE DEF X
      <3>1. PICK t \in Seq(X) : t = end
        BY <2>6
      <3>2. /\ most \o t \in Seq(X) /\ Len(most \o t) = Len(most) + Len(t)
            /\ \A i \in 1..(Len(most) + Len(t)) :
                 (most \o t)[i] = IF i <= Len(most) THEN most[i] ELSE t[i - Len(most)]
        BY ConcatProperties
      <3> QED BY <3>1, <3>2
    <2>10. Len(most) = Len(doc) + 1 /\ Len(most) + Len(end) = Len(doc) + 2
      BY <2>2, <2>6, <2>7, <2>8
    <2>11. Padded(d) = most \o end
      BY <2>1, <2>3, <2>5, <2>8 DEF AddStartEndToken
    <2>12. 1 \in 1..(1 + Len(doc)) /\ 1 \in 1..(Len(doc) + 2) /\ Len(doc) + 2 \in 1..(Len(doc) + 2)
           /\ ~ (Len(doc) + 2 <= Len(doc) + 1) /\ (Len(doc) + 2) - (Len(doc) + 1) = 1
           /\ 1 <= Len(doc) + 1
      BY <2>2
    <2>13. (most \o end)[1] = START_TOKEN
      BY <2>4, <2>7, <2>8, <2>9, <2>10, <2>12
    <2>14. (most \o end)[Len(doc) + 2] = END_TOKEN
      BY <2>6, <2>9, <2>10, <2>12
    <2>15. ASSUME NEW i \in 1..Len(doc)
           PROVE  (most \o end)[i + 1] = doc[i]
      <3>1. i + 1 \in 1..(Len(doc) + 2) /\ i + 1 <= Len(doc) + 1 /\ i + 1 \in 1..(1 + Len(doc))
            /\ ~ (i + 1 <= 1) /\ (i + 1) - 1 = i
        BY <2>2
      <3>2. (most \o end)[i + 1] = most[i + 1]
        BY <3>1, <2>9, <2>10
      <3>3. most[i + 1] = doc[(i + 1) - 1]
        BY <3>1, <2>7, <2>8
      <3> QED BY <3>1, <3>2, <3>3
    <2> HIDE DEF Padded, X
    <2> QED BY <2>1, <2>9, <2>10, <2>11, <2>13, <2>14, <2>15
  <1> HIDE DEF Padded
  <1>5. \E d \in DOMAIN ds : \E b \in Begins(ds[d]) : Padded(d)[b] = w
    <2>1. CASE w = START_TOKEN
      <3>1. 1 \in DOMAIN ds
        BY <1>1
      <3>2. 1 \in Begins(ds[1])
        BY <3>1, <1>3
      <3> QED BY <3>1, <3>2, <1>4, <2>1
    <2>2. CASE w = END_TOKEN
      <3>1. 1 \in DOMAIN ds
        BY <1>1
      <3>2. Len(ds[1]) + 2 \in Begins(ds[1])
        BY <3>1, <1>3
      <3> QED BY <3>1, <3>2, <1>4, <2>2
    <2>3. CASE w \in Words(ds)
      <3>1. PICK d \in DOMAIN ds : w \in ToSet(ds[d])
        BY <2>3 DEF Words
      <3>2. PICK i \in 1..Len(ds[d]) : w = ds[d][i]
        BY <3>1, <1>1, LenProperties DEF ToSet
      <3>3. i + 1 \in Begins(ds[d])
        BY <3>1, <1>3
      <3> QED BY <3>1, <3>2, <3>3, <1>4
    <2> QED BY <2>1, <2>2, <2>3
  <1>6. PICK d \in DOMAIN ds : \E b \in Begins(ds[d]) : Padded(d)[b] = w
    BY <1>5
  <1>7. PICK b \in Begins(ds[d]) : Padded(d)[b] = w
    BY <1>6
  <1>8. b \in At1(d)
    <2>1. PICK s \in Seq(X) : s = Padded(d)
      BY <1>4
    <2>2. b \in 1..Len(s) /\ Len(s) \in Nat /\ b + 1 - 1 = b
      BY <2>1, <1>3, <1>4
    <2>3. SubSeq(s, b, b) = <<s[b]>>
      <3> HIDE DEF X
      <3> QED BY <2>2, OneElement
    <2> QED BY <2>1, <2>2, <2>3, <1>7
  <1>9. \A e \in DOMAIN ds : IsFiniteSet({<<e, i>> : i \in At1(e)})
    <2> SUFFICES ASSUME NEW e \in DOMAIN ds
                 PROVE  IsFiniteSet({<<e, i>> : i \in At1(e)})
      OBVIOUS
    <2>1. IsFiniteSet(Begins(ds[e]))
      BY <1>3, UpTo
    <2>2. PICK A : A = At1(e)
      OBVIOUS
    <2>3. A \subseteq Begins(ds[e])
      BY <2>2
    <2>4. IsFiniteSet(A)
      BY <2>1, <2>3, FS_Subset
    <2>5. IsFiniteSet({e} \X A)
      BY <2>4, FS_Singleton, FS_Product
    <2>6. {<<e, i>> : i \in A} \subseteq {e} \X A
      OBVIOUS
    <2>7. IsFiniteSet({<<e, i>> : i \in A})
      BY <2>5, <2>6, FS_Subset
    <2> QED BY <2>2, <2>7
  <1> HIDE DEF At1
  <1>10. IsFiniteSet(All)
    <2>1. IsFiniteSet(DOMAIN ds)
      BY <1>1, UpTo
    <2>2. PICK f : f = [e \in DOMAIN ds |-> {<<e, i>> : i \in At1(e)}]
      OBVIOUS
    <2>3. f \in [DOMAIN ds -> All] /\ \A y \in All : \E e \in DOMAIN ds : f[e] = y
      BY <2>2
    <2>4. f \in Surjection(DOMAIN ds, All)
      BY <2>3 DEF Surjection
    <2> QED BY <2>1, <2>4, FS_Surjection
  <1>11. \A t \in All : IsFiniteSet(t)
    BY <1>9
  <1>12. <<d, b>> \in UNION All
    BY <1>8
  <1>13. IsFiniteSet(UNION All)
    <2> HIDE DEF All
    <2> QED BY <1>10, <1>11, FS_UNION
  <1>14. Cardinality(UNION All) \in Nat /\ Cardinality(UNION All) # 0
    <2> HIDE DEF All
    <2> QED BY <1>12, <1>13, FS_CardinalityType, FS_EmptySet
  <1>15. Len(<<w>>) = 1
    OBVIOUS
  <1>16. Count(ds, <<w>>) = Cardinality(UNION All)
    BY <1>15 DEF Count, All, At1, Padded
  <1> QED BY <1>14, <1>16

\* A query of counted words is possible: the estimate of a word after no words is its
\* count, and the backoff comes to it.
LEMMA CountedIsPossible ==
  ASSUME NEW ds \in Seq(Seq(Seq(Letters))), ds # << >>,
         NEW query \in Seq(Words(ds) \cup {START_TOKEN, END_TOKEN})
  PROVE  Possible(ds, query)
  <1> DEFINE A == Words(ds) \cup {START_TOKEN, END_TOKEN}
  <1>1. PICK q : q = AddStartEndToken(query, 4)
    OBVIOUS
  <1>2. q \in Seq(A)
    <2>1. PICK start : start = [i \in 1..4 |-> START_TOKEN]
      OBVIOUS
    <2>2. START_TOKEN \in A /\ END_TOKEN \in A
      OBVIOUS
    <2> HIDE DEF A
    <2>3. start \in Seq(A)
      <3>1. start \in [1..4 -> A] /\ 4 \in Nat
        BY <2>1, <2>2
      <3> QED BY <3>1, FunctionIsSeq
    <2>4. <<END_TOKEN>> \in Seq(A)
      BY <2>2, Singleton
    <2>5. query \in Seq(A)
      BY DEF A
    <2>6. start \o query \in Seq(A)
      BY <2>3, <2>5, ConcatProperties
    <2>7. (start \o query) \o <<END_TOKEN>> \in Seq(A)
      BY <2>4, <2>6, ConcatProperties
    <2> QED BY <2>1, <2>7, <1>1 DEF AddStartEndToken
  <1>3. \A w \in A : Count(ds, <<w>>) \in Nat /\ Count(ds, <<w>>) # 0
    BY WordsAreCounted
  <1> HIDE DEF A
  <1>4. ASSUME NEW i \in 5..Len(q)
        PROVE  StupidBackoff(ds, q[i], SubSeq(q, i - 3, i - 1)).num # 0
    <2>1. i \in 1..Len(q) /\ Len(q) \in Nat
      BY <1>2, LenProperties
    <2>2. PICK w \in A : w = q[i]
      BY <2>1, <1>2, ElementOfSeq
    <2>3. PICK prev : prev = SubSeq(q, i - 3, i - 1)
      OBVIOUS
    <2>4. prev \in Seq(A)
      <3>1. i - 3 \in Int /\ i - 1 \in Int /\ \A j \in (i - 3)..(i - 1) : j \in 1..Len(q)
        BY <2>1
      <3>2. \A j \in (i - 3)..(i - 1) : q[j] \in A
        BY <3>1, <1>2, ElementOfSeq
      <3> QED BY <2>3, <3>1, <3>2, SubSeqProperties
    <2>5. PICK n \in Nat : n = Len(prev)
      BY <2>4, LenProperties
    <2>6. SubSeq(prev, n + 1, n) = << >>
      BY SubSeqEmpty
    <2>7. EstimateProbability(ds, w, << >>).num = Count(ds, <<w>>)
      BY DEF EstimateProbability
    <2> DEFINE Tried(k) == EstimateProbability(ds, w, SubSeq(prev, k + 1, Len(prev))).num
    <2>8. PICK tries : tries = {k \in 0..Len(prev) : Tried(k) # 0}
      OBVIOUS
    <2>9. n \in tries
      <3>1. Tried(n) # 0
        BY <2>5, <2>6, <2>7, <1>3
      <3> HIDE DEF Tried
      <3> QED BY <2>5, <2>8, <3>1
    <2>10. tries \in SUBSET Nat /\ tries # {}
      <3> HIDE DEF Tried
      <3>1. \A k \in tries : k \in 0..n
        BY <2>5, <2>8
      <3>2. \A k \in 0..n : k \in Nat
        OBVIOUS
      <3> QED BY <3>1, <3>2, <2>9
    <2>11. Min(tries) \in tries
      BY <2>10, MinIn
    <2>12. Tried(Min(tries)) # 0
      <3> HIDE DEF Tried
      <3> QED BY <2>8, <2>11
    <2>13. StupidBackoff(ds, w, prev) =
             IF tries = {} THEN Zero
             ELSE EstimateProbability(ds, w, SubSeq(prev, Min(tries) + 1, Len(prev)))
      BY <2>8 DEF StupidBackoff
    <2>14. StupidBackoff(ds, w, prev).num # 0
      BY <2>10, <2>12, <2>13
    <2> QED BY <2>2, <2>3, <2>14
  <1> QED BY <1>1, <1>4 DEF Possible

-----------------------------------------------------------------------------
(* Candidates                                                              *)

LEMMA WordsFinite ==
  ASSUME NEW X, NEW ds \in Seq(Seq(X))
  PROVE  IsFiniteSet(Words(ds)) /\ Words(ds) \subseteq X
  <1>1. /\ DOMAIN ds = 1..Len(ds)
        /\ \A d \in DOMAIN ds : ds[d] \in Seq(X) /\ DOMAIN ds[d] = 1..Len(ds[d])
    BY LenProperties, ElementOfSeq
  <1>2. PICK f : f = [p \in Positions(ds) |-> At(ds, p)]
    OBVIOUS
  <1>3. ASSUME NEW p \in Positions(ds)
        PROVE  At(ds, p) \in Words(ds)
    <2>1. PICK d \in DOMAIN ds : p \in {d} \X DOMAIN ds[d]
      BY DEF Positions
    <2>2. p[1] = d /\ p[2] \in DOMAIN ds[d]
      BY <2>1
    <2> QED BY <2>2 DEF At, Words, ToSet
  <1>4. ASSUME NEW w \in Words(ds)
        PROVE  \E p \in Positions(ds) : f[p] = w
    <2>1. PICK d \in DOMAIN ds : w \in ToSet(ds[d])
      BY DEF Words
    <2>2. PICK i \in DOMAIN ds[d] : w = ds[d][i]
      BY <2>1 DEF ToSet
    <2>3. PICK p : p = <<d, i>>
      OBVIOUS
    <2>4. p \in {d} \X DOMAIN ds[d] /\ p[1] = d /\ p[2] = i
      BY <2>3
    <2>5. p \in Positions(ds)
      BY <2>4 DEF Positions
    <2> QED BY <2>2, <2>4, <2>5, <1>2 DEF At
  <1>5. f \in [Positions(ds) -> Words(ds)]
    BY <1>2, <1>3
  <1>6. f \in Surjection(Positions(ds), Words(ds))
    BY <1>4, <1>5 DEF Surjection
  <1>7. IsFiniteSet(Words(ds))
    BY <1>6, PositionsFinite, FS_Surjection
  <1>8. Words(ds) \subseteq X
    BY <1>1, ElementOfSeq DEF Words, ToSet
  <1> QED BY <1>7, <1>8

LEMMA DocumentsAreWords ==
  ASSUME docs \in Seq(Documents)
  PROVE  docs \in Seq(Seq(Seq(Letters)))
  <1>1. STRING \subseteq Letters
    BY DEF Letters
  <1>2. Seq(STRING) \subseteq Seq(Letters)
    BY <1>1, SeqMonotonic
  <1>3. Seq(Seq(STRING)) \subseteq Seq(Seq(Letters))
    BY <1>2, SeqMonotonic
  <1>4. Documents \subseteq Seq(Seq(Letters))
    BY <1>3, SearchWordsAssumption
  <1> QED BY <1>4, SeqMonotonic

LEMMA QueryIsWords ==
  ASSUME NEW q \in Queries
  PROVE  /\ q \in Seq(Seq(Letters)) /\ Len(q) \in Nat /\ DOMAIN q = 1..Len(q)
         /\ \A i \in DOMAIN q : q[i] \in Seq(Letters) /\ ToSet(q[i]) \cap {"U", "N", "K"} = {}
  <1>1. STRING \subseteq Letters
    BY DEF Letters
  <1>2. Seq(STRING) \subseteq Seq(Letters)
    BY <1>1, SeqMonotonic
  <1>3. Seq(Seq(STRING)) \subseteq Seq(Seq(Letters))
    BY <1>2, SeqMonotonic
  <1>4. q \in Seq(Seq(Letters))
    BY <1>3, SearchWordsAssumption
  <1>5. Len(q) \in Nat /\ DOMAIN q = 1..Len(q) /\ \A i \in 1..Len(q) : q[i] \in Seq(Letters)
    BY <1>4, LenProperties, ElementOfSeq
  <1>6. \A i \in DOMAIN q : ToSet(q[i]) \cap {"U", "N", "K"} = {}
    BY SearchWordsAssumption DEF ToSet
  <1> QED BY <1>4, <1>5, <1>6

LEMMA KnownHas ==
  ASSUME docs \in Seq(Documents)
  PROVE  /\ Known = Markers \cup Words(docs)
         /\ IsFiniteSet(Known) /\ Known \subseteq Seq(Letters)
  <1>1. Known = Markers \cup Words(docs)
    BY DEF Known, Words
  <1>2. IsFiniteSet(Words(docs)) /\ Words(docs) \subseteq Seq(Letters)
    BY DocumentsAreWords, WordsFinite
  <1>3. IsFiniteSet(Markers)
    <2>1. Markers = {UNKNOWN_TOKEN} \cup {START_TOKEN} \cup {END_TOKEN}
      BY DEF Markers
    <2>2. IsFiniteSet({UNKNOWN_TOKEN}) /\ IsFiniteSet({START_TOKEN}) /\ IsFiniteSet({END_TOKEN})
      BY FS_Singleton
    <2>3. IsFiniteSet({UNKNOWN_TOKEN} \cup {START_TOKEN})
      BY <2>2, FS_Union
    <2> QED BY <2>1, <2>2, <2>3, FS_Union
  <1>4. IsFiniteSet(Known)
    BY <1>1, <1>2, <1>3, FS_Union
  <1> QED BY <1>1, <1>2, <1>4, MarkersAreWords

LEMMA NearWords ==
  ASSUME docs \in Seq(Documents), vocabulary = Known, NEW w, NEW distance
  PROVE  /\ GetWordCandidates(w, distance) \in Seq(Known)
         /\ ToSet(GetWordCandidates(w, distance)) = {v \in Known : Levenshtein(w, v) <= distance}
         /\ IsInjective(GetWordCandidates(w, distance))
  <1>1. PICK S : S = {v \in Known : Levenshtein(w, v) <= distance}
    OBVIOUS
  <1>2. S \subseteq Known /\ IsFiniteSet(S)
    BY <1>1, KnownHas, FS_Subset
  <1>3. GetWordCandidates(w, distance) = Listed(S)
    BY <1>1 DEF GetWordCandidates
  <1>4. Listed(S) \in Seq(S) /\ ToSet(Listed(S)) = S /\ IsInjective(Listed(S))
    BY <1>2, ListedHas
  <1>5. Listed(S) \in Seq(Known)
    BY <1>2, <1>4, SeqMonotonic
  <1> QED BY <1>1, <1>3, <1>4, <1>5

LEMMA PrefixedWords ==
  ASSUME docs \in Seq(Documents), vocabulary = Known, NEW w
  PROVE  /\ GetMatchedWordBasedOnPrefix(w) \in Seq(Known)
         /\ ToSet(GetMatchedWordBasedOnPrefix(w)) = {v \in Known : IsPrefix(w, v)}
         /\ IsInjective(GetMatchedWordBasedOnPrefix(w))
  <1>1. PICK S : S = {v \in Known : IsPrefix(w, v)}
    OBVIOUS
  <1>2. S \subseteq Known /\ IsFiniteSet(S)
    BY <1>1, KnownHas, FS_Subset
  <1>3. GetMatchedWordBasedOnPrefix(w) = Listed(S)
    BY <1>1 DEF GetMatchedWordBasedOnPrefix
  <1>4. Listed(S) \in Seq(S) /\ ToSet(Listed(S)) = S /\ IsInjective(Listed(S))
    BY <1>2, ListedHas
  <1>5. Listed(S) \in Seq(Known)
    BY <1>2, <1>4, SeqMonotonic
  <1> QED BY <1>1, <1>3, <1>4, <1>5

\* Within one edit is within two.
LEMMA OneIsNear ==
  ASSUME docs \in Seq(Documents), NEW w \in Seq(Letters)
  PROVE  {v \in Known : Levenshtein(w, v) <= 1} \subseteq Near(w)
  <1> SUFFICES ASSUME NEW v \in Known, Levenshtein(w, v) <= 1
               PROVE  Levenshtein(w, v) <= 2
    BY DEF Near
  <1>1. Levenshtein(w, v) \in Nat
    BY KnownHas, LevenshteinType
  <1> QED BY <1>1

LEMMA ItselfAlone ==
  ASSUME NEW w \in Known
  PROVE  <<w>> \in Seq(Known) /\ ToSet(<<w>>) = {w} /\ IsInjective(<<w>>)
  <1>1. DOMAIN <<w>> = {1} /\ <<w>>[1] = w /\ <<w>> \in Seq(Known)
    BY Singleton
  <1> QED BY <1>1 DEF ToSet, IsInjective

LEMMA FreeFormHas ==
  ASSUME docs \in Seq(Documents), vocabulary = Known, NEW w \in Seq(Letters)
  PROVE  /\ FreeFormCandidates(w) \in Seq(Known)
         /\ ToSet(FreeFormCandidates(w)) = Admitted(w, {})
  <1>1. CASE w \in Known
    BY <1>1, ItselfAlone DEF FreeFormCandidates, IsInVocabulary, Admitted
  <1>2. CASE w \notin Known
    <2>1. PICK a \in Seq(Known) : a = GetWordCandidates(w, 1)
      BY NearWords
    <2>2. PICK b \in Seq(Known) : b = GetWordCandidates(w, 2)
      BY NearWords
    <2>3. ToSet(a) \subseteq Near(w)
      BY <2>1, NearWords, OneIsNear
    <2>4. ToSet(b) = Near(w)
      BY <2>2, NearWords DEF Near
    <2>5. a \o b \in Seq(Known) /\ ToSet(a \o b) = ToSet(a) \cup ToSet(b)
      BY ConcatSet
    <2>6. FreeFormCandidates(w) = a \o b
      BY <1>2, <2>1, <2>2 DEF FreeFormCandidates, IsInVocabulary
    <2>7. Admitted(w, {}) = Near(w)
      BY <1>2 DEF Admitted
    <2> QED BY <2>3, <2>4, <2>5, <2>6, <2>7
  <1> QED BY <1>1, <1>2

Completed(w) == {v \in Known : IsPrefix(w, v)}

LEMMA AutocompleteHas ==
  ASSUME docs \in Seq(Documents), vocabulary = Known, NEW w \in Seq(Letters)
  PROVE  /\ AutocompleteCandidates(w) \in Seq(Known)
         /\ ToSet(AutocompleteCandidates(w)) = Admitted(w, Completed(w))
         /\ IsInjective(AutocompleteCandidates(w))
  <1>1. CASE w \in Known
    BY <1>1, ItselfAlone DEF AutocompleteCandidates, IsInVocabulary, Admitted
  <1>2. CASE w \notin Known
    <2>1. PICK a \in Seq(Known) : a = GetWordCandidates(w, 1)
      BY NearWords
    <2>2. PICK b \in Seq(Known) : b = GetWordCandidates(w, 2)
      BY NearWords
    <2>3. PICK c \in Seq(Known) : c = GetMatchedWordBasedOnPrefix(w)
      BY PrefixedWords
    <2>4. ToSet(a) \subseteq Near(w)
      BY <2>1, NearWords, OneIsNear
    <2>5. ToSet(b) = Near(w)
      BY <2>2, NearWords DEF Near
    <2>6. ToSet(c) = Completed(w) /\ IsInjective(c)
      BY <2>3, PrefixedWords DEF Completed
    <2>7. PICK d \in Seq(Known) : d = WithoutSeen(c, a)
      BY WithoutSeenHas
    <2>8. ToSet(d) = ToSet(c) \cup ToSet(a) /\ IsInjective(d)
      BY <2>6, <2>7, WithoutSeenHas
    <2>9. /\ WithoutSeen(d, b) \in Seq(Known) /\ ToSet(WithoutSeen(d, b)) = ToSet(d) \cup ToSet(b)
          /\ IsInjective(WithoutSeen(d, b))
      BY <2>8, WithoutSeenHas
    <2>10. AutocompleteCandidates(w) = WithoutSeen(d, b)
      BY <1>2, <2>1, <2>2, <2>3, <2>7 DEF AutocompleteCandidates, IsInVocabulary
    <2>11. Admitted(w, Completed(w)) = Near(w) \cup Completed(w)
      BY <1>2 DEF Admitted
    <2> QED BY <2>4, <2>5, <2>6, <2>8, <2>9, <2>10, <2>11
  <1> QED BY <1>1, <1>2

-----------------------------------------------------------------------------
(* How many completions there are                                          *)

OfWord(q, i) == Admitted(q[i], {v \in Known : IsPrefix(q[i], v)})

Ways(q) == FoldLeft(LAMBDA n, i : n * Cardinality(OfWord(q, i)), 1, [i \in DOMAIN q |-> i])

WaysStep(q, h) ==
  [T \in SUBSET (DOMAIN [i \in DOMAIN q |-> i]) |->
     IF T = {} THEN 1
     ELSE h[T \ {Max(T)}] * Cardinality(OfWord(q, [i \in DOMAIN q |-> i][Max(T)]))]

WaysFold(q) == CHOOSE h : h = WaysStep(q, h)

LEMMA WaysIs ==
  ASSUME NEW q
  PROVE  Ways(q) = WaysFold(q)[DOMAIN [i \in DOMAIN q |-> i]]
  BY DEF Ways, FoldLeft, MapThenFoldSet, WaysFold, WaysStep

\* The ways multiply word by word.
LEMMA WaysChain ==
  ASSUME NEW X, NEW q \in Seq(X), \A i \in 1..Len(q) : Cardinality(OfWord(q, i)) \in Nat
  PROVE  \E r : /\ r \in [0..Len(q) -> Nat]
                /\ r[0] = 1
                /\ \A k \in 0..(Len(q) - 1) : r[k + 1] = r[k] * Cardinality(OfWord(q, k + 1))
                /\ Ways(q) = r[Len(q)]
  <1> DEFINE n == Len(q)
             C(i) == Cardinality(OfWord(q, i))
             G == [x \in (1..n) \X Nat |-> x[2] * C(x[1])]
             D == SUBSET (1..n)
  <1>1. n \in Nat /\ DOMAIN q = 1..n /\ \A i \in 1..n : C(i) \in Nat
    BY LenProperties
  <1> HIDE DEF C
  <1>2. \A k \in 1..n : \A v \in Nat : G[<<k, v>>] = v * C(k) /\ G[<<k, v>>] \in Nat
    <2>1. \A k \in 1..n : \A v \in Nat : G[<<k, v>>] = v * C(k)
      OBVIOUS
    <2>2. \A k \in 1..n : \A v \in Nat : v * C(k) \in Nat
      <3> SUFFICES ASSUME NEW k \in 1..n, NEW v \in Nat
                   PROVE  v * C(k) \in Nat
        OBVIOUS
      <3>1. PICK c \in Nat : c = C(k)
        BY <1>1
      <3>2. v * c \in Nat
        OBVIOUS
      <3> QED BY <3>1, <3>2
    <2> QED BY <2>1, <2>2
  <1> HIDE DEF G
  <1>3. FoldingUp(n, Nat, 1, G)
    <2> HIDE DEF n
    <2> QED BY <1>1, <1>2 DEF FoldingUp
  <1>4. PICK f : SolvesUp(f, n, Nat, 1, G)
    <2> HIDE DEF n
    <2> QED BY <1>3, UpRecursion
  <1>5. f \in [D -> Nat] /\ \A T \in D : f[T] = IF T = {} THEN 1 ELSE G[<<Max(T), f[T \ {Max(T)}]>>]
    BY <1>4 DEF SolvesUp
  <1>6. \A T \in D : T # {} => f[T] = f[T \ {Max(T)}] * C(Max(T))
    <2> SUFFICES ASSUME NEW T \in D, T # {}
                 PROVE  f[T] = f[T \ {Max(T)}] * C(Max(T))
      OBVIOUS
    <2>1. Max(T) \in 1..n /\ T \ {Max(T)} \in D
      BY <1>1, MaxIn
    <2>2. f[T \ {Max(T)}] \in Nat
      BY <2>1, <1>5
    <2> HIDE DEF n, D
    <2> QED BY <2>1, <2>2, <1>2, <1>5
  <1>7. PICK one : one = [i \in DOMAIN q |-> i]
    OBVIOUS
  <1>8. DOMAIN one = 1..n /\ \A i \in 1..n : one[i] = i
    BY <1>1, <1>7
  <1>9. ASSUME NEW h
        PROVE  WaysStep(q, h) = [T \in D |-> IF T = {} THEN 1 ELSE h[T \ {Max(T)}] * C(Max(T))]
    <2>1. WaysStep(q, h) =
            [T \in D |-> IF T = {} THEN 1 ELSE h[T \ {Max(T)}] * C(one[Max(T)])]
      BY <1>7, <1>8 DEF WaysStep, C
    <2>2. \A T \in D : T # {} => one[Max(T)] = Max(T)
      BY <1>1, <1>8, MaxIn
    <2> HIDE DEF D
    <2> QED BY <2>1, <2>2
  <1>10. f = WaysStep(q, f)
    <2>1. \A T \in D : f[T] = IF T = {} THEN 1 ELSE f[T \ {Max(T)}] * C(Max(T))
      BY <1>5, <1>6
    <2>2. WaysStep(q, f) = [T \in D |-> IF T = {} THEN 1 ELSE f[T \ {Max(T)}] * C(Max(T))]
      BY <1>9
    <2> HIDE DEF D
    <2> QED BY <2>1, <2>2, <1>5
  <1>11. PICK g : g = WaysFold(q)
    OBVIOUS
  <1>12. g = WaysStep(q, g)
    BY <1>10, <1>11 DEF WaysFold
  <1>13. \A T \in D : g[T] = IF T = {} THEN 1 ELSE g[T \ {Max(T)}] * C(Max(T))
    <2>1. g = [T \in D |-> IF T = {} THEN 1 ELSE g[T \ {Max(T)}] * C(Max(T))]
      BY <1>9, <1>12
    <2> HIDE DEF D
    <2> QED BY <2>1
  <1>14. f[1..n] = g[1..n]
    <2>1. f[{}] = g[{}]
      BY <1>5, <1>13
    <2>2. \A T \in D : T # {} /\ f[T \ {Max(T)}] = g[T \ {Max(T)}] => f[T] = g[T]
      BY <1>6, <1>13
    <2> QED BY <2>1, <2>2, <1>1, UpUnique
  <1>15. PICK r : /\ r \in [0..n -> Nat]
                  /\ r[0] = 1
                  /\ \A k \in 0..(n - 1) : r[k + 1] = G[<<k + 1, r[k]>>]
                  /\ r[n] = f[1..n]
    <2> HIDE DEF n
    <2> QED BY <1>1, <1>4, UpChain
  <1>16. \A k \in 0..(n - 1) : k + 1 \in 1..n /\ r[k] \in Nat
    BY <1>1, <1>15
  <1>17. \A k \in 0..(n - 1) : r[k + 1] = r[k] * C(k + 1)
    BY <1>2, <1>15, <1>16
  <1>18. Ways(q) = r[n]
    BY <1>7, <1>8, <1>11, <1>14, <1>15, WaysIs
  <1> QED BY <1>15, <1>17, <1>18 DEF C

\* As many elements as a list that has each once is long.
LEMMA ListedLength ==
  ASSUME NEW X, NEW s \in Seq(X), IsInjective(s)
  PROVE  Cardinality(ToSet(s)) = Len(s) /\ IsFiniteSet(ToSet(s))
  <1>1. Len(s) \in Nat /\ DOMAIN s = 1..Len(s) /\ s \in [1..Len(s) -> X]
    BY LenProperties, ElementOfSeq
  <1>2. s \in [1..Len(s) -> ToSet(s)] /\ \A x \in ToSet(s) : \E i \in 1..Len(s) : s[i] = x
    BY <1>1 DEF ToSet
  <1>3. s \in Surjection(1..Len(s), ToSet(s))
    BY <1>2 DEF Surjection
  <1>4. s \in Injection(1..Len(s), ToSet(s))
    BY <1>1, <1>2 DEF Injection, IsInjective
  <1>5. s \in Bijection(1..Len(s), ToSet(s))
    BY <1>3, <1>4 DEF Bijection
  <1>6. IsFiniteSet(1..Len(s)) /\ Cardinality(1..Len(s)) = Len(s)
    BY <1>1, UpTo
  <1>7. ExistsBijection(1..Len(s), ToSet(s))
    BY <1>5 DEF ExistsBijection
  <1> QED BY <1>6, <1>7, FS_Bijection

-----------------------------------------------------------------------------
(* The queries to choose from                                              *)

FreeForms(q)   == Products([i \in DOMAIN q |-> FreeFormCandidates(q[i])])
Completions(q) == Products([i \in DOMAIN q |-> AutocompleteCandidates(q[i])])

LEMMA FreeFormsHave ==
  ASSUME docs \in Seq(Documents), vocabulary = Known, NEW q \in Queries
  PROVE  /\ FreeForms(q) \in Seq(Seq(Known))
         /\ \A k \in DOMAIN FreeForms(q) :
              /\ Len(FreeForms(q)[k]) = Len(q)
              /\ \A i \in DOMAIN q : FreeForms(q)[k][i] \in Admitted(q[i], {})
         /\ (\A i \in DOMAIN q : Admitted(q[i], {}) # {}) => DOMAIN FreeForms(q) # {}
  <1>1. PICK lists : lists = [i \in DOMAIN q |-> FreeFormCandidates(q[i])]
    OBVIOUS
  <1>2. Len(q) \in Nat /\ DOMAIN q = 1..Len(q) /\ \A i \in DOMAIN q : q[i] \in Seq(Letters)
    BY QueryIsWords
  <1>3. \A i \in DOMAIN q : lists[i] \in Seq(Known) /\ ToSet(lists[i]) = Admitted(q[i], {})
    BY <1>1, <1>2, FreeFormHas
  <1>4. lists \in [1..Len(q) -> Seq(Known)]
    BY <1>1, <1>2, <1>3
  <1>5. lists \in Seq(Seq(Known)) /\ Len(lists) = Len(q)
    BY <1>2, <1>4, FunctionIsSeq
  <1>6. PICK all : all = Products(lists)
    OBVIOUS
  <1>7. /\ all \in Seq(Seq(Known))
        /\ \A x \in ToSet(all) :
             Len(x) = Len(lists) /\ \A i \in 1..Len(lists) : x[i] \in ToSet(lists[i])
        /\ (\A i \in 1..Len(lists) : Len(lists[i]) # 0) => Len(all) # 0
    BY <1>5, <1>6, ProductsHave
  <1>8. DOMAIN all = 1..Len(all) /\ Len(all) \in Nat
    BY <1>7, LenProperties
  <1>9. ASSUME NEW k \in DOMAIN all
        PROVE  Len(all[k]) = Len(q) /\ \A i \in DOMAIN q : all[k][i] \in Admitted(q[i], {})
    <2>1. all[k] \in ToSet(all)
      BY DEF ToSet
    <2> QED BY <2>1, <1>2, <1>3, <1>5, <1>7
  <1>10. ASSUME \A i \in DOMAIN q : Admitted(q[i], {}) # {}
         PROVE  DOMAIN all # {}
    <2>1. ASSUME NEW i \in 1..Len(lists)
          PROVE  Len(lists[i]) # 0
      <3>1. i \in DOMAIN q
        BY <1>2, <1>5
      <3>2. ToSet(lists[i]) # {} /\ lists[i] \in Seq(Known)
        BY <3>1, <1>3, <1>10
      <3>3. PICK s \in Seq(Known) : s = lists[i]
        BY <3>2
      <3>4. DOMAIN s = 1..Len(s)
        BY LenProperties
      <3>5. DOMAIN s # {}
        BY <3>2, <3>3 DEF ToSet
      <3> QED BY <3>3, <3>4, <3>5
    <2>2. Len(all) # 0
      BY <2>1, <1>7
    <2>3. PICK m \in Nat : m = Len(all) /\ DOMAIN all = 1..m
      BY <1>8
    <2>4. 1 \in 1..m
      BY <2>2, <2>3
    <2> QED BY <2>3, <2>4
  <1>11. FreeForms(q) = all
    BY <1>1, <1>6 DEF FreeForms
  <1> QED BY <1>7, <1>9, <1>10, <1>11

LEMMA CompletionsHave ==
  ASSUME docs \in Seq(Documents), vocabulary = Known, NEW q \in Queries
  PROVE  /\ Completions(q) \in Seq(Seq(Known))
         /\ \A k \in DOMAIN Completions(q) :
              /\ Len(Completions(q)[k]) = Len(q)
              /\ \A i \in DOMAIN q : Completions(q)[k][i] \in OfWord(q, i)
         /\ IsInjective(Completions(q))
         /\ Len(Completions(q)) = Ways(q)
  <1>1. PICK lists : lists = [i \in DOMAIN q |-> AutocompleteCandidates(q[i])]
    OBVIOUS
  <1>2. /\ q \in Seq(Seq(Letters)) /\ Len(q) \in Nat /\ DOMAIN q = 1..Len(q)
        /\ \A i \in DOMAIN q : q[i] \in Seq(Letters)
    BY QueryIsWords
  <1>3. \A i \in DOMAIN q : OfWord(q, i) = Admitted(q[i], Completed(q[i]))
    BY DEF OfWord, Completed
  <1>4. \A i \in DOMAIN q : /\ lists[i] \in Seq(Known) /\ ToSet(lists[i]) = OfWord(q, i)
                            /\ IsInjective(lists[i])
    BY <1>1, <1>2, <1>3, AutocompleteHas
  <1>5. lists \in [1..Len(q) -> Seq(Known)]
    BY <1>1, <1>2, <1>4
  <1>6. lists \in Seq(Seq(Known)) /\ Len(lists) = Len(q)
    BY <1>2, <1>5, FunctionIsSeq
  <1>7. PICK all : all = Products(lists)
    OBVIOUS
  <1>8. /\ all \in Seq(Seq(Known))
        /\ \A x \in ToSet(all) :
             Len(x) = Len(lists) /\ \A i \in 1..Len(lists) : x[i] \in ToSet(lists[i])
        /\ (\A i \in 1..Len(lists) : IsInjective(lists[i])) => IsInjective(all)
        /\ \A r : r[0] = 1 /\ (\A k \in 0..(Len(lists) - 1) : r[k + 1] = r[k] * Len(lists[k + 1]))
              => Len(all) = r[Len(lists)]
    BY <1>6, <1>7, ProductsHave
  <1>9. \A i \in 1..Len(q) : /\ Cardinality(OfWord(q, i)) = Len(lists[i])
                             /\ Cardinality(OfWord(q, i)) \in Nat
    <2> SUFFICES ASSUME NEW i \in 1..Len(q)
                 PROVE  /\ Cardinality(OfWord(q, i)) = Len(lists[i])
                        /\ Cardinality(OfWord(q, i)) \in Nat
      OBVIOUS
    <2>1. PICK s \in Seq(Known) : s = lists[i]
      BY <1>2, <1>4
    <2>2. IsInjective(s) /\ ToSet(s) = OfWord(q, i)
      BY <2>1, <1>2, <1>4
    <2>3. Cardinality(ToSet(s)) = Len(s) /\ Len(s) \in Nat
      BY <2>2, ListedLength, LenProperties
    <2> QED BY <2>1, <2>2, <2>3
  <1>10. PICK r : /\ r[0] = 1
                  /\ \A k \in 0..(Len(q) - 1) : r[k + 1] = r[k] * Cardinality(OfWord(q, k + 1))
                  /\ Ways(q) = r[Len(q)]
    BY <1>2, <1>9, WaysChain
  <1>11. \A k \in 0..(Len(q) - 1) : r[k + 1] = r[k] * Len(lists[k + 1])
    <2>1. \A k \in 0..(Len(q) - 1) : k + 1 \in 1..Len(q)
      BY <1>2
    <2> QED BY <2>1, <1>9, <1>10
  <1>12. Len(all) = Ways(q)
    BY <1>6, <1>8, <1>10, <1>11
  <1>13. IsInjective(all)
    BY <1>2, <1>4, <1>6, <1>8
  <1>14. ASSUME NEW k \in DOMAIN all
         PROVE  Len(all[k]) = Len(q) /\ \A i \in DOMAIN q : all[k][i] \in OfWord(q, i)
    <2>1. all[k] \in ToSet(all)
      BY DEF ToSet
    <2> QED BY <2>1, <1>2, <1>4, <1>6, <1>8
  <1>15. Completions(q) = all
    BY <1>1, <1>7 DEF Completions
  <1> QED BY <1>8, <1>12, <1>13, <1>14, <1>15

\* The correction of a lower case word is no <UNK>.
LEMMA NeverUnknown ==
  ASSUME NEW w \in Seq(Letters), ToSet(w) \cap {"U", "N", "K"} = {}
  PROVE  UNKNOWN_TOKEN \notin Admitted(w, {})
  <1>1. UNKNOWN_TOKEN \notin Near(w)
    BY UnknownIsFar DEF Near
  <1>2. w # UNKNOWN_TOKEN
    <2>1. 2 \in DOMAIN UNKNOWN_TOKEN /\ UNKNOWN_TOKEN[2] \in {"U", "N", "K"}
      BY DEF UNKNOWN_TOKEN
    <2>2. ToSet(UNKNOWN_TOKEN) \cap {"U", "N", "K"} # {}
      BY <2>1 DEF ToSet
    <2> QED BY <2>2
  <1> QED BY <1>1, <1>2 DEF Admitted

\* What a free form query may go on with, the language model knows.
LEMMA FreeFormsPossible ==
  ASSUME docs \in Seq(Documents), docs # << >>, vocabulary = Known,
         data = PreProcessData(docs), NEW q \in Queries,
         NEW k \in DOMAIN FreeForms(q)
  PROVE  Possible(data, FreeForms(q)[k])
  <1>1. docs \in Seq(Seq(Seq(Letters)))
    BY DocumentsAreWords
  <1>2. data = docs
    BY <1>1, NothingIsReplaced
  <1>3. PICK x : x = FreeForms(q)[k]
    OBVIOUS
  <1>4. /\ FreeForms(q) \in Seq(Seq(Known)) /\ Len(x) = Len(q)
        /\ \A i \in DOMAIN q : x[i] \in Admitted(q[i], {})
    BY <1>3, FreeFormsHave
  <1>5. x \in Seq(Known)
    BY <1>3, <1>4, LenProperties, ElementOfSeq
  <1>6. Len(q) \in Nat /\ DOMAIN q = 1..Len(q)
        /\ \A i \in DOMAIN q : q[i] \in Seq(Letters) /\ ToSet(q[i]) \cap {"U", "N", "K"} = {}
    BY QueryIsWords
  <1>7. \A i \in 1..Len(x) : x[i] \in Known /\ x[i] # UNKNOWN_TOKEN
    <2> SUFFICES ASSUME NEW i \in 1..Len(x)
                 PROVE  x[i] \in Known /\ x[i] # UNKNOWN_TOKEN
      OBVIOUS
    <2>1. x[i] \in Known
      BY <1>5, ElementOfSeq
    <2>2. x[i] \in Admitted(q[i], {}) /\ q[i] \in Seq(Letters) /\ ToSet(q[i]) \cap {"U", "N", "K"} = {}
      BY <1>4, <1>6
    <2>3. UNKNOWN_TOKEN \notin Admitted(q[i], {})
      BY <2>2, NeverUnknown
    <2> QED BY <2>1, <2>2, <2>3
  <1>8. \A v \in Known : v # UNKNOWN_TOKEN => v \in Words(docs) \cup {START_TOKEN, END_TOKEN}
    BY KnownHas DEF Markers
  <1>9. x \in Seq(Words(docs) \cup {START_TOKEN, END_TOKEN})
    <2>1. Len(x) \in Nat /\ DOMAIN x = 1..Len(x) /\ x = [i \in 1..Len(x) |-> x[i]]
      BY <1>5, LenProperties
    <2>2. x \in [1..Len(x) -> Words(docs) \cup {START_TOKEN, END_TOKEN}]
      BY <2>1, <1>7, <1>8
    <2> QED BY <2>1, <2>2, FunctionIsSeq
  <1>10. Possible(docs, x)
    BY <1>1, <1>9, CountedIsPossible
  <1> QED BY <1>2, <1>3, <1>10

-----------------------------------------------------------------------------
(* What was answered, by the words known                                   *)

OfWordAmong(words, q, i) ==
  IF q[i] \in words THEN {q[i]}
  ELSE {v \in words : Levenshtein(q[i], v) <= 2} \cup {v \in words : IsPrefix(q[i], v)}

WaysAmong(words, q) ==
  FoldLeft(LAMBDA n, i : n * Cardinality(OfWordAmong(words, q, i)), 1, [i \in DOMAIN q |-> i])

Complete(words, a) ==
  a.op = "autocomplete" =>
    /\ IsInjective(a.matched)
    /\ Len(a.matched) = Min({KAutoComplete, WaysAmong(words, a.query)})
    /\ \A k \in DOMAIN a.matched :
         /\ Len(a.matched[k]) = Len(a.query)
         /\ \A i \in DOMAIN a.query : a.matched[k][i] \in OfWordAmong(words, a.query, i)

AnswerComplete == Complete(Known, answer)

LEMMA CompletionsAre ==
  CompletionsDistinct <=> AnswerComplete
  BY DEF CompletionsDistinct, AnswerComplete, Complete, WaysAmong, OfWordAmong, Admitted, Near

LEMMA CompletionsWillBe ==
  CompletionsDistinct' <=> Complete(Known', answer')
  <1>1. CompletionsDistinct' <=> AnswerComplete'
    BY CompletionsAre, PTL
  <1> QED BY <1>1 DEF AnswerComplete

LEMMA WaysAre ==
  ASSUME NEW q
  PROVE  Ways(q) = WaysAmong(Known, q) /\ \A i : OfWord(q, i) = OfWordAmong(Known, q, i)
  <1>1. Ways(q) = WaysAmong(Known, q)
    BY DEF Ways, OfWord, WaysAmong, OfWordAmong, Admitted, Near
  <1>2. \A i : OfWord(q, i) = OfWordAmong(Known, q, i)
    BY DEF OfWord, OfWordAmong, Admitted, Near
  <1> QED BY <1>1, <1>2

NearAmong(words, w) ==
  IF w \in words THEN {w} ELSE {v \in words : Levenshtein(w, v) <= 2}

Corrected(words, a) ==
  /\ a.op = "panic" => \E w \in ToSet(a.query) : NearAmong(words, w) = {}
  /\ a.op = "freeform" =>
       /\ Len(a.matched[1]) = Len(a.query)
       /\ \A i \in DOMAIN a.query : a.matched[1][i] \in NearAmong(words, a.query[i])

LEMMA CorrectionsAre ==
  /\ CorrectionFound <=> Corrected(Known, answer)
  /\ CorrectionFound' <=> Corrected(Known', answer')
  /\ \A w : Admitted(w, {}) = NearAmong(Known, w)
  BY DEF CorrectionFound, Corrected, NearAmong, Admitted, Near

LEMMA MinOfTwo ==
  ASSUME NEW a \in Nat, NEW b \in Nat
  PROVE  Min({a, b}) \in Nat /\ Min({a, b}) <= b
  <1>1. PICK T : T = {a, b}
    OBVIOUS
  <1>2. T \in SUBSET Nat /\ T # {} /\ a \in T /\ b \in T
    BY <1>1
  <1>3. Min(T) \in T /\ \A y \in T : Min(T) <= y
    BY <1>2, MinIn
  <1> QED BY <1>1, <1>2, <1>3

-----------------------------------------------------------------------------
(* The invariant                                                           *)

SearchPhase == phase \in {"edits", "index", "serve"}

DocumentsIndexed == docs \in Seq(Documents)

\* Nothing is answered before the dictionary, the counts and the automaton are there,
\* and until then the dictionary has the words of the documents and no others.
NothingAnswered == phase # "serve" => answer = NoAnswer /\ terms = Words(docs)

\* The server counts and looks up the words of the documents it answers about.
Prepared ==
  phase = "serve" => docs # << >> /\ data = PreProcessData(docs) /\ vocabulary = Known

IInv ==
  /\ SearchPhase /\ DocumentsIndexed /\ NothingAnswered /\ Prepared
  /\ CorrectionFound /\ CompletionsDistinct

LEMMA NoAnswerIsFine ==
  ASSUME NEW words
  PROVE  Corrected(words, NoAnswer) /\ Complete(words, NoAnswer)
  BY DEF Corrected, Complete, NoAnswer

LEMMA InitIInv == Init => IInv
  <1> SUFFICES ASSUME Init
               PROVE  IInv
    OBVIOUS
  <1>1. SearchPhase /\ Prepared
    BY DEF Init, SearchPhase, Prepared
  <1>2. docs = << >>
    BY DEF Init
  <1>3. DocumentsIndexed
    BY <1>2 DEF DocumentsIndexed
  <1>4. Words(<< >>) = {}
    BY DEF Words
  <1>5. NothingAnswered
    BY <1>2, <1>4 DEF Init, NothingAnswered
  <1>6. answer = NoAnswer
    BY DEF Init
  <1>7. Corrected(Known, answer) /\ Complete(Known, answer)
    BY <1>6, NoAnswerIsFine
  <1>8. CorrectionFound /\ CompletionsDistinct
    BY <1>7, CorrectionsAre, CompletionsAre DEF AnswerComplete
  <1> QED BY <1>1, <1>3, <1>5, <1>8 DEF IInv

\* A step that changes neither the documents nor what was answered.
LEMMA SameAnswer ==
  ASSUME IInv, docs' = docs, answer' = answer
  PROVE  /\ Known' = Known /\ Words(docs') = Words(docs)
         /\ CorrectionFound' /\ CompletionsDistinct'
  <1>1. Known' = Known
    BY DEF Known
  <1>2. Corrected(Known, answer) /\ Complete(Known, answer)
    BY CorrectionsAre, CompletionsAre DEF IInv, AnswerComplete
  <1>3. Corrected(Known', answer') /\ Complete(Known', answer')
    BY <1>1, <1>2
  <1> QED BY <1>1, <1>3, CorrectionsAre, CompletionsWillBe

LEMMA TrainingStep ==
  ASSUME IInv, ReadErrors \/ BuildEditProb
  PROVE  IInv'
  <1>1. /\ docs' = docs /\ answer' = answer /\ terms' = terms /\ data' = data
        /\ vocabulary' = vocabulary /\ phase # "serve" /\ phase' \in {"edits", "index"}
    BY DEF ReadErrors, BuildEditProb
  <1>2. Known' = Known /\ CorrectionFound' /\ CompletionsDistinct'
    BY <1>1, SameAnswer
  <1>3. SearchPhase'
    BY <1>1 DEF SearchPhase
  <1>4. DocumentsIndexed'
    BY <1>1 DEF DocumentsIndexed, IInv
  <1>5. NothingAnswered'
    BY <1>1 DEF NothingAnswered, IInv
  <1>6. Prepared'
    BY <1>1 DEF Prepared
  <1> QED BY <1>2, <1>3, <1>4, <1>5, <1>6 DEF IInv

LEMMA IndexDocumentStep ==
  ASSUME IInv, IndexDocument
  PROVE  IInv'
  <1>1. PICK d \in Documents : docs' = Append(docs, d) /\ terms' = terms \cup ToSet(d)
    BY DEF IndexDocument
  <1>2. phase = "index" /\ phase' = phase /\ answer' = answer
    BY DEF IndexDocument
  <1>3. answer = NoAnswer /\ terms = Words(docs) /\ docs \in Seq(Documents)
    BY <1>2 DEF IInv, NothingAnswered, DocumentsIndexed
  <1>4. docs' \in Seq(Documents) /\ Len(docs) \in Nat /\ DOMAIN docs = 1..Len(docs)
        /\ DOMAIN docs' = 1..(Len(docs) + 1) /\ docs'[Len(docs) + 1] = d
        /\ \A i \in 1..Len(docs) : docs'[i] = docs[i]
    <2>1. PICK s \in Seq(Documents) : s = docs
      BY <1>3
    <2>2. /\ Append(s, d) \in Seq(Documents) /\ Len(Append(s, d)) = Len(s) + 1
          /\ \A i \in 1..Len(s) : Append(s, d)[i] = s[i]
          /\ Append(s, d)[Len(s) + 1] = d
      BY AppendProperties
    <2>3. Len(s) \in Nat /\ DOMAIN s = 1..Len(s) /\ DOMAIN Append(s, d) = 1..Len(Append(s, d))
      BY <2>2, LenProperties
    <2> QED BY <2>1, <2>2, <2>3, <1>1
  <1>5. Words(docs') = Words(docs) \cup ToSet(d)
    <2>1. 1..(Len(docs) + 1) = 1..Len(docs) \cup {Len(docs) + 1}
      BY <1>4
    <2>2. UNION {ToSet(docs'[i]) : i \in 1..(Len(docs) + 1)} =
            (UNION {ToSet(docs[i]) : i \in 1..Len(docs)}) \cup ToSet(d)
      <3>1. \A i \in 1..Len(docs) : ToSet(docs'[i]) = ToSet(docs[i])
        BY <1>4
      <3>2. ToSet(docs'[Len(docs) + 1]) = ToSet(d)
        BY <1>4
      <3> QED BY <2>1, <3>1, <3>2
    <2> QED BY <2>2, <1>4 DEF Words
  <1>6. SearchPhase' /\ Prepared'
    BY <1>2 DEF IInv, SearchPhase, Prepared
  <1>7. DocumentsIndexed'
    BY <1>4 DEF DocumentsIndexed
  <1>8. NothingAnswered'
    BY <1>1, <1>2, <1>3, <1>5 DEF NothingAnswered
  <1>9. Corrected(Known', answer') /\ Complete(Known', answer')
    BY <1>2, <1>3, NoAnswerIsFine
  <1>10. CorrectionFound' /\ CompletionsDistinct'
    BY <1>9, CorrectionsAre, CompletionsWillBe
  <1> QED BY <1>6, <1>7, <1>8, <1>10 DEF IInv

LEMMA BuildNGramStep ==
  ASSUME IInv, BuildNGram
  PROVE  IInv'
  <1>1. /\ phase = "index" /\ phase' = "serve" /\ docs # << >> /\ docs' = docs /\ answer' = answer
        /\ data' = PreProcessData(docs) /\ vocabulary' = terms \cup Markers
    BY DEF BuildNGram
  <1>2. Known' = Known /\ CorrectionFound' /\ CompletionsDistinct'
    BY <1>1, SameAnswer
  <1>3. docs \in Seq(Documents) /\ terms = Words(docs)
    BY <1>1 DEF IInv, DocumentsIndexed, NothingAnswered
  <1>4. Known = Markers \cup Words(docs)
    BY <1>3, KnownHas
  <1>5. SearchPhase' /\ NothingAnswered'
    BY <1>1 DEF SearchPhase, NothingAnswered
  <1>6. DocumentsIndexed'
    BY <1>1, <1>3 DEF DocumentsIndexed
  <1>7. Prepared'
    BY <1>1, <1>2, <1>3, <1>4 DEF Prepared
  <1> QED BY <1>2, <1>5, <1>6, <1>7 DEF IInv

\* While serving, a step keeps all of the invariant but what it says of the answer.
LEMMA ServingStep ==
  ASSUME IInv, phase = "serve", phase' = phase, docs' = docs, data' = data,
         vocabulary' = vocabulary,
         Corrected(Known, answer'), Complete(Known, answer')
  PROVE  IInv'
  <1>1. Known' = Known
    BY DEF Known
  <1>2. CorrectionFound' /\ CompletionsDistinct'
    BY <1>1, CorrectionsAre, CompletionsWillBe
  <1>3. SearchPhase' /\ NothingAnswered'
    BY DEF SearchPhase, NothingAnswered
  <1>4. DocumentsIndexed'
    BY DEF DocumentsIndexed, IInv
  <1>5. Prepared'
    BY <1>1 DEF Prepared, IInv
  <1> QED BY <1>2, <1>3, <1>4, <1>5 DEF IInv

LEMMA FreeFormStep ==
  ASSUME IInv, FreeFormQuery
  PROVE  IInv'
  <1>1. PICK q \in Queries :
          LET all == FreeForms(q)
              possible == {i \in DOMAIN all : Possible(data, all[i])}
          IN  \/ possible = {} /\ Ask("panic", q, << >>)
              \/ \E i \in possible : Ask("freeform", q, <<all[i]>>)
    BY DEF FreeFormQuery, FreeForms
  <1>2. PICK all : all = FreeForms(q)
    OBVIOUS
  <1>3. PICK possible : possible = {i \in DOMAIN all : Possible(data, all[i])}
    OBVIOUS
  <1>4. phase = "serve" /\ phase' = phase /\ docs' = docs /\ data' = data /\ vocabulary' = vocabulary
    BY <1>1 DEF FreeFormQuery, Ask
  <1>5. docs \in Seq(Documents) /\ docs # << >> /\ data = PreProcessData(docs) /\ vocabulary = Known
    BY <1>4 DEF IInv, DocumentsIndexed, Prepared
  <1>6. possible = DOMAIN all
    BY <1>2, <1>3, <1>5, FreeFormsPossible
  <1>7. /\ \A k \in DOMAIN all : /\ Len(all[k]) = Len(q)
                                 /\ \A i \in DOMAIN q : all[k][i] \in NearAmong(Known, q[i])
        /\ (\A i \in DOMAIN q : NearAmong(Known, q[i]) # {}) => DOMAIN all # {}
    BY <1>2, <1>5, FreeFormsHave, CorrectionsAre
  <1>8. CASE possible = {} /\ Ask("panic", q, << >>)
    <2>1. answer' = [op |-> "panic", query |-> q, matched |-> << >>]
      BY <1>8 DEF Ask
    <2>2. PICK i \in DOMAIN q : NearAmong(Known, q[i]) = {}
      BY <1>6, <1>7, <1>8
    <2>3. q[i] \in ToSet(q)
      BY DEF ToSet
    <2>4. \E w \in ToSet(q) : NearAmong(Known, w) = {}
      BY <2>2, <2>3
    <2>5. Corrected(Known, answer') /\ Complete(Known, answer')
      BY <2>1, <2>4 DEF Corrected, Complete
    <2> QED BY <2>5, <1>4, ServingStep
  <1>9. CASE \E k \in possible : Ask("freeform", q, <<all[k]>>)
    <2>1. PICK k \in possible : Ask("freeform", q, <<all[k]>>)
      BY <1>9
    <2>2. PICK x : x = all[k]
      OBVIOUS
    <2>3. answer' = [op |-> "freeform", query |-> q, matched |-> <<x>>]
      BY <2>1, <2>2 DEF Ask
    <2>4. Len(x) = Len(q) /\ \A i \in DOMAIN q : x[i] \in NearAmong(Known, q[i])
      BY <2>2, <1>6, <1>7
    <2>5. <<x>>[1] = x
      OBVIOUS
    <2>6. Corrected(Known, answer') /\ Complete(Known, answer')
      BY <2>3, <2>4, <2>5 DEF Corrected, Complete
    <2> QED BY <2>6, <1>4, ServingStep
  <1> QED BY <1>1, <1>2, <1>3, <1>8, <1>9

LEMMA AutocompleteStep ==
  ASSUME IInv, Autocomplete
  PROVE  IInv'
  <1>1. PICK q \in Queries :
          LET all == Completions(q)
          IN  \E best \in kSubset(Min({KAutoComplete, Len(all)}), DOMAIN all) :
                Ask("autocomplete", q, [i \in 1..Cardinality(best) |-> all[Listed(best)[i]]])
    BY DEF Autocomplete, Completions
  <1>2. PICK all : all = Completions(q)
    OBVIOUS
  <1>3. PICK best \in kSubset(Min({KAutoComplete, Len(all)}), DOMAIN all) :
          Ask("autocomplete", q, [i \in 1..Cardinality(best) |-> all[Listed(best)[i]]])
    BY <1>1, <1>2
  <1>4. phase = "serve" /\ phase' = phase /\ docs' = docs /\ data' = data /\ vocabulary' = vocabulary
    BY <1>3 DEF Autocomplete, Ask
  <1>5. docs \in Seq(Documents) /\ vocabulary = Known
    BY <1>4 DEF IInv, DocumentsIndexed, Prepared
  <1>6. /\ all \in Seq(Seq(Known))
        /\ \A k \in DOMAIN all :
             /\ Len(all[k]) = Len(q)
             /\ \A i \in DOMAIN q : all[k][i] \in OfWordAmong(Known, q, i)
        /\ IsInjective(all)
        /\ Len(all) = WaysAmong(Known, q)
    BY <1>2, <1>5, CompletionsHave, WaysAre
  <1>7. Len(all) \in Nat /\ DOMAIN all = 1..Len(all)
    BY <1>6, LenProperties
  <1>8. /\ best \subseteq DOMAIN all /\ IsFiniteSet(best)
        /\ Cardinality(best) = Min({KAutoComplete, WaysAmong(Known, q)})
        /\ Cardinality(best) \in Nat
    <2>1. best \in SUBSET (DOMAIN all) /\ Cardinality(best) = Min({KAutoComplete, Len(all)})
      BY DEF kSubset
    <2>2. IsFiniteSet(DOMAIN all)
      BY <1>7, UpTo
    <2>3. IsFiniteSet(best)
      BY <2>1, <2>2, FS_Subset
    <2> QED BY <2>1, <2>3, <1>6, FS_CardinalityType
  <1>9. PICK l : l = Listed(best)
    OBVIOUS
  <1>10. l \in Seq(best) /\ ToSet(l) = best /\ IsInjective(l)
    BY <1>8, <1>9, ListedHas
  <1>11. PICK n \in Nat : n = Cardinality(best)
    BY <1>8
  <1>12. Len(l) = n /\ DOMAIN l = 1..n /\ \A i \in 1..n : l[i] \in DOMAIN all
    <2>1. Len(l) = n
      BY <1>10, <1>11, ListedLength
    <2>2. DOMAIN l = 1..n /\ \A i \in 1..n : l[i] \in best
      BY <2>1, <1>10, LenProperties, ElementOfSeq
    <2> QED BY <2>1, <2>2, <1>8
  <1>13. PICK m : m = [i \in 1..n |-> all[l[i]]]
    OBVIOUS
  <1>14. m \in [1..n -> ToSet(all)]
    BY <1>12, <1>13 DEF ToSet
  <1>15. Len(m) = n /\ DOMAIN m = 1..n
    BY <1>14, FunctionIsSeq
  <1>16. IsInjective(m)
    <2> SUFFICES ASSUME NEW a \in 1..n, NEW b \in 1..n, m[a] = m[b]
                 PROVE  a = b
      BY <1>15 DEF IsInjective
    <2>1. all[l[a]] = all[l[b]]
      BY <1>13
    <2>2. l[a] = l[b]
      BY <2>1, <1>6, <1>12 DEF IsInjective
    <2> QED BY <2>2, <1>10, <1>12 DEF IsInjective
  <1>17. ASSUME NEW k \in 1..n
         PROVE  Len(m[k]) = Len(q) /\ \A i \in DOMAIN q : m[k][i] \in OfWordAmong(Known, q, i)
    <2>1. l[k] \in DOMAIN all /\ m[k] = all[l[k]]
      BY <1>12, <1>13
    <2> QED BY <2>1, <1>6
  <1>18. answer' = [op |-> "autocomplete", query |-> q, matched |-> m]
    BY <1>3, <1>9, <1>11, <1>13 DEF Ask
  <1>19. Corrected(Known, answer')
    BY <1>18 DEF Corrected
  <1>20. Complete(Known, answer')
    BY <1>8, <1>11, <1>15, <1>16, <1>17, <1>18 DEF Complete
  <1> QED BY <1>4, <1>19, <1>20, ServingStep

LEMMA NextIInv == IInv /\ [Next]_vars => IInv'
  <1> SUFFICES ASSUME IInv, [Next]_vars
               PROVE  IInv'
    OBVIOUS
  <1>1. CASE ReadErrors \/ BuildEditProb
    BY <1>1, TrainingStep
  <1>2. CASE IndexDocument
    BY <1>2, IndexDocumentStep
  <1>3. CASE BuildNGram
    BY <1>3, BuildNGramStep
  <1>4. CASE FreeFormQuery
    BY <1>4, FreeFormStep
  <1>5. CASE Autocomplete
    BY <1>5, AutocompleteStep
  <1>6. CASE UNCHANGED vars
    <2>1. /\ docs' = docs /\ answer' = answer /\ phase' = phase /\ data' = data /\ terms' = terms
          /\ vocabulary' = vocabulary
      BY <1>6 DEF vars
    <2>2. Known' = Known /\ CorrectionFound' /\ CompletionsDistinct'
      BY <2>1, SameAnswer
    <2>3. SearchPhase' /\ DocumentsIndexed' /\ NothingAnswered'
      BY <2>1 DEF IInv, SearchPhase, DocumentsIndexed, NothingAnswered
    <2>4. Prepared'
      BY <2>1, <2>2 DEF IInv, Prepared
    <2> QED BY <2>2, <2>3, <2>4 DEF IInv
  <1> QED BY <1>1, <1>2, <1>3, <1>4, <1>5, <1>6 DEF Next

LEMMA InvariantHolds == Spec => []IInv
  BY InitIInv, NextIInv, PTL DEF Spec

\* A free form query goes on with an indexed word for each of its words, itself or one at
\* most two edits away, and panics only if there is none (SearchWords!CorrectionFound).
THEOREM CorrectionIsFound == Spec => []CorrectionFound
  <1>1. IInv => CorrectionFound
    BY DEF IInv
  <1> QED BY <1>1, InvariantHolds, PTL

\* Autocomplete goes on with as many different queries as there are, three at most, each
\* made of indexed words that complete or correct the words asked for
\* (SearchWords!CompletionsDistinct).  Their documents may still coincide.
THEOREM CompletionsAreDistinct == Spec => []CompletionsDistinct
  <1>1. IInv => CompletionsDistinct
    BY DEF IInv
  <1> QED BY <1>1, InvariantHolds, PTL

-----------------------------------------------------------------------------
(* Single edits                                                            *)

LEMMA MinIs ==
  ASSUME NEW T, T \subseteq Int, NEW x \in T, \A y \in T : x <= y
  PROVE  Min(T) = x
  <1>1. \A y \in T : (\A z \in T : y <= z) => y = x
    OBVIOUS
  <1> QED BY <1>1 DEF Min

LEMMA RemovedHas ==
  ASSUME NEW X, NEW u \in Seq(X), NEW i \in 1..Len(u)
  PROVE  /\ RemoveAt(u, i) \in Seq(X) /\ Len(RemoveAt(u, i)) = Len(u) - 1
         /\ \A j \in 1..(Len(u) - 1) : RemoveAt(u, i)[j] = IF j < i THEN u[j] ELSE u[j + 1]
  <1> DEFINE n == Len(u)
  <1>1. n \in Nat /\ \A j \in 1..n : u[j] \in X
    BY LenProperties, ElementOfSeq
  <1>2. PICK a : a = SubSeq(u, 1, i - 1)
    OBVIOUS
  <1>3. PICK b : b = SubSeq(u, i + 1, n)
    OBVIOUS
  <1>4. a \in Seq(X) /\ Len(a) = i - 1 /\ \A j \in 1..(i - 1) : a[j] = u[j]
    <2>1. 1 \in Int /\ i - 1 \in Int /\ \A j \in 1..(i - 1) : u[j] \in X
      BY <1>1
    <2>2. /\ a \in Seq(X) /\ Len(a) = (IF 1 <= i - 1 THEN (i - 1) - 1 + 1 ELSE 0)
          /\ \A j \in 1..((i - 1) - 1 + 1) : a[j] = u[1 + j - 1]
      BY <2>1, <1>2, SubSeqProperties
    <2>3. (i - 1) - 1 + 1 = i - 1 /\ \A j \in 1..(i - 1) : 1 + j - 1 = j
      BY <1>1
    <2>4. Len(a) = i - 1
      BY <2>2, <1>1
    <2> QED BY <2>2, <2>3, <2>4
  <1>5. b \in Seq(X) /\ Len(b) = n - i /\ \A j \in 1..(n - i) : b[j] = u[i + j]
    <2>1. i + 1 \in Int /\ n \in Int /\ \A j \in (i + 1)..n : u[j] \in X
      BY <1>1
    <2>2. /\ b \in Seq(X) /\ Len(b) = (IF i + 1 <= n THEN n - (i + 1) + 1 ELSE 0)
          /\ \A j \in 1..(n - (i + 1) + 1) : b[j] = u[(i + 1) + j - 1]
      BY <2>1, <1>3, SubSeqProperties
    <2>3. n - (i + 1) + 1 = n - i /\ \A j \in 1..(n - i) : (i + 1) + j - 1 = i + j
      BY <1>1
    <2>4. Len(b) = n - i
      BY <2>2, <1>1
    <2> QED BY <2>2, <2>3, <2>4
  <1>6. /\ a \o b \in Seq(X) /\ Len(a \o b) = Len(a) + Len(b)
        /\ \A j \in 1..(Len(a) + Len(b)) : (a \o b)[j] = IF j <= Len(a) THEN a[j] ELSE b[j - Len(a)]
    BY <1>4, <1>5, ConcatProperties
  <1>7. Len(a) + Len(b) = n - 1
    BY <1>1, <1>4, <1>5
  <1>8. ASSUME NEW j \in 1..(n - 1)
        PROVE  (a \o b)[j] = IF j < i THEN u[j] ELSE u[j + 1]
    <2>1. CASE j < i
      <3>1. j <= Len(a) /\ j \in 1..(i - 1)
        BY <2>1, <1>1, <1>4
      <3> QED BY <2>1, <3>1, <1>4, <1>6, <1>7
    <2>2. CASE ~ (j < i)
      <3>1. ~ (j <= Len(a)) /\ j - Len(a) = j - i + 1 /\ j - i + 1 \in 1..(n - i)
            /\ i + (j - i + 1) = j + 1
        BY <2>2, <1>1, <1>4
      <3>2. (a \o b)[j] = b[j - i + 1]
        BY <3>1, <1>6, <1>7
      <3>3. b[j - i + 1] = u[i + (j - i + 1)]
        BY <3>1, <1>5
      <3> QED BY <2>2, <3>1, <3>2, <3>3
    <2> QED BY <2>1, <2>2
  <1>9. RemoveAt(u, i) = a \o b
    BY <1>2, <1>3 DEF RemoveAt
  <1> QED BY <1>6, <1>7, <1>8, <1>9

Differ(u, v) == {i \in 1..Min({Len(u), Len(v)}) : u[i] # v[i]}

LEMMA ShorterLength ==
  ASSUME NEW a \in Nat, NEW b \in Nat, a <= b
  PROVE  Min({a, b}) = a /\ Min({b, a}) = a
  <1>1. {a, b} \subseteq Int /\ a \in {a, b} /\ \A y \in {a, b} : a <= y
    OBVIOUS
  <1>2. {b, a} = {a, b}
    OBVIOUS
  <1> QED BY <1>1, <1>2, MinIs

\* Taking the letter at i away from u gives v, and no later one does.
LastRemoved(u, v, i) == /\ i \in 1..Len(u) /\ RemoveAt(u, i) = v
                        /\ \A j \in 1..Len(u) : RemoveAt(u, j) = v => j <= i

\* v is u without its letter at i, and i is where the two words differ first, unless
\* it is the end of u.
Lengthened(u, v, i) ==
  /\ i \in 1..Len(u) /\ Len(u) = Len(v) + 1
  /\ \A j \in 1..Len(v) : v[j] = IF j < i THEN u[j] ELSE u[j + 1]
  /\ Differ(v, u) = Differ(u, v)
  /\ i <= Len(v) => i \in Differ(u, v) /\ Min(Differ(u, v)) = i
  /\ ~ (i <= Len(v)) => Differ(u, v) = {}

\* A letter too many, at the last place where removing it gives the other word: there
\* the words differ first, unless it is the end of the longer one.
LEMMA FirstDifference ==
  ASSUME NEW X, NEW u \in Seq(X), NEW v \in Seq(X), NEW i, LastRemoved(u, v, i)
  PROVE  Lengthened(u, v, i)
  <1> DEFINE n == Len(v)
  <1>1. n \in Nat /\ Len(u) \in Nat /\ DOMAIN u = 1..Len(u) /\ DOMAIN v = 1..n
    BY LenProperties
  <1>2. \A j \in 1..Len(u) : RemoveAt(u, j) = v => j <= i
    BY DEF LastRemoved
  <1>3. i \in 1..Len(u) /\ RemoveAt(u, i) = v
    BY DEF LastRemoved
  <1>4. Len(u) = n + 1 /\ \A j \in 1..n : v[j] = IF j < i THEN u[j] ELSE u[j + 1]
    <2>1. /\ Len(RemoveAt(u, i)) = Len(u) - 1
          /\ \A j \in 1..(Len(u) - 1) : RemoveAt(u, i)[j] = IF j < i THEN u[j] ELSE u[j + 1]
      BY <1>3, RemovedHas
    <2>2. n = Len(u) - 1 /\ Len(u) = n + 1
      BY <2>1, <1>1, <1>3
    <2> QED BY <2>1, <2>2, <1>3
  <1>5. Min({Len(u), Len(v)}) = n /\ Min({Len(v), Len(u)}) = n
    BY <1>1, <1>4, ShorterLength
  <1>6. Differ(u, v) = {j \in 1..n : u[j] # v[j]} /\ Differ(v, u) = {j \in 1..n : v[j] # u[j]}
    BY <1>5 DEF Differ
  <1>7. Differ(v, u) = Differ(u, v)
    BY <1>6
  <1>8. CASE i <= n
    <2>1. u[i] # v[i]
      <3> SUFFICES ASSUME u[i] = v[i]
                   PROVE  FALSE
        OBVIOUS
      <3>1. i \in 1..n /\ i + 1 \in 1..Len(u)
        BY <1>1, <1>3, <1>4, <1>8
      <3>2. PICK w : w = RemoveAt(u, i + 1)
        OBVIOUS
      <3>3. /\ w \in Seq(X) /\ Len(w) = Len(u) - 1
            /\ \A j \in 1..(Len(u) - 1) : w[j] = IF j < i + 1 THEN u[j] ELSE u[j + 1]
        BY <3>1, <3>2, RemovedHas
      <3>4. Len(w) = n /\ Len(u) - 1 = n
        BY <3>3, <1>1, <1>4
      <3>5. ASSUME NEW j \in 1..n
            PROVE  w[j] = v[j]
        <4>1. CASE j < i
          BY <4>1, <3>1, <3>3, <3>4, <1>4
        <4>2. CASE j = i
          BY <4>2, <3>1, <3>3, <3>4
        <4>3. CASE j > i
          BY <4>3, <3>1, <3>3, <3>4, <1>4
        <4> QED BY <4>1, <4>2, <4>3, <3>1
      <3>6. w = v
        BY <3>3, <3>4, <3>5, SeqEqual
      <3>7. i + 1 <= i
        BY <3>1, <3>2, <3>6, <1>2
      <3> QED BY <3>1, <3>7
    <2>2. i \in Differ(u, v)
      BY <2>1, <1>1, <1>3, <1>6, <1>8
    <2>3. \A j \in Differ(u, v) : i <= j
      BY <1>1, <1>3, <1>4, <1>6
    <2>4. Min(Differ(u, v)) = i
      <3>1. Differ(u, v) \subseteq Int
        BY <1>6
      <3> QED BY <2>2, <2>3, <3>1, MinIs
    <2> QED BY <2>2, <2>4, <1>3, <1>4, <1>7, <1>8 DEF Lengthened
  <1>9. CASE ~ (i <= n)
    <2>1. i = n + 1
      BY <1>1, <1>3, <1>4, <1>9
    <2>2. \A j \in 1..n : u[j] = v[j]
      <3>1. \A j \in 1..n : j < i
        BY <2>1, <1>1
      <3> QED BY <3>1, <1>4
    <2>3. Differ(u, v) = {}
      BY <2>2, <1>6
    <2> QED BY <2>3, <1>3, <1>4, <1>7, <1>9 DEF Lengthened
  <1> QED BY <1>8, <1>9

\* The last place where a letter taken away gives another word.
LEMMA LastPlace ==
  ASSUME NEW X, NEW u \in Seq(X), NEW v, NEW i,
         {j \in DOMAIN u : RemoveAt(u, j) = v} # {},
         i = Max({j \in DOMAIN u : RemoveAt(u, j) = v})
  PROVE  LastRemoved(u, v, i)
  <1>1. Len(u) \in Nat /\ DOMAIN u = 1..Len(u)
    BY LenProperties
  <1>2. PICK places : places = {j \in DOMAIN u : RemoveAt(u, j) = v}
    OBVIOUS
  <1>3. places \in SUBSET (1..Len(u)) /\ places # {} /\ i = Max(places)
    BY <1>1, <1>2
  <1>4. i \in places /\ \A j \in places : i >= j
    BY <1>1, <1>3, MaxIn
  <1>5. ASSUME NEW j \in 1..Len(u), RemoveAt(u, j) = v
        PROVE  j <= i
    BY <1>1, <1>2, <1>3, <1>4, <1>5
  <1> QED BY <1>1, <1>2, <1>4, <1>5 DEF LastRemoved

\* A letter inserted.
LEMMA InsertionIs ==
  ASSUME NEW X, NEW u \in Seq(X), NEW v \in Seq(X), v # << >>, NEW i,
         {j \in DOMAIN u : RemoveAt(u, j) = v} # {},
         i = Max({j \in DOMAIN u : RemoveAt(u, j) = v})
  PROVE  GetEdit(u, v) = Edit("Insertion", u[i], IF i = 1 THEN StartChar ELSE u[i - 1])
  <1>1. /\ i \in 1..Len(u) /\ Len(u) = Len(v) + 1
        /\ \A j \in 1..Len(v) : v[j] = IF j < i THEN u[j] ELSE u[j + 1]
        /\ i <= Len(v) => i \in Differ(u, v) /\ Min(Differ(u, v)) = i
        /\ ~ (i <= Len(v)) => Differ(u, v) = {}
    <2>1. LastRemoved(u, v, i)
      BY LastPlace
    <2>2. Lengthened(u, v, i)
      BY <2>1, FirstDifference
    <2> QED BY <2>2 DEF Lengthened
  <1>2. PICK n \in Nat : n = Len(v) /\ n # 0 /\ Len(u) = n + 1
    BY <1>1, LenProperties, EmptySeq
  <1>3. u # v /\ Len(u) # Len(v) /\ Len(u) > Len(v)
    BY <1>2
  <1>4. CASE i <= n
    <2>1. GetEdit(u, v) = Edit("Insertion", u[i], IF i > 1 THEN v[i - 1] ELSE StartChar)
      BY <1>1, <1>2, <1>3, <1>4 DEF GetEdit, Differ
    <2>2. (i > 1) <=> (i # 1)
      BY <1>1, <1>2
    <2>3. i > 1 => v[i - 1] = u[i - 1]
      BY <1>1, <1>2, <1>4
    <2> QED BY <2>1, <2>2, <2>3
  <1>5. CASE ~ (i <= n)
    <2>1. i = n + 1 /\ i # 1 /\ i - 1 = n /\ n \in 1..n /\ n < i
      BY <1>1, <1>2, <1>5
    <2>2. GetEdit(u, v) = Edit("Insertion", Last(u), Last(v))
      BY <1>1, <1>2, <1>3, <1>5 DEF GetEdit, Differ
    <2>3. Last(u) = u[i] /\ Last(v) = v[n] /\ v[n] = u[i - 1]
      BY <2>1, <1>1, <1>2 DEF Last
    <2> QED BY <2>1, <2>2, <2>3
  <1> QED BY <1>2, <1>4, <1>5

\* A letter deleted.
LEMMA DeletionIs ==
  ASSUME NEW X, NEW u \in Seq(X), NEW v \in Seq(X), u # << >>, NEW k,
         {j \in DOMAIN v : RemoveAt(v, j) = u} # {},
         k = Max({j \in DOMAIN v : RemoveAt(v, j) = u})
  PROVE  GetEdit(u, v) = Edit("Deletion", v[IF k < Len(v) THEN k + 1 ELSE k - 1],
                              IF k = 1 THEN StartChar ELSE v[k - 1])
  <1>1. /\ k \in 1..Len(v) /\ Len(v) = Len(u) + 1
        /\ \A j \in 1..Len(u) : u[j] = IF j < k THEN v[j] ELSE v[j + 1]
        /\ k <= Len(u) => k \in Differ(u, v) /\ Min(Differ(u, v)) = k
        /\ ~ (k <= Len(u)) => Differ(u, v) = {}
    <2>1. LastRemoved(v, u, k)
      BY LastPlace
    <2>2. Lengthened(v, u, k)
      BY <2>1, FirstDifference
    <2> QED BY <2>2 DEF Lengthened
  <1>2. PICK n \in Nat : n = Len(u) /\ n # 0 /\ Len(v) = n + 1
    BY <1>1, LenProperties, EmptySeq
  <1>3. u # v /\ Len(u) # Len(v) /\ ~ (Len(u) > Len(v))
    BY <1>2
  <1>4. CASE k <= n
    <2>1. GetEdit(u, v) = Edit("Deletion", u[k], IF k > 1 THEN v[k - 1] ELSE StartChar)
      BY <1>1, <1>2, <1>3, <1>4 DEF GetEdit, Differ
    <2>2. ((k > 1) <=> (k # 1)) /\ k < Len(v) /\ u[k] = v[k + 1]
      BY <1>1, <1>2, <1>4
    <2> QED BY <2>1, <2>2
  <1>5. CASE ~ (k <= n)
    <2>1. k = n + 1 /\ k # 1 /\ k - 1 = n /\ n \in 1..n /\ n < k /\ ~ (k < Len(v)) /\ Len(v) > 1
          /\ Len(v) - 1 = n
      BY <1>1, <1>2, <1>5
    <2>2. GetEdit(u, v) = Edit("Deletion", Last(u), v[Len(v) - 1])
      <3>1. {j \in 1..Min({Len(u), Len(v)}) : u[j] # v[j]} = {}
        BY <1>1, <1>2, <1>5 DEF Differ
      <3>2. Len(v) > 1
        BY <2>1
      <3> QED BY ONLY <3>1, <3>2, <1>3, ZenonT(60) DEF GetEdit
    <2>3. Last(u) = u[n] /\ u[n] = v[n]
      BY <2>1, <1>1, <1>2 DEF Last
    <2> QED BY <2>1, <2>2, <2>3
  <1> QED BY <1>2, <1>4, <1>5

\* A letter replaced by another: one letter comes once more.
LEMMA SubstitutionIs ==
  ASSUME NEW X, NEW u \in Seq(X), NEW v \in Seq(X), Len(u) = Len(v), NEW j,
         {i \in DOMAIN u : u[i] # v[i]} = {j}
  PROVE  GetEdit(u, v) = Edit("Substitution", u[j], v[j])
  <1> DEFINE n == Len(u)
  <1>1. n \in Nat /\ DOMAIN u = 1..n /\ DOMAIN v = 1..n
    BY LenProperties
  <1>2. Differ(u, v) = {j}
    BY <1>1, ShorterLength DEF Differ
  <1>3. j \in 1..n /\ u[j] # v[j] /\ \A i \in 1..n : i # j => u[i] = v[i]
    BY <1>1
  <1>4. Min(Differ(u, v)) = j
    <2>1. {j} \subseteq Int /\ j \in {j} /\ \A y \in {j} : j <= y
      BY <1>3
    <2> QED BY <2>1, <1>2, MinIs
  <1>5. ~ SameLetters(u, v)
    <2>1. PICK A : A = {i \in DOMAIN u : u[i] = u[j]}
      OBVIOUS
    <2>2. PICK B : B = {i \in DOMAIN v : v[i] = u[j]}
      OBVIOUS
    <2>3. A = B \cup {j} /\ j \notin B /\ B \subseteq 1..n
      BY <2>1, <2>2, <1>1, <1>3
    <2>4. IsFiniteSet(B) /\ Cardinality(B) \in Nat
      BY <2>3, <1>1, UpTo, FS_Subset, FS_CardinalityType
    <2>5. Cardinality(A) = Cardinality(B) + 1
      BY <2>3, <2>4, FS_AddElement
    <2>6. Cardinality(A) # Cardinality(B)
      BY <2>4, <2>5
    <2>7. u[j] \in ToSet(u)
      BY <1>1, <1>3 DEF ToSet
    <2> QED BY <2>1, <2>2, <2>6, <2>7 DEF SameLetters
  <1>6. u # v
    BY <1>3
  <1> QED BY <1>2, <1>4, <1>5, <1>6 DEF GetEdit, Differ

\* Two letters next to each other that changed places: each comes as often as before.
LEMMA TranspositionIs ==
  ASSUME NEW X, NEW u \in Seq(X), NEW v \in Seq(X), Len(u) = Len(v), NEW x \in DOMAIN u,
         {i \in DOMAIN u : u[i] # v[i]} = {x, x + 1}, u[x] = v[x + 1], u[x + 1] = v[x]
  PROVE  GetEdit(u, v) = Edit("Transposition", u[x], v[x])
  <1> DEFINE n == Len(u)
  <1>1. n \in Nat /\ DOMAIN u = 1..n /\ DOMAIN v = 1..n
    BY LenProperties
  <1>2. Differ(u, v) = {x, x + 1}
    BY <1>1, ShorterLength DEF Differ
  <1>3. x \in 1..n /\ x + 1 \in 1..n /\ u[x] # v[x]
        /\ \A i \in 1..n : i # x /\ i # x + 1 => u[i] = v[i]
    BY <1>1
  <1>4. Min(Differ(u, v)) = x
    <2>1. {x, x + 1} \subseteq Int /\ x \in {x, x + 1} /\ \A y \in {x, x + 1} : x <= y
      BY <1>3
    <2> QED BY <2>1, <1>2, MinIs
  <1>5. ASSUME NEW c
        PROVE  Cardinality({i \in DOMAIN u : u[i] = c}) = Cardinality({i \in DOMAIN v : v[i] = c})
    <2>1. PICK A : A = {i \in DOMAIN u : u[i] = c}
      OBVIOUS
    <2>2. PICK B : B = {i \in DOMAIN v : v[i] = c}
      OBVIOUS
    <2>3. PICK f : f = [i \in A |-> IF i = x THEN x + 1 ELSE IF i = x + 1 THEN x ELSE i]
      OBVIOUS
    <2>4. x \in Nat /\ x # x + 1
      BY <1>3
    <2>5. \A i \in A : f[i] \in B
      BY <2>1, <2>2, <2>3, <1>1, <1>3
    <2>6. f \in [A -> B]
      BY <2>3, <2>5
    <2>7. \A a, b \in A : f[a] = f[b] => a = b
      BY <2>3, <2>4
    <2>8. ASSUME NEW y \in B
          PROVE  \E i \in A : f[i] = y
      <3>1. CASE y = x
        <4>1. x + 1 \in A /\ f[x + 1] = x
          BY <3>1, <2>1, <2>2, <2>3, <2>4, <1>1, <1>3
        <4> QED BY <3>1, <4>1
      <3>2. CASE y = x + 1
        <4>1. x \in A /\ f[x] = x + 1
          BY <3>2, <2>1, <2>2, <2>3, <2>4, <1>1, <1>3
        <4> QED BY <3>2, <4>1
      <3>3. CASE y # x /\ y # x + 1
        <4>1. y \in A /\ f[y] = y
          BY <3>3, <2>1, <2>2, <2>3, <1>1, <1>3
        <4> QED BY <4>1
      <3> QED BY <3>1, <3>2, <3>3
    <2>9. f \in Bijection(A, B)
      <3>1. f \in Injection(A, B)
        BY <2>6, <2>7 DEF Injection, IsInjective
      <3>2. f \in Surjection(A, B)
        BY <2>6, <2>8 DEF Surjection
      <3> QED BY <3>1, <3>2 DEF Bijection
    <2>10. IsFiniteSet(A)
      BY <2>1, <1>1, UpTo, FS_Subset
    <2> QED BY <2>1, <2>2, <2>9, <2>10, FS_Bijection DEF ExistsBijection
  <1>6. SameLetters(u, v)
    BY <1>5 DEF SameLetters
  <1>7. u # v
    BY <1>3
  <1> QED BY <1>2, <1>4, <1>6, <1>7 DEF GetEdit, Differ

\* getEdit finds the edit a word was made by.
LEMMA SingleEditIs ==
  ASSUME NEW X, NEW u \in Seq(X), NEW v \in Seq(X), u # << >>, v # << >>,
         NEW e \in SingleEdits(u, v)
  PROVE  e = GetEdit(u, v)
  <1>1. PICK inserted : inserted = {i \in DOMAIN u : RemoveAt(u, i) = v}
    OBVIOUS
  <1>2. PICK differ : differ = {j \in DOMAIN u : u[j] # v[j]}
    OBVIOUS
  <1>3. PICK i : i = Max(inserted)
    OBVIOUS
  <1>4. PICK deleted : deleted = {k \in DOMAIN v : RemoveAt(v, k) = u}
    OBVIOUS
  <1>5. CASE inserted # {}
    <2>1. e = Edit("Insertion", u[i], IF i = 1 THEN StartChar ELSE u[i - 1])
      BY <1>1, <1>3, <1>5 DEF SingleEdits
    <2> QED BY <2>1, <1>1, <1>3, <1>5, InsertionIs
  <1>6. CASE inserted = {} /\ deleted # {}
    <2>1. PICK k : k = Max(deleted)
      OBVIOUS
    <2>2. e = Edit("Deletion", v[IF k < Len(v) THEN k + 1 ELSE k - 1],
                   IF k = 1 THEN StartChar ELSE v[k - 1])
      BY <2>1, <1>1, <1>4, <1>6 DEF SingleEdits
    <2> QED BY <2>1, <2>2, <1>4, <1>6, DeletionIs
  <1>7. CASE inserted = {} /\ deleted = {}
    <2>1. Len(u) = Len(v)
      BY <1>1, <1>4, <1>7 DEF SingleEdits
    <2>2. \/ \E j \in differ : differ = {j} /\ e = Edit("Substitution", u[j], v[j])
          \/ \E j \in differ : /\ differ = {j, j + 1} /\ u[j] = v[j + 1] /\ u[j + 1] = v[j]
                               /\ e = Edit("Transposition", u[j], v[j])
      BY <2>1, <1>1, <1>2, <1>4, <1>7 DEF SingleEdits
    <2>3. CASE \E j \in differ : differ = {j} /\ e = Edit("Substitution", u[j], v[j])
      BY <2>1, <2>3, <1>2, SubstitutionIs
    <2>4. CASE \E j \in differ : /\ differ = {j, j + 1} /\ u[j] = v[j + 1] /\ u[j + 1] = v[j]
                                 /\ e = Edit("Transposition", u[j], v[j])
      <3>1. PICK j \in differ : /\ differ = {j, j + 1} /\ u[j] = v[j + 1] /\ u[j + 1] = v[j]
                                /\ e = Edit("Transposition", u[j], v[j])
        BY <2>4
      <3>2. j \in DOMAIN u
        BY <1>2
      <3> QED BY <2>1, <3>1, <3>2, <1>2, TranspositionIs
    <2> QED BY <2>2, <2>3, <2>4
  <1> QED BY <1>5, <1>6, <1>7

-----------------------------------------------------------------------------
(* Counting edits                                                          *)

Counts(c) == IsFiniteSet(DOMAIN c) /\ c \in [DOMAIN c -> Nat]

CountIn(c, e) == IF e \in DOMAIN c THEN c[e] ELSE 0

\* As many pairs as the counts of the edits in T add up to.
Tallies(c, T) == {p \in T \X Nat : 1 <= p[2] /\ p[2] <= c[p[1]]}

SumOfStep(c, h) ==
  [T \in SUBSET (DOMAIN c) |->
     IF T = {} THEN 0
     ELSE c[CHOOSE x \in T : TRUE] + h[T \ {CHOOSE x \in T : TRUE}]]

\* The sum of the counts, as the fold computes it.
SumOf(c) == (CHOOSE h : h = SumOfStep(c, h))[DOMAIN c]

LEMMA OneTally ==
  ASSUME NEW c, Counts(c), NEW T \in SUBSET (DOMAIN c), NEW x \in T,
         IsFiniteSet(Tallies(c, T \ {x}))
  PROVE  /\ IsFiniteSet(Tallies(c, T))
         /\ Cardinality(Tallies(c, T)) = c[x] + Cardinality(Tallies(c, T \ {x}))
  <1>1. PICK n \in Nat : n = c[x]
    BY DEF Counts
  <1>2. PICK A : A = Tallies(c, T \ {x})
    OBVIOUS
  <1>3. PICK B : B = {x} \X (1..n)
    OBVIOUS
  <1>4. IsFiniteSet(B) /\ Cardinality(B) = n
    <2>1. IsFiniteSet({x}) /\ Cardinality({x}) = 1 /\ IsFiniteSet(1..n) /\ Cardinality(1..n) = n
      BY FS_Singleton, UpTo
    <2>2. PICK V, W : V = {x} /\ W = 1..n
      OBVIOUS
    <2>3. IsFiniteSet(V \X W) /\ Cardinality(V \X W) = Cardinality(V) * Cardinality(W)
      BY <2>1, <2>2, FS_Product
    <2>4. B = V \X W
      BY <2>2, <1>3
    <2> QED BY <2>1, <2>2, <2>3, <2>4
  <1>5. \A p : p \in Tallies(c, T) <=> p \in A \/ p \in B
    <2>1. ASSUME NEW p, p \in Tallies(c, T)
          PROVE  p \in A \/ p \in B
      <3>1. p \in T \X Nat /\ 1 <= p[2] /\ p[2] <= c[p[1]]
        BY <2>1 DEF Tallies
      <3>2. PICK y \in T, k \in Nat : p = <<y, k>>
        BY <3>1
      <3>3. 1 <= k /\ k <= c[y]
        BY <3>1, <3>2
      <3>4. CASE y = x
        <4>1. k \in 1..n
          BY <3>3, <3>4, <1>1
        <4> QED BY <3>2, <3>4, <4>1, <1>3
      <3>5. CASE y # x
        <4>1. p \in (T \ {x}) \X Nat
          BY <3>2, <3>5
        <4> QED BY <4>1, <3>1, <1>2 DEF Tallies
      <3> QED BY <3>4, <3>5
    <2>2. ASSUME NEW p, p \in A
          PROVE  p \in Tallies(c, T)
      BY <2>2, <1>2 DEF Tallies
    <2>3. ASSUME NEW p, p \in B
          PROVE  p \in Tallies(c, T)
      <3>1. PICK k \in 1..n : p = <<x, k>>
        BY <2>3, <1>3
      <3>2. p \in T \X Nat /\ p[1] = x /\ p[2] = k /\ 1 <= k /\ k <= c[x]
        BY <3>1, <1>1
      <3> QED BY <3>2 DEF Tallies
    <2> QED BY <2>1, <2>2, <2>3
  <1>6. Tallies(c, T) = A \cup B
    BY <1>5
  <1>7. A \cap B = {}
    <2> SUFFICES ASSUME NEW p \in A, p \in B
                 PROVE  FALSE
      OBVIOUS
    <2>1. p[1] = x
      BY <1>3
    <2>2. p \in (T \ {x}) \X Nat
      BY <1>2 DEF Tallies
    <2> QED BY <2>1, <2>2
  <1>8. Cardinality(A \cap B) = 0
    BY <1>7, FS_EmptySet
  <1>9. PICK a \in Nat : a = Cardinality(A)
    BY <1>2, FS_CardinalityType
  <1>10. IsFiniteSet(A \cup B) /\ Cardinality(A \cup B) = Cardinality(A) + Cardinality(B) - Cardinality(A \cap B)
    BY <1>2, <1>4, FS_Union
  <1>11. Cardinality(A \cup B) = n + a
    BY <1>4, <1>8, <1>9, <1>10
  <1> QED BY <1>1, <1>2, <1>6, <1>9, <1>10, <1>11

LEMMA TalliesFinite ==
  ASSUME NEW c, Counts(c)
  PROVE  \A T \in SUBSET (DOMAIN c) : IsFiniteSet(Tallies(c, T))
  <1> SUFFICES ASSUME NEW S \in SUBSET (DOMAIN c)
               PROVE  IsFiniteSet(Tallies(c, S))
    OBVIOUS
  <1> DEFINE F == {T \in SUBSET S : IsFiniteSet(Tallies(c, T))}
  <1>1. ASSUME NEW T \in SUBSET S, \A x \in T : T \ {x} \in F
        PROVE  T \in F
    <2>1. CASE T = {}
      <3>1. Tallies(c, {}) = {}
        BY DEF Tallies
      <3> QED BY <2>1, <3>1, FS_EmptySet
    <2>2. CASE T # {}
      <3>1. PICK x \in T : TRUE
        BY <2>2
      <3>2. IsFiniteSet(Tallies(c, T \ {x}))
        BY <3>1, <1>1
      <3>3. IsFiniteSet(Tallies(c, T))
        BY <3>2, OneTally
      <3> QED BY <3>3
    <2> QED BY <2>1, <2>2
  <1>2. IsFiniteSet(S)
    BY FS_Subset DEF Counts
  <1> HIDE DEF F
  <1>3. S \in F
    BY <1>1, <1>2, SubsetInduction
  <1> QED BY <1>3 DEF F

LEMMA SumIsTallied ==
  ASSUME NEW c, Counts(c)
  PROVE  SumOf(c) = Cardinality(Tallies(c, DOMAIN c)) /\ SumOf(c) \in Nat
  <1> DEFINE S == DOMAIN c
             Some(T) == CHOOSE x \in T : TRUE
             Sum(T) == Cardinality(Tallies(c, T))
  <1>1. \A T \in SUBSET S : IsFiniteSet(Tallies(c, T)) /\ Sum(T) \in Nat
    BY TalliesFinite, FS_CardinalityType
  <1>2. Sum({}) = 0
    <2>1. Tallies(c, {}) = {}
      BY DEF Tallies
    <2> QED BY <2>1, FS_EmptySet
  <1>3. \A T \in SUBSET S : T # {} => Some(T) \in T /\ T \ {Some(T)} \in SUBSET S
    OBVIOUS
  <1> HIDE DEF Some
  <1>4. \A T \in SUBSET S : T # {} => Sum(T) = c[Some(T)] + Sum(T \ {Some(T)})
    <2> SUFFICES ASSUME NEW T \in SUBSET S, T # {}
                 PROVE  Sum(T) = c[Some(T)] + Sum(T \ {Some(T)})
      OBVIOUS
    <2>1. PICK x \in T : x = Some(T)
      BY <1>3
    <2>2. IsFiniteSet(Tallies(c, T \ {x}))
      BY <1>1
    <2>3. Sum(T) = c[x] + Sum(T \ {x})
      BY <2>2, OneTally
    <2> QED BY <2>1, <2>3
  <1> HIDE DEF Sum
  <1>5. PICK g : g = [T \in SUBSET S |-> Sum(T)]
    OBVIOUS
  <1>6. ASSUME NEW h
        PROVE  SumOfStep(c, h) = [T \in SUBSET S |->
                 IF T = {} THEN 0 ELSE c[Some(T)] + h[T \ {Some(T)}]]
    BY DEF SumOfStep, Some
  <1> HIDE DEF S
  <1>7. g = SumOfStep(c, g)
    <2>1. \A T \in SUBSET S : Sum(T) = IF T = {} THEN 0 ELSE c[Some(T)] + g[T \ {Some(T)}]
      BY <1>2, <1>3, <1>4, <1>5
    <2>2. SumOfStep(c, g) = [T \in SUBSET S |->
            IF T = {} THEN 0 ELSE c[Some(T)] + g[T \ {Some(T)}]]
      BY <1>6
    <2> QED BY <2>1, <2>2, <1>5
  <1>8. PICK h : h = CHOOSE f : f = SumOfStep(c, f)
    OBVIOUS
  <1>9. h = SumOfStep(c, h)
    BY <1>7, <1>8
  <1>10. \A T \in SUBSET S : h[T] = IF T = {} THEN 0 ELSE c[Some(T)] + h[T \ {Some(T)}]
    BY <1>6, <1>9
  <1>11. h[S] = Sum(S)
    <2> DEFINE F == {T \in SUBSET S : h[T] = Sum(T)}
    <2>1. ASSUME NEW T \in SUBSET S, \A x \in T : T \ {x} \in F
          PROVE  T \in F
      <3>1. CASE T = {}
        BY <3>1, <1>2, <1>10
      <3>2. CASE T # {}
        <4>1. T \ {Some(T)} \in F
          BY <3>2, <2>1, <1>3
        <4>2. h[T \ {Some(T)}] = Sum(T \ {Some(T)})
          BY <4>1
        <4>3. h[T] = Sum(T)
          BY <3>2, <4>2, <1>4, <1>10
        <4> QED BY <4>3
      <3> QED BY <3>1, <3>2
    <2>2. IsFiniteSet(S)
      BY DEF Counts, S
    <2> HIDE DEF F
    <2>3. S \in F
      BY <2>1, <2>2, SubsetInduction
    <2> QED BY <2>3 DEF F
  <1>12. SumOf(c) = h[S]
    BY <1>8 DEF SumOf, S
  <1> QED BY <1>1, <1>11, <1>12 DEF Sum, S

\* An edit more: its count and the sum grow by one, and no other count changes.
LEMMA AddToHas ==
  ASSUME NEW c, Counts(c), NEW e
  PROVE  /\ Counts(AddTo(c, e))
         /\ \A x : CountIn(AddTo(c, e), x) = CountIn(c, x) + (IF x = e THEN 1 ELSE 0)
         /\ SumOf(AddTo(c, e)) = SumOf(c) + 1
  <1>1. PICK d : d = AddTo(c, e)
    OBVIOUS
  <1>2. /\ DOMAIN d = DOMAIN c \cup {e}
        /\ \A x \in DOMAIN d : d[x] = CountIn(c, x) + (IF x = e THEN 1 ELSE 0)
        /\ d = [x \in DOMAIN d |-> d[x]]
    BY <1>1 DEF AddTo, CountIn
  <1>3. \A x : CountIn(c, x) \in Nat
    BY DEF Counts, CountIn
  <1>4. Counts(d)
    <2>1. IsFiniteSet(DOMAIN d)
      BY <1>2, FS_AddElement DEF Counts
    <2>2. \A x \in DOMAIN d : d[x] \in Nat
      BY <1>2, <1>3
    <2> QED BY <2>1, <2>2, <1>2 DEF Counts
  <1>5. \A x : CountIn(d, x) = CountIn(c, x) + (IF x = e THEN 1 ELSE 0)
    <2> SUFFICES ASSUME NEW x
                 PROVE  CountIn(d, x) = CountIn(c, x) + (IF x = e THEN 1 ELSE 0)
      OBVIOUS
    <2>1. CASE x \in DOMAIN d
      BY <2>1, <1>2 DEF CountIn
    <2>2. CASE x \notin DOMAIN d
      BY <2>2, <1>2 DEF CountIn
    <2> QED BY <2>1, <2>2
  <1>6. PICK n \in Nat : n = CountIn(c, e)
    BY <1>3
  <1>7. PICK new : new = <<e, n + 1>>
    OBVIOUS
  <1>8. new[1] = e /\ new[2] = n + 1
    BY <1>7
  <1>9. new \notin Tallies(c, DOMAIN c)
    <2> SUFFICES ASSUME new \in Tallies(c, DOMAIN c)
                 PROVE  FALSE
      OBVIOUS
    <2>1. e \in DOMAIN c /\ n + 1 <= c[e]
      BY <1>7, <1>8 DEF Tallies
    <2>2. c[e] = n
      BY <2>1, <1>6 DEF CountIn
    <2> QED BY <2>1, <2>2
  <1>10. Tallies(d, DOMAIN d) = Tallies(c, DOMAIN c) \cup {new}
    <2>1. ASSUME NEW p, p \in Tallies(d, DOMAIN d)
          PROVE  p \in Tallies(c, DOMAIN c) \/ p = new
      <3>1. PICK y \in DOMAIN d, k \in Nat : p = <<y, k>>
        BY <2>1 DEF Tallies
      <3>2. 1 <= k /\ k <= d[y] /\ p[1] = y /\ p[2] = k
        BY <2>1, <3>1 DEF Tallies
      <3>3. CASE y = e
        <4>1. d[y] = n + 1
          BY <3>3, <1>2, <1>6
        <4>2. k <= n \/ k = n + 1
          BY <3>2, <4>1
        <4>3. CASE k = n + 1
          BY <3>1, <3>3, <4>3, <1>7
        <4>4. CASE k <= n
          <5>1. e \in DOMAIN c /\ c[e] = n
            BY <3>2, <4>4, <1>6 DEF CountIn
          <5>2. p \in (DOMAIN c) \X Nat
            BY <3>1, <3>3, <5>1
          <5> QED BY <5>1, <5>2, <3>2, <3>3, <4>4 DEF Tallies
        <4> QED BY <4>2, <4>3, <4>4
      <3>4. CASE y # e
        <4>1. y \in DOMAIN c
          BY <3>1, <3>4, <1>2
        <4>2. d[y] = c[y]
          <5>1. d[y] = CountIn(c, y) + 0
            BY <3>4, <1>2
          <5>2. CountIn(c, y) = c[y] /\ CountIn(c, y) \in Nat
            BY <4>1, <1>3 DEF CountIn
          <5> QED BY <5>1, <5>2
        <4>3. p \in (DOMAIN c) \X Nat
          BY <3>1, <4>1
        <4> QED BY <3>2, <4>2, <4>3 DEF Tallies
      <3> QED BY <3>3, <3>4
    <2>2. ASSUME NEW p, p \in Tallies(c, DOMAIN c)
          PROVE  p \in Tallies(d, DOMAIN d)
      <3>1. PICK y \in DOMAIN c, k \in Nat : p = <<y, k>>
        BY <2>2 DEF Tallies
      <3>2. 1 <= k /\ k <= c[y] /\ p[1] = y /\ p[2] = k
        BY <2>2, <3>1 DEF Tallies
      <3>3. y \in DOMAIN d /\ CountIn(c, y) = c[y] /\ c[y] \in Nat
        BY <1>2, <1>3 DEF CountIn
      <3>4. d[y] = c[y] + (IF y = e THEN 1 ELSE 0)
        BY <3>3, <1>2
      <3>5. k <= d[y]
        BY <3>2, <3>3, <3>4
      <3>6. p \in (DOMAIN d) \X Nat
        BY <3>1, <3>3
      <3> QED BY <3>2, <3>5, <3>6 DEF Tallies
    <2>3. new \in Tallies(d, DOMAIN d)
      <3>1. e \in DOMAIN d /\ d[e] = n + 1
        BY <1>2, <1>6
      <3>2. new \in (DOMAIN d) \X Nat
        BY <3>1, <1>7
      <3>3. 1 <= n + 1 /\ n + 1 <= n + 1
        OBVIOUS
      <3> QED BY <3>1, <3>2, <3>3, <1>8 DEF Tallies
    <2> QED BY <2>1, <2>2, <2>3
  <1>11. Cardinality(Tallies(d, DOMAIN d)) = Cardinality(Tallies(c, DOMAIN c)) + 1
    <2>1. IsFiniteSet(Tallies(c, DOMAIN c))
      BY TalliesFinite
    <2> QED BY <2>1, <1>9, <1>10, FS_AddElement
  <1>12. SumOf(d) = SumOf(c) + 1
    BY <1>4, <1>11, SumIsTallied
  <1> QED BY <1>1, <1>4, <1>5, <1>12

-----------------------------------------------------------------------------
(* The edits of a line                                                     *)

Written == Seq(STRING) \ {<< >>}
Lines   == [word : Written, errors : Seq(Written) \ {<< >>}]

LEMMA LinesAre ==
  /\ SpellErrors \in Seq(Lines) /\ Len(SpellErrors) \in Nat
  /\ \A l \in 1..Len(SpellErrors) : SpellErrors[l] \in Lines
  <1>1. SpellErrors \in Seq(Lines)
    BY SearchWordsAssumption DEF Lines, Written
  <1> QED BY <1>1, LenProperties, ElementOfSeq

EditOf(line, i) == GetEdit(Piece(line, i), line.word)

LineEdits(c, line) ==
  FoldLeft(LAMBDA d, i : AddTo(d, GetEdit(Piece(line, i), line.word)), c,
           [i \in DOMAIN line.errors |-> i])

LineStep(c, line, h) ==
  [T \in SUBSET (DOMAIN [i \in DOMAIN line.errors |-> i]) |->
     IF T = {} THEN c
     ELSE AddTo(h[T \ {Max(T)}],
                GetEdit(Piece(line, [i \in DOMAIN line.errors |-> i][Max(T)]), line.word))]

LineFold(c, line) == CHOOSE h : h = LineStep(c, line, h)

LEMMA LineEditsIs ==
  ASSUME NEW c, NEW line
  PROVE  LineEdits(c, line) = LineFold(c, line)[DOMAIN [i \in DOMAIN line.errors |-> i]]
  BY DEF LineEdits, FoldLeft, MapThenFoldSet, LineFold, LineStep

\* The counts LineEdits goes through, error by error.
EditsSoFar(p, c, line) ==
  /\ p[0] = c
  /\ \A k \in 0..Len(line.errors) : Counts(p[k])
  /\ \A k \in 0..(Len(line.errors) - 1) : p[k + 1] = AddTo(p[k], EditOf(line, k + 1))
  /\ LineEdits(c, line) = p[Len(line.errors)]

LEMMA LineChain ==
  ASSUME NEW c, Counts(c), NEW line \in Lines
  PROVE  \E p : EditsSoFar(p, c, line)
  <1> DEFINE n == Len(line.errors)
             E == DOMAIN c \cup {EditOf(line, i) : i \in 1..n}
             V == {d \in UNION {[A -> Nat] : A \in SUBSET E} : Counts(d)}
             G == [x \in (1..n) \X V |-> AddTo(x[2], EditOf(line, x[1]))]
             D == SUBSET (1..n)
  <1>1. n \in Nat /\ DOMAIN line.errors = 1..n
    <2>1. line.errors \in Seq(Written)
      BY DEF Lines
    <2> QED BY <2>1, LenProperties
  <1>2. c \in V
    <2>1. DOMAIN c \in SUBSET E /\ c \in [DOMAIN c -> Nat]
      BY DEF Counts
    <2> QED BY <2>1
  <1>3. ASSUME NEW k \in 1..n, NEW v \in V
        PROVE  AddTo(v, EditOf(line, k)) \in V
    <2>1. PICK d : d = AddTo(v, EditOf(line, k))
      OBVIOUS
    <2>2. Counts(v) /\ DOMAIN v \subseteq E
      OBVIOUS
    <2>3. Counts(d)
      BY <2>1, <2>2, AddToHas
    <2>4. DOMAIN d = DOMAIN v \cup {EditOf(line, k)}
      BY <2>1 DEF AddTo
    <2>5. DOMAIN d \in SUBSET E
      BY <2>2, <2>4
    <2>6. d \in [DOMAIN d -> Nat]
      BY <2>3 DEF Counts
    <2> QED BY <2>1, <2>3, <2>5, <2>6
  <1>4. \A v \in V : Counts(v)
    OBVIOUS
  <1> HIDE DEF V
  <1>5. \A k \in 1..n : \A v \in V : G[<<k, v>>] = AddTo(v, EditOf(line, k)) /\ G[<<k, v>>] \in V
    <2>1. \A k \in 1..n : \A v \in V : G[<<k, v>>] = AddTo(v, EditOf(line, k))
      OBVIOUS
    <2> HIDE DEF G
    <2> QED BY <2>1, <1>3
  <1> HIDE DEF G
  <1>6. FoldingUp(n, V, c, G)
    <2> HIDE DEF n
    <2> QED BY <1>1, <1>2, <1>5 DEF FoldingUp
  <1>7. PICK f : SolvesUp(f, n, V, c, G)
    <2> HIDE DEF n
    <2> QED BY <1>6, UpRecursion
  <1>8. f \in [D -> V] /\ \A T \in D : f[T] = IF T = {} THEN c ELSE G[<<Max(T), f[T \ {Max(T)}]>>]
    BY <1>7 DEF SolvesUp
  <1>9. \A T \in D : T # {} => f[T] = AddTo(f[T \ {Max(T)}], EditOf(line, Max(T)))
    <2> SUFFICES ASSUME NEW T \in D, T # {}
                 PROVE  f[T] = AddTo(f[T \ {Max(T)}], EditOf(line, Max(T)))
      OBVIOUS
    <2>1. Max(T) \in 1..n /\ T \ {Max(T)} \in D
      BY <1>1, MaxIn
    <2>2. f[T \ {Max(T)}] \in V
      BY <2>1, <1>8
    <2> HIDE DEF n, D
    <2> QED BY <2>1, <2>2, <1>5, <1>8
  <1>10. PICK one : one = [i \in DOMAIN line.errors |-> i]
    OBVIOUS
  <1>11. DOMAIN one = 1..n /\ \A i \in 1..n : one[i] = i
    BY <1>1, <1>10
  <1>12. ASSUME NEW h
         PROVE  LineStep(c, line, h) =
                  [T \in D |-> IF T = {} THEN c ELSE AddTo(h[T \ {Max(T)}], EditOf(line, Max(T)))]
    <2>1. LineStep(c, line, h) =
            [T \in D |-> IF T = {} THEN c ELSE AddTo(h[T \ {Max(T)}], EditOf(line, one[Max(T)]))]
      BY <1>10, <1>11 DEF LineStep, EditOf
    <2>2. \A T \in D : T # {} => one[Max(T)] = Max(T)
      BY <1>1, <1>11, MaxIn
    <2> HIDE DEF D
    <2> QED BY <2>1, <2>2
  <1>13. f = LineStep(c, line, f)
    <2>1. \A T \in D : f[T] = IF T = {} THEN c ELSE AddTo(f[T \ {Max(T)}], EditOf(line, Max(T)))
      BY <1>8, <1>9
    <2>2. LineStep(c, line, f) =
            [T \in D |-> IF T = {} THEN c ELSE AddTo(f[T \ {Max(T)}], EditOf(line, Max(T)))]
      BY <1>12
    <2> HIDE DEF D
    <2> QED BY <2>1, <2>2, <1>8
  <1>14. PICK g : g = LineFold(c, line)
    OBVIOUS
  <1>15. g = LineStep(c, line, g)
    BY <1>13, <1>14 DEF LineFold
  <1>16. \A T \in D : g[T] = IF T = {} THEN c ELSE AddTo(g[T \ {Max(T)}], EditOf(line, Max(T)))
    <2>1. g = [T \in D |-> IF T = {} THEN c ELSE AddTo(g[T \ {Max(T)}], EditOf(line, Max(T)))]
      BY <1>12, <1>15
    <2> HIDE DEF D
    <2> QED BY <2>1
  <1>17. f[1..n] = g[1..n]
    <2>1. f[{}] = g[{}]
      BY <1>8, <1>16
    <2>2. \A T \in D : T # {} /\ f[T \ {Max(T)}] = g[T \ {Max(T)}] => f[T] = g[T]
      BY <1>9, <1>16
    <2> QED BY <2>1, <2>2, <1>1, UpUnique
  <1>18. PICK p : /\ p \in [0..n -> V]
                  /\ p[0] = c
                  /\ \A k \in 0..(n - 1) : p[k + 1] = G[<<k + 1, p[k]>>]
                  /\ p[n] = f[1..n]
    <2> HIDE DEF n
    <2> QED BY <1>1, <1>7, UpChain
  <1>19. \A k \in 0..(n - 1) : k + 1 \in 1..n /\ p[k] \in V
    BY <1>1, <1>18
  <1>20. \A k \in 0..(n - 1) : p[k + 1] = AddTo(p[k], EditOf(line, k + 1))
    BY <1>5, <1>18, <1>19
  <1>21. \A k \in 0..n : Counts(p[k])
    BY <1>4, <1>18
  <1>22. LineEdits(c, line) = p[n]
    BY <1>10, <1>11, <1>14, <1>17, <1>18, LineEditsIs
  <1>23. EditsSoFar(p, c, line)
    BY <1>18, <1>20, <1>21, <1>22 DEF EditsSoFar
  <1> QED BY <1>23

\* A line adds as many edits as it lists errors, the one of the first error among them.
LEMMA LineHas ==
  ASSUME NEW c, Counts(c), NEW line \in Lines
  PROVE  /\ Counts(LineEdits(c, line))
         /\ SumOf(LineEdits(c, line)) = SumOf(c) + Len(line.errors)
         /\ \A x : CountIn(LineEdits(c, line), x) >=
                     CountIn(c, x) + (IF x = GetEdit(line.errors[1], line.word) THEN 1 ELSE 0)
  <1> DEFINE n == Len(line.errors)
             First(x) == IF x = GetEdit(line.errors[1], line.word) THEN 1 ELSE 0
  <1>1. n \in Nat /\ n # 0
    <2>1. line.errors \in Seq(Written) /\ line.errors # << >>
      BY DEF Lines
    <2> QED BY <2>1, LenProperties, EmptySeq
  <1>2. PICK p : EditsSoFar(p, c, line)
    BY LineChain
  <1>3. /\ p[0] = c /\ \A k \in 0..n : Counts(p[k])
        /\ \A k \in 0..(n - 1) : p[k + 1] = AddTo(p[k], EditOf(line, k + 1))
        /\ LineEdits(c, line) = p[n]
    BY <1>2 DEF EditsSoFar
  <1>4. \A k \in 0..n : SumOf(p[k]) \in Nat /\ \A x : CountIn(p[k], x) \in Nat
    BY <1>3, SumIsTallied DEF CountIn, Counts
  <1>5. SumOf(c) \in Nat /\ \A x : CountIn(c, x) \in Nat
    BY SumIsTallied DEF CountIn, Counts
  <1>6. \A x : First(x) \in {0, 1} /\ (First(x) = 1 <=> x = EditOf(line, 1))
    BY DEF EditOf, Piece
  <1> HIDE DEF First
  <1>7. \A k \in 0..(n - 1) :
          /\ SumOf(p[k + 1]) = SumOf(p[k]) + 1
          /\ \A x : CountIn(p[k + 1], x) = CountIn(p[k], x) + (IF x = EditOf(line, k + 1) THEN 1 ELSE 0)
    <2> SUFFICES ASSUME NEW k \in 0..(n - 1)
                 PROVE  /\ SumOf(p[k + 1]) = SumOf(p[k]) + 1
                        /\ \A x : CountIn(p[k + 1], x) =
                                    CountIn(p[k], x) + (IF x = EditOf(line, k + 1) THEN 1 ELSE 0)
      OBVIOUS
    <2>1. PICK d : d = p[k]
      OBVIOUS
    <2>2. PICK e : e = EditOf(line, k + 1)
      OBVIOUS
    <2>3. Counts(d)
      BY <2>1, <1>1, <1>3
    <2>4. p[k + 1] = AddTo(d, e)
      BY <2>1, <2>2, <1>3
    <2>5. /\ SumOf(AddTo(d, e)) = SumOf(d) + 1
          /\ \A x : CountIn(AddTo(d, e), x) = CountIn(d, x) + (IF x = e THEN 1 ELSE 0)
      BY <2>3, AddToHas
    <2> QED BY <2>1, <2>2, <2>4, <2>5
  <1> DEFINE T == {k \in 0..n : /\ SumOf(p[k]) = SumOf(c) + k
                                /\ \A x : CountIn(p[k], x) >= CountIn(c, x) + (IF k = 0 THEN 0 ELSE First(x))}
  <1>8. 0 \in T
    <2>1. 0 \in 0..n
      BY <1>1
    <2>2. SumOf(p[0]) = SumOf(c) + 0
      BY <1>3, <1>5
    <2>3. \A x : CountIn(p[0], x) >= CountIn(c, x) + 0
      <3> SUFFICES ASSUME NEW x
                   PROVE  CountIn(p[0], x) >= CountIn(c, x) + 0
        OBVIOUS
      <3>1. CountIn(c, x) \in Nat
        BY <1>5
      <3>2. CountIn(p[0], x) = CountIn(c, x)
        BY <1>3
      <3> QED BY <3>1, <3>2
    <2> QED BY <2>1, <2>2, <2>3
  <1>9. ASSUME NEW k \in 0..(n - 1), k \in T
        PROVE  k + 1 \in T
    <2>1. k \in 0..n /\ k + 1 \in 0..n /\ k \in Nat /\ k + 1 # 0
      BY <1>1
    <2>2. PICK s \in Nat : s = SumOf(c)
      BY <1>5
    <2>3. SumOf(p[k + 1]) = SumOf(c) + (k + 1)
      <3>1. SumOf(p[k]) = s + k /\ SumOf(p[k + 1]) = SumOf(p[k]) + 1
        BY <2>2, <1>7, <1>9
      <3>2. (s + k) + 1 = s + (k + 1)
        BY <2>1
      <3> QED BY <2>2, <3>1, <3>2
    <2>4. ASSUME NEW x
          PROVE  CountIn(p[k + 1], x) >= CountIn(c, x) + First(x)
      <3>1. PICK a \in Nat : a = CountIn(c, x)
        BY <1>5
      <3>2. PICK b \in Nat : b = CountIn(p[k], x)
        BY <2>1, <1>4
      <3>3. PICK o \in {0, 1} : o = First(x)
        BY <1>6
      <3>4. PICK i \in {0, 1} : i = IF x = EditOf(line, k + 1) THEN 1 ELSE 0
        OBVIOUS
      <3>5. CountIn(p[k + 1], x) = b + i
        BY <3>2, <3>4, <1>7
      <3>6. b >= a + (IF k = 0 THEN 0 ELSE o)
        BY <3>1, <3>2, <3>3, <1>9
      <3>7. k = 0 => i = o
        <4>1. k = 0 => k + 1 = 1
          OBVIOUS
        <4> QED BY <4>1, <3>3, <3>4, <1>6
      <3>8. b + i >= a + o
        BY <3>6, <3>7
      <3> QED BY <3>1, <3>3, <3>5, <3>8
    <2> QED BY <2>1, <2>3, <2>4
  <1>10. n \in T
    <2>1. n \in 0..n
      BY <1>1
    <2> HIDE DEF T, n
    <2> QED BY <1>1, <1>8, <1>9, <2>1, UpToSet
  <1>11. n \in 0..n
    BY <1>1
  <1> QED BY <1>1, <1>3, <1>10, <1>11 DEF First

-----------------------------------------------------------------------------
(* The errors of the lines read                                            *)

ErrorsIn(s) == FoldLeft(LAMBDA n, l : n + Len(l.errors), 0, s)

ErrorsStep(s, h) ==
  [T \in SUBSET (DOMAIN s) |->
     IF T = {} THEN 0 ELSE h[T \ {Max(T)}] + Len(s[Max(T)].errors)]

ErrorsFold(s) == CHOOSE h : h = ErrorsStep(s, h)

LEMMA ErrorsInIs ==
  ASSUME NEW s
  PROVE  ErrorsIn(s) = ErrorsFold(s)[DOMAIN s]
  BY DEF ErrorsIn, FoldLeft, MapThenFoldSet, ErrorsFold, ErrorsStep

\* The number of errors, line by line.
ErrorsSoFar(r, s) ==
  /\ r \in [0..Len(s) -> Nat]
  /\ r[0] = 0
  /\ \A k \in 0..(Len(s) - 1) : r[k + 1] = r[k] + Len(s[k + 1].errors)
  /\ ErrorsIn(s) = r[Len(s)]

LEMMA ErrorsChain ==
  ASSUME NEW s \in Seq(Lines)
  PROVE  \E r : ErrorsSoFar(r, s)
  <1> DEFINE n == Len(s)
             C(i) == Len(s[i].errors)
             G == [x \in (1..n) \X Nat |-> x[2] + C(x[1])]
             D == SUBSET (1..n)
  <1>1. n \in Nat /\ DOMAIN s = 1..n /\ \A i \in 1..n : C(i) \in Nat
    <2>1. n \in Nat /\ DOMAIN s = 1..n /\ \A i \in 1..n : s[i] \in Lines
      BY LenProperties, ElementOfSeq
    <2>2. \A l \in Lines : Len(l.errors) \in Nat
      <3> SUFFICES ASSUME NEW l \in Lines
                   PROVE  Len(l.errors) \in Nat
        OBVIOUS
      <3>1. l.errors \in Seq(Written)
        BY DEF Lines
      <3> QED BY <3>1, LenProperties
    <2> QED BY <2>1, <2>2
  <1> HIDE DEF C
  <1>2. \A k \in 1..n : \A v \in Nat : G[<<k, v>>] = v + C(k) /\ G[<<k, v>>] \in Nat
    <2>1. \A k \in 1..n : \A v \in Nat : G[<<k, v>>] = v + C(k)
      OBVIOUS
    <2>2. \A k \in 1..n : \A v \in Nat : v + C(k) \in Nat
      BY <1>1
    <2> QED BY <2>1, <2>2
  <1> HIDE DEF G
  <1>3. FoldingUp(n, Nat, 0, G)
    <2> HIDE DEF n
    <2> QED BY <1>1, <1>2 DEF FoldingUp
  <1>4. PICK f : SolvesUp(f, n, Nat, 0, G)
    <2> HIDE DEF n
    <2> QED BY <1>3, UpRecursion
  <1>5. f \in [D -> Nat] /\ \A T \in D : f[T] = IF T = {} THEN 0 ELSE G[<<Max(T), f[T \ {Max(T)}]>>]
    BY <1>4 DEF SolvesUp
  <1>6. \A T \in D : T # {} => f[T] = f[T \ {Max(T)}] + C(Max(T))
    <2> SUFFICES ASSUME NEW T \in D, T # {}
                 PROVE  f[T] = f[T \ {Max(T)}] + C(Max(T))
      OBVIOUS
    <2>1. Max(T) \in 1..n /\ T \ {Max(T)} \in D
      BY <1>1, MaxIn
    <2>2. f[T \ {Max(T)}] \in Nat
      BY <2>1, <1>5
    <2> HIDE DEF n, D
    <2> QED BY <2>1, <2>2, <1>2, <1>5
  <1>7. ASSUME NEW h
        PROVE  ErrorsStep(s, h) = [T \in D |-> IF T = {} THEN 0 ELSE h[T \ {Max(T)}] + C(Max(T))]
    BY <1>1 DEF ErrorsStep, C
  <1>8. f = ErrorsStep(s, f)
    <2>1. \A T \in D : f[T] = IF T = {} THEN 0 ELSE f[T \ {Max(T)}] + C(Max(T))
      BY <1>5, <1>6
    <2>2. ErrorsStep(s, f) = [T \in D |-> IF T = {} THEN 0 ELSE f[T \ {Max(T)}] + C(Max(T))]
      BY <1>7
    <2> HIDE DEF D
    <2> QED BY <2>1, <2>2, <1>5
  <1>9. PICK g : g = ErrorsFold(s)
    OBVIOUS
  <1>10. g = ErrorsStep(s, g)
    BY <1>8, <1>9 DEF ErrorsFold
  <1>11. \A T \in D : g[T] = IF T = {} THEN 0 ELSE g[T \ {Max(T)}] + C(Max(T))
    <2>1. g = [T \in D |-> IF T = {} THEN 0 ELSE g[T \ {Max(T)}] + C(Max(T))]
      BY <1>7, <1>10
    <2> HIDE DEF D
    <2> QED BY <2>1
  <1>12. f[1..n] = g[1..n]
    <2>1. f[{}] = g[{}]
      BY <1>5, <1>11
    <2>2. \A T \in D : T # {} /\ f[T \ {Max(T)}] = g[T \ {Max(T)}] => f[T] = g[T]
      BY <1>6, <1>11
    <2> QED BY <2>1, <2>2, <1>1, UpUnique
  <1>13. PICK r : /\ r \in [0..n -> Nat]
                  /\ r[0] = 0
                  /\ \A k \in 0..(n - 1) : r[k + 1] = G[<<k + 1, r[k]>>]
                  /\ r[n] = f[1..n]
    <2> HIDE DEF n
    <2> QED BY <1>1, <1>4, UpChain
  <1>14. \A k \in 0..(n - 1) : k + 1 \in 1..n /\ r[k] \in Nat
    BY <1>1, <1>13
  <1>15. \A k \in 0..(n - 1) : r[k + 1] = r[k] + C(k + 1)
    BY <1>2, <1>13, <1>14
  <1>16. ErrorsIn(s) = r[n]
    BY <1>1, <1>9, <1>12, <1>13, ErrorsInIs
  <1>17. ErrorsSoFar(r, s)
    BY <1>13, <1>15, <1>16 DEF ErrorsSoFar, C
  <1> QED BY <1>17

ReadUpTo(m) == SubSeq(SpellErrors, 1, m)

LEMMA ReadUpToHas ==
  ASSUME NEW m \in 0..Len(SpellErrors)
  PROVE  /\ ReadUpTo(m) \in Seq(Lines) /\ Len(ReadUpTo(m)) = m
         /\ \A k \in 1..m : ReadUpTo(m)[k] = SpellErrors[k]
  <1>1. SpellErrors \in Seq(Lines) /\ Len(SpellErrors) \in Nat
    BY LinesAre
  <1>2. m \in Nat /\ m <= Len(SpellErrors)
    BY <1>1
  <1>3. \A i \in 1..m : i \in 1..Len(SpellErrors)
    BY <1>1, <1>2
  <1>4. PICK t : t = [i \in 1..m |-> SpellErrors[i]]
    OBVIOUS
  <1>5. ReadUpTo(m) = t
    BY <1>1, <1>2, <1>4 DEF ReadUpTo
  <1>6. t \in [1..m -> Lines] /\ \A k \in 1..m : t[k] = SpellErrors[k]
    BY <1>3, <1>4, LinesAre
  <1>7. t \in Seq(Lines) /\ Len(t) = m
    BY <1>2, <1>6, FunctionIsSeq
  <1> QED BY <1>5, <1>6, <1>7

LEMMA NothingRead == ErrorsIn(ReadUpTo(0)) = 0
  <1>1. 0 \in 0..Len(SpellErrors)
    BY LinesAre
  <1>2. ReadUpTo(0) \in Seq(Lines) /\ Len(ReadUpTo(0)) = 0
    BY <1>1, ReadUpToHas
  <1>3. PICK r : ErrorsSoFar(r, ReadUpTo(0))
    BY <1>2, ErrorsChain
  <1> QED BY <1>2, <1>3 DEF ErrorsSoFar

LEMMA LineRead ==
  ASSUME NEW m \in 0..(Len(SpellErrors) - 1)
  PROVE  /\ ErrorsIn(ReadUpTo(m)) \in Nat
         /\ ErrorsIn(ReadUpTo(m + 1)) = ErrorsIn(ReadUpTo(m)) + Len(SpellErrors[m + 1].errors)
  <1>1. m \in Nat /\ m \in 0..Len(SpellErrors) /\ m + 1 \in 0..Len(SpellErrors)
    BY LinesAre
  <1>2. PICK s : s = ReadUpTo(m)
    OBVIOUS
  <1>3. PICK t : t = ReadUpTo(m + 1)
    OBVIOUS
  <1>4. s \in Seq(Lines) /\ Len(s) = m /\ \A k \in 1..m : s[k] = SpellErrors[k]
    BY <1>1, <1>2, ReadUpToHas
  <1>5. t \in Seq(Lines) /\ Len(t) = m + 1 /\ \A k \in 1..(m + 1) : t[k] = SpellErrors[k]
    BY <1>1, <1>3, ReadUpToHas
  <1>6. PICK p : ErrorsSoFar(p, s)
    BY <1>4, ErrorsChain
  <1>7. PICK r : ErrorsSoFar(r, t)
    BY <1>5, ErrorsChain
  <1>8. /\ p \in [0..m -> Nat] /\ p[0] = 0 /\ ErrorsIn(s) = p[m]
        /\ \A k \in 0..(m - 1) : p[k + 1] = p[k] + Len(s[k + 1].errors)
    BY <1>4, <1>6 DEF ErrorsSoFar
  <1>9. /\ r[0] = 0 /\ ErrorsIn(t) = r[m + 1]
        /\ \A k \in 0..m : r[k + 1] = r[k] + Len(t[k + 1].errors)
    <2>1. (m + 1) - 1 = m
      BY <1>1
    <2> QED BY <2>1, <1>5, <1>7 DEF ErrorsSoFar
  <1> DEFINE T == {k \in 0..m : p[k] = r[k]}
  <1>10. 0 \in T
    BY <1>1, <1>8, <1>9
  <1>11. ASSUME NEW k \in 0..(m - 1), k \in T
         PROVE  k + 1 \in T
    <2>1. k \in 0..m /\ k + 1 \in 0..m /\ k + 1 \in 1..m /\ k + 1 \in 1..(m + 1)
      BY <1>1
    <2>2. s[k + 1] = t[k + 1]
      BY <2>1, <1>4, <1>5
    <2>3. p[k + 1] = r[k + 1]
      BY <2>1, <2>2, <1>8, <1>9, <1>11
    <2> QED BY <2>1, <2>3
  <1>12. m \in 0..m /\ m + 1 \in 1..(m + 1)
    BY <1>1
  <1>13. p[m] = r[m]
    <2> HIDE DEF T
    <2>1. m \in T
      BY <1>1, <1>10, <1>11, <1>12, UpToSet
    <2> QED BY <2>1 DEF T
  <1>14. p[m] \in Nat
    BY <1>8, <1>12
  <1> QED BY <1>2, <1>3, <1>5, <1>8, <1>9, <1>12, <1>13, <1>14

-----------------------------------------------------------------------------
(* The lines whose first error is one edit                                 *)

FirstEdits(l) == SingleEdits(SpellErrors[l].errors[1], SpellErrors[l].word)

Firsts(m, e) == {l \in 1..m : e \in FirstEdits(l)}

LEMMA FirstsFinite ==
  ASSUME NEW m \in Nat, NEW e
  PROVE  IsFiniteSet(Firsts(m, e)) /\ Cardinality(Firsts(m, e)) \in Nat
  <1>1. IsFiniteSet(1..m) /\ Firsts(m, e) \subseteq 1..m
    BY UpTo DEF Firsts
  <1> QED BY <1>1, FS_Subset, FS_CardinalityType

LEMMA FirstEditIs ==
  ASSUME NEW l \in 1..Len(SpellErrors), NEW e \in FirstEdits(l)
  PROVE  e = GetEdit(SpellErrors[l].errors[1], SpellErrors[l].word)
  <1>1. PICK line \in Lines : line = SpellErrors[l]
    BY LinesAre
  <1>2. line.word \in Written /\ line.errors \in Seq(Written) /\ line.errors # << >>
    BY DEF Lines
  <1>3. line.errors[1] \in Written
    <2>1. Len(line.errors) \in Nat /\ Len(line.errors) # 0
      BY <1>2, LenProperties, EmptySeq
    <2>2. 1 \in 1..Len(line.errors)
      BY <2>1
    <2> QED BY <2>2, <1>2, ElementOfSeq
  <1>4. PICK u \in Seq(STRING) : u = line.errors[1] /\ u # << >>
    BY <1>3 DEF Written
  <1>5. PICK v \in Seq(STRING) : v = line.word /\ v # << >>
    BY <1>2 DEF Written
  <1>6. e \in SingleEdits(u, v)
    BY <1>1, <1>4, <1>5 DEF FirstEdits
  <1>7. e = GetEdit(u, v)
    BY <1>4, <1>5, <1>6, SingleEditIs
  <1> QED BY <1>1, <1>4, <1>5, <1>7

LEMMA FirstsNext ==
  ASSUME NEW m \in 0..(Len(SpellErrors) - 1), NEW e
  PROVE  Cardinality(Firsts(m + 1, e)) <=
           Cardinality(Firsts(m, e)) +
             (IF e = GetEdit(SpellErrors[m + 1].errors[1], SpellErrors[m + 1].word) THEN 1 ELSE 0)
  <1>1. m \in Nat /\ m + 1 \in 1..Len(SpellErrors) /\ 1..(m + 1) = (1..m) \cup {m + 1}
    BY LinesAre
  <1>2. PICK A : A = Firsts(m, e)
    OBVIOUS
  <1>3. IsFiniteSet(A) /\ Cardinality(A) \in Nat
    BY <1>1, <1>2, FirstsFinite
  <1>4. m + 1 \notin A
    <2>1. m + 1 \notin 1..m
      BY <1>1
    <2> QED BY <2>1, <1>2 DEF Firsts
  <1>5. CASE e \in FirstEdits(m + 1)
    <2>1. Firsts(m + 1, e) = A \cup {m + 1}
      BY <1>1, <1>2, <1>5 DEF Firsts
    <2>2. PICK a \in Nat : a = Cardinality(A)
      BY <1>3
    <2>3. Cardinality(Firsts(m + 1, e)) = a + 1
      BY <2>1, <2>2, <1>3, <1>4, FS_AddElement
    <2>4. e = GetEdit(SpellErrors[m + 1].errors[1], SpellErrors[m + 1].word)
      BY <1>1, <1>5, FirstEditIs
    <2> QED BY <2>2, <2>3, <2>4, <1>2
  <1>6. CASE e \notin FirstEdits(m + 1)
    <2>1. Firsts(m + 1, e) = A
      BY <1>1, <1>2, <1>6 DEF Firsts
    <2>2. PICK o \in {0, 1} :
            o = IF e = GetEdit(SpellErrors[m + 1].errors[1], SpellErrors[m + 1].word) THEN 1 ELSE 0
      OBVIOUS
    <2>3. Cardinality(A) <= Cardinality(A) + o
      BY <1>3
    <2> QED BY <2>1, <2>2, <2>3, <1>2
  <1> QED BY <1>5, <1>6

-----------------------------------------------------------------------------
(* Training                                                                *)

\* Each error of the lines read is counted once, and each of the edits that make the
\* first errors as often as it does, at least.
TrainedWith(m, c) ==
  /\ m \in 0..Len(SpellErrors)
  /\ Counts(c)
  /\ SumOf(c) = ErrorsIn(ReadUpTo(m))
  /\ \A e : CountIn(c, e) >= Cardinality(Firsts(m, e))

Trained == TrainedWith(read, editCount)

LEMMA UntrainedIsTrained == TrainedWith(0, << >>)
  <1>1. Counts(<< >>)
    <2>1. DOMAIN << >> = {} /\ << >> \in [{} -> Nat]
      OBVIOUS
    <2> QED BY <2>1, FS_EmptySet DEF Counts
  <1>2. SumOf(<< >>) = 0
    <2>1. Tallies(<< >>, DOMAIN << >>) = {}
      BY DEF Tallies
    <2> QED BY <2>1, <1>1, SumIsTallied, FS_EmptySet
  <1>3. ASSUME NEW e
        PROVE  CountIn(<< >>, e) >= Cardinality(Firsts(0, e))
    <2>1. Firsts(0, e) = {}
      BY DEF Firsts
    <2>2. CountIn(<< >>, e) = 0
      BY DEF CountIn
    <2> QED BY <2>1, <2>2, FS_EmptySet
  <1>4. 0 \in 0..Len(SpellErrors)
    BY LinesAre
  <1> QED BY <1>1, <1>2, <1>3, <1>4, NothingRead DEF TrainedWith

LEMMA OneMoreLine ==
  ASSUME NEW m \in 0..(Len(SpellErrors) - 1), NEW c, TrainedWith(m, c)
  PROVE  TrainedWith(m + 1, LineEdits(c, SpellErrors[m + 1]))
  <1>1. m \in Nat /\ m + 1 \in 1..Len(SpellErrors) /\ m + 1 \in 0..Len(SpellErrors)
    BY LinesAre
  <1>2. PICK line \in Lines : line = SpellErrors[m + 1]
    BY <1>1, LinesAre
  <1>3. /\ Counts(c) /\ SumOf(c) = ErrorsIn(ReadUpTo(m))
        /\ \A e : CountIn(c, e) >= Cardinality(Firsts(m, e))
    BY DEF TrainedWith
  <1>4. PICK d : d = LineEdits(c, line)
    OBVIOUS
  <1>5. /\ Counts(d)
        /\ SumOf(d) = SumOf(c) + Len(line.errors)
        /\ \A e : CountIn(d, e) >=
                    CountIn(c, e) + (IF e = GetEdit(line.errors[1], line.word) THEN 1 ELSE 0)
    BY <1>3, <1>4, LineHas
  <1>6. SumOf(d) = ErrorsIn(ReadUpTo(m + 1))
    BY <1>2, <1>3, <1>5, LineRead
  <1>7. ASSUME NEW e
        PROVE  CountIn(d, e) >= Cardinality(Firsts(m + 1, e))
    <2>1. PICK o \in {0, 1} : o = IF e = GetEdit(line.errors[1], line.word) THEN 1 ELSE 0
      OBVIOUS
    <2>2. PICK a \in Nat : a = Cardinality(Firsts(m, e))
      BY <1>1, FirstsFinite
    <2>3. PICK b \in Nat : b = Cardinality(Firsts(m + 1, e))
      BY <1>1, FirstsFinite
    <2>4. b <= a + o
      BY <2>1, <2>2, <2>3, <1>2, FirstsNext
    <2>5. PICK x \in Nat : x = CountIn(c, e)
      BY <1>3 DEF CountIn, Counts
    <2>6. PICK y \in Nat : y = CountIn(d, e)
      BY <1>5 DEF CountIn, Counts
    <2>7. x >= a
      BY <2>2, <2>5, <1>3
    <2>8. y >= x + o
      BY <2>1, <2>5, <2>6, <1>5
    <2>9. y >= b
      BY <2>4, <2>7, <2>8
    <2> QED BY <2>3, <2>6, <2>9
  <1>8. TrainedWith(m + 1, d)
    BY <1>1, <1>5, <1>6, <1>7 DEF TrainedWith
  <1> QED BY <1>2, <1>4, <1>8

LEMMA TrainedIsListed == Trained => EditsAsListed
  <1> SUFFICES ASSUME Trained
               PROVE  EditsAsListed
    OBVIOUS
  <1>1. /\ read \in 0..Len(SpellErrors) /\ Counts(editCount)
        /\ SumOf(editCount) = ErrorsIn(ReadUpTo(read))
        /\ \A e : CountIn(editCount, e) >= Cardinality(Firsts(read, e))
    BY DEF Trained, TrainedWith
  <1>2. MapThenSumSet(LAMBDA e : editCount[e], DOMAIN editCount) = SumOf(editCount)
    BY DEF MapThenSumSet, MapThenFoldSet, SumOf, SumOfStep
  <1>3. ErrorsIn(ReadUpTo(read)) =
          FoldLeft(LAMBDA n, l : n + Len(l.errors), 0, SubSeq(SpellErrors, 1, read))
    BY DEF ErrorsIn, ReadUpTo
  <1>4. read \in Nat
    BY <1>1, LinesAre
  <1>5. ASSUME NEW l \in 1..read, NEW e \in FirstEdits(l)
        PROVE  e \in DOMAIN editCount /\ editCount[e] >= Cardinality(Firsts(read, e))
    <2>1. l \in Firsts(read, e)
      BY <1>5 DEF Firsts
    <2>2. IsFiniteSet(Firsts(read, e)) /\ Cardinality(Firsts(read, e)) \in Nat
      BY <1>4, FirstsFinite
    <2>3. Cardinality(Firsts(read, e)) # 0
      BY <2>1, <2>2, FS_EmptySet
    <2>4. CountIn(editCount, e) >= Cardinality(Firsts(read, e))
      BY <1>1
    <2>5. CountIn(editCount, e) # 0
      <3>1. PICK a \in Nat : a = Cardinality(Firsts(read, e))
        BY <2>2
      <3>2. ~(0 >= a)
        BY <3>1, <2>3
      <3> QED BY <3>1, <3>2, <2>4
    <2>6. e \in DOMAIN editCount
      BY <2>5 DEF CountIn
    <2> QED BY <2>4, <2>6 DEF CountIn
  <1>6. \A l \in 1..read : \A e \in SingleEdits(SpellErrors[l].errors[1], SpellErrors[l].word) :
          /\ e \in DOMAIN editCount
          /\ editCount[e] >=
               Cardinality({k \in 1..read : e \in SingleEdits(SpellErrors[k].errors[1], SpellErrors[k].word)})
    BY <1>5 DEF FirstEdits, Firsts
  <1> QED BY <1>1, <1>2, <1>3, <1>6 DEF EditsAsListed

LEMMA TrainedHolds == Spec => []Trained
  <1>1. Init => Trained
    BY UntrainedIsTrained DEF Init, Trained
  <1>2. Trained /\ [Next]_vars => Trained'
    <2> SUFFICES ASSUME Trained, [Next]_vars
                 PROVE  Trained'
      OBVIOUS
    <2>1. CASE ReadErrors
      <3>1. read < Len(SpellErrors) /\ read' = read + 1
        BY <2>1, Zenon DEF ReadErrors
      <3>2. editCount' = LineEdits(editCount, SpellErrors[read + 1])
        BY <2>1, Zenon DEF ReadErrors, LineEdits
      <3>3. read \in 0..(Len(SpellErrors) - 1) /\ TrainedWith(read, editCount)
        BY <3>1, LinesAre DEF Trained, TrainedWith
      <3>4. TrainedWith(read + 1, LineEdits(editCount, SpellErrors[read + 1]))
        BY <3>3, OneMoreLine
      <3> QED BY <3>1, <3>2, <3>4 DEF Trained
    <2>2. CASE BuildEditProb
      BY <2>2 DEF BuildEditProb, Trained
    <2>3. CASE IndexDocument
      BY <2>3 DEF IndexDocument, Trained
    <2>4. CASE BuildNGram
      BY <2>4 DEF BuildNGram, Trained
    <2>5. CASE FreeFormQuery
      BY <2>5 DEF FreeFormQuery, Ask, Trained
    <2>6. CASE Autocomplete
      BY <2>6 DEF Autocomplete, Ask, Trained
    <2>7. CASE UNCHANGED vars
      BY <2>7 DEF vars, Trained
    <2> QED BY <2>1, <2>2, <2>3, <2>4, <2>5, <2>6, <2>7 DEF Next
  <1> QED BY <1>1, <1>2, PTL DEF Spec

\* Training counts every listed error once, and counts each insertion, deletion,
\* substitution and transposition that comes first on its line as that edit, under the
\* letters getEdit records (SearchWords!EditsAsListed).
THEOREM EditsAreListed == Spec => []EditsAsListed
  BY TrainedHolds, TrainedIsListed, PTL

-----------------------------------------------------------------------------
(* The n-grams of a text                                                   *)

Tokens == Seq(Letters)

\* The i-th word of doc with n start tokens.
PaddedAt(doc, n, i) ==
  IF i <= n THEN START_TOKEN ELSE IF i <= n + Len(doc) THEN doc[i - n] ELSE END_TOKEN

LEMMA MarkersAreTokens == START_TOKEN \in Tokens /\ END_TOKEN \in Tokens /\ START_TOKEN # END_TOKEN
  <1>1. START_TOKEN \in Tokens /\ END_TOKEN \in Tokens
    BY MarkersAreWords DEF Tokens, Markers
  <1>2. Len(START_TOKEN) = 3 /\ Len(END_TOKEN) = 4
    BY DEF START_TOKEN, END_TOKEN
  <1> QED BY <1>1, <1>2

LEMMA PaddedHas ==
  ASSUME NEW doc \in Seq(Tokens), NEW n \in Nat
  PROVE  /\ AddStartEndToken(doc, n) \in Seq(Tokens)
         /\ Len(AddStartEndToken(doc, n)) = n + Len(doc) + 1
         /\ \A i \in 1..(n + Len(doc) + 1) : AddStartEndToken(doc, n)[i] = PaddedAt(doc, n, i)
  <1>1. PICK s : s = [i \in 1..n |-> START_TOKEN]
    OBVIOUS
  <1>2. s \in Seq(Tokens) /\ Len(s) = n /\ \A i \in 1..n : s[i] = START_TOKEN
    <2>1. s \in [1..n -> Tokens] /\ \A i \in 1..n : s[i] = START_TOKEN
      BY <1>1, MarkersAreTokens
    <2> QED BY <2>1, FunctionIsSeq
  <1>3. PICK e : e = <<END_TOKEN>>
    OBVIOUS
  <1>4. e \in Seq(Tokens) /\ Len(e) = 1 /\ e[1] = END_TOKEN
    BY <1>3, MarkersAreTokens, Singleton
  <1>5. PICK m \in Nat : m = Len(doc)
    BY LenProperties
  <1>6. /\ s \o doc \in Seq(Tokens) /\ Len(s \o doc) = n + m
        /\ \A i \in 1..(n + m) : (s \o doc)[i] = IF i <= n THEN s[i] ELSE doc[i - n]
    BY <1>2, <1>5, ConcatProperties
  <1>7. PICK t \in Seq(Tokens) : t = s \o doc
    BY <1>6
  <1>8. /\ t \o e \in Seq(Tokens) /\ Len(t \o e) = Len(t) + Len(e)
        /\ \A i \in 1..(Len(t) + Len(e)) : (t \o e)[i] = IF i <= Len(t) THEN t[i] ELSE e[i - Len(t)]
    BY <1>4, ConcatProperties
  <1>9. Len(t) = n + m /\ Len(t) + Len(e) = n + m + 1
    BY <1>4, <1>6, <1>7
  <1>10. ASSUME NEW i \in 1..(n + m + 1)
         PROVE  (t \o e)[i] = PaddedAt(doc, n, i)
    <2>1. (t \o e)[i] = IF i <= n + m THEN t[i] ELSE e[i - (n + m)]
      BY <1>8, <1>9
    <2>2. CASE i <= n
      <3>1. i \in 1..n /\ i \in 1..(n + m) /\ i <= n + m
        BY <2>2
      <3> QED BY <3>1, <2>1, <2>2, <1>2, <1>6, <1>7 DEF PaddedAt
    <2>3. CASE ~(i <= n) /\ i <= n + m
      <3>1. i \in 1..(n + m)
        BY <2>3
      <3> QED BY <3>1, <2>1, <2>3, <1>5, <1>6, <1>7 DEF PaddedAt
    <2>4. CASE ~(i <= n + m)
      <3>1. i - (n + m) = 1 /\ ~(i <= n)
        BY <2>4
      <3> QED BY <3>1, <2>1, <2>4, <1>4, <1>5 DEF PaddedAt
    <2> QED BY <2>2, <2>3, <2>4
  <1>11. AddStartEndToken(doc, n) = t \o e
    BY <1>1, <1>3, <1>7 DEF AddStartEndToken
  <1> QED BY <1>5, <1>8, <1>9, <1>10, <1>11

\* Where n-grams begin, as <<document, index>>: the same whatever n.
Windows(ds) == UNION {{<<d, i>> : i \in Begins(ds[d])} : d \in DOMAIN ds}

Gram(ds, n, p) == SubSeq(AddStartEndToken(ds[p[1]], n), p[2], p[2] + n - 1)

\* The first n words of the n-gram, one longer, that begins there, and its last word.
Before(ds, n, p) == SubSeq(AddStartEndToken(ds[p[1]], n + 1), p[2], p[2] + n - 1)
NextWord(ds, p)  == PaddedAt(ds[p[1]], 1, p[2])

LEMMA WindowsAre ==
  ASSUME NEW ds \in Seq(Seq(Tokens))
  PROVE  /\ IsFiniteSet(Windows(ds))
         /\ \A p : p \in Windows(ds) <=>
                     \E d \in DOMAIN ds : \E b \in 1..(Len(ds[d]) + 2) : p = <<d, b>>
         /\ \A d \in DOMAIN ds : ds[d] \in Seq(Tokens) /\ Len(ds[d]) \in Nat
  <1>1. Len(ds) \in Nat /\ DOMAIN ds = 1..Len(ds) /\ \A d \in DOMAIN ds : ds[d] \in Seq(Tokens)
    BY LenProperties, ElementOfSeq
  <1>2. \A d \in DOMAIN ds : Begins(ds[d]) = 1..(Len(ds[d]) + 2) /\ Len(ds[d]) \in Nat
    BY <1>1, LenProperties DEF Begins
  <1> DEFINE Of(d) == {<<d, i>> : i \in Begins(ds[d])}
             All == {Of(d) : d \in DOMAIN ds}
  <1>3. \A e \in DOMAIN ds : IsFiniteSet(Of(e))
    <2> SUFFICES ASSUME NEW e \in DOMAIN ds
                 PROVE  IsFiniteSet(Of(e))
      OBVIOUS
    <2>1. PICK A : A = Begins(ds[e])
      OBVIOUS
    <2>2. IsFiniteSet(A)
      <3>1. PICK k \in Nat : k = Len(ds[e]) + 2
        BY <1>2
      <3>2. A = 1..k
        BY <3>1, <2>1, <1>2
      <3> QED BY <3>2, UpTo
    <2>3. IsFiniteSet({e} \X A)
      BY <2>2, FS_Singleton, FS_Product
    <2>4. Of(e) \subseteq {e} \X A
      BY <2>1
    <2> QED BY <2>3, <2>4, FS_Subset
  <1>4. \A p : p \in Windows(ds) <=>
                 \E d \in DOMAIN ds : \E b \in 1..(Len(ds[d]) + 2) : p = <<d, b>>
    <2>1. \A p : p \in Windows(ds) <=> \E d \in DOMAIN ds : \E b \in Begins(ds[d]) : p = <<d, b>>
      BY DEF Windows
    <2> QED BY <2>1, <1>2
  <1>5. Windows(ds) = UNION All
    BY DEF Windows
  <1> HIDE DEF Of
  <1>6. IsFiniteSet(All)
    <2>1. IsFiniteSet(DOMAIN ds)
      BY <1>1, UpTo
    <2>2. PICK f : f = [d \in DOMAIN ds |-> Of(d)]
      OBVIOUS
    <2>3. f \in [DOMAIN ds -> All] /\ \A y \in All : \E d \in DOMAIN ds : f[d] = y
      BY <2>2
    <2>4. f \in Surjection(DOMAIN ds, All)
      BY <2>3 DEF Surjection
    <2> QED BY <2>1, <2>4, FS_Surjection
  <1>7. \A t \in All : IsFiniteSet(t)
    BY <1>3
  <1>8. IsFiniteSet(UNION All)
    <2> HIDE DEF All
    <2> QED BY <1>6, <1>7, FS_UNION
  <1> QED BY <1>1, <1>2, <1>4, <1>5, <1>8

\* Letter by letter.
LEMMA GramHas ==
  ASSUME NEW ds \in Seq(Seq(Tokens)), NEW n \in Nat, NEW d \in DOMAIN ds,
         NEW b \in 1..(Len(ds[d]) + 2)
  PROVE  /\ Gram(ds, n, <<d, b>>) \in Seq(Tokens) /\ Len(Gram(ds, n, <<d, b>>)) = n
         /\ \A k \in 1..n : Gram(ds, n, <<d, b>>)[k] = PaddedAt(ds[d], n, b + k - 1)
         /\ Before(ds, n, <<d, b>>) \in Seq(Tokens) /\ Len(Before(ds, n, <<d, b>>)) = n
         /\ \A k \in 1..n : Before(ds, n, <<d, b>>)[k] = PaddedAt(ds[d], n + 1, b + k - 1)
         /\ NextWord(ds, <<d, b>>) \in Tokens
  <1>1. PICK doc \in Seq(Tokens) : doc = ds[d]
    BY WindowsAre
  <1>2. PICK m \in Nat : m = Len(doc)
    BY LenProperties
  <1>3. b \in 1..(m + 2) /\ b \in Int /\ b + n - 1 \in Int
    BY <1>1, <1>2
  <1>4. \A k \in 1..n : b + k - 1 \in 1..(n + m + 1) /\ b + k - 1 \in 1..((n + 1) + m + 1)
    BY <1>3
  <1>5. /\ (b + n - 1) - b + 1 = n
        /\ (IF b <= b + n - 1 THEN (b + n - 1) - b + 1 ELSE 0) = n
        /\ \A k \in b..(b + n - 1) : k \in 1..(n + m + 1) /\ k \in 1..((n + 1) + m + 1)
    BY <1>3
  <1>6. PICK q : q = AddStartEndToken(doc, n)
    OBVIOUS
  <1>7. /\ q \in Seq(Tokens) /\ Len(q) = n + m + 1
        /\ \A i \in 1..(n + m + 1) : q[i] = PaddedAt(doc, n, i)
    BY <1>2, <1>6, PaddedHas
  <1>8. /\ SubSeq(q, b, b + n - 1) \in Seq(Tokens)
        /\ Len(SubSeq(q, b, b + n - 1)) = n
        /\ \A i \in 1..n : SubSeq(q, b, b + n - 1)[i] = q[b + i - 1]
    <2>1. \A i \in b..(b + n - 1) : q[i] \in Tokens
      BY <1>5, <1>7, ElementOfSeq
    <2> HIDE DEF Tokens
    <2>2. PICK z \in Int : z = b + n - 1
      BY <1>3
    <2>3. /\ SubSeq(q, b, z) \in Seq(Tokens)
          /\ Len(SubSeq(q, b, z)) = IF b <= z THEN z - b + 1 ELSE 0
          /\ \A i \in 1..(z - b + 1) : SubSeq(q, b, z)[i] = q[b + i - 1]
      BY <2>1, <2>2, <1>3, SubSeqProperties
    <2> QED BY <2>2, <2>3, <1>5
  <1>9. PICK r : r = AddStartEndToken(doc, n + 1)
    OBVIOUS
  <1>10. /\ r \in Seq(Tokens) /\ Len(r) = (n + 1) + m + 1
         /\ \A i \in 1..((n + 1) + m + 1) : r[i] = PaddedAt(doc, n + 1, i)
    <2>1. PICK n1 \in Nat : n1 = n + 1
      OBVIOUS
    <2>2. /\ AddStartEndToken(doc, n1) \in Seq(Tokens)
          /\ Len(AddStartEndToken(doc, n1)) = n1 + Len(doc) + 1
          /\ \A i \in 1..(n1 + Len(doc) + 1) : AddStartEndToken(doc, n1)[i] = PaddedAt(doc, n1, i)
      BY PaddedHas
    <2> QED BY <2>1, <2>2, <1>2, <1>9
  <1>11. /\ SubSeq(r, b, b + n - 1) \in Seq(Tokens)
         /\ Len(SubSeq(r, b, b + n - 1)) = n
         /\ \A i \in 1..n : SubSeq(r, b, b + n - 1)[i] = r[b + i - 1]
    <2>1. \A i \in b..(b + n - 1) : r[i] \in Tokens
      BY <1>5, <1>10, ElementOfSeq
    <2>2. PICK z \in Int : z = b + n - 1
      BY <1>3
    <2>3. /\ SubSeq(r, b, z) \in Seq(Tokens)
          /\ Len(SubSeq(r, b, z)) = IF b <= z THEN z - b + 1 ELSE 0
          /\ \A i \in 1..(z - b + 1) : SubSeq(r, b, z)[i] = r[b + i - 1]
      BY <2>1, <2>2, <1>3, SubSeqProperties
    <2> QED BY <2>2, <2>3, <1>5
  <1>12. <<d, b>>[1] = d /\ <<d, b>>[2] = b
    OBVIOUS
  <1>13. Gram(ds, n, <<d, b>>) = SubSeq(q, b, b + n - 1)
    BY <1>1, <1>6, <1>12 DEF Gram
  <1>14. Before(ds, n, <<d, b>>) = SubSeq(r, b, b + n - 1)
    BY <1>1, <1>9, <1>12 DEF Before
  <1>15. NextWord(ds, <<d, b>>) \in Tokens
    <2>1. \A i \in 1..m : doc[i] \in Tokens
      BY <1>2, ElementOfSeq
    <2>2. ~(b <= 1) /\ b <= 1 + m => b - 1 \in 1..m
      BY <1>3
    <2> QED BY <2>1, <2>2, <1>1, <1>2, <1>12, MarkersAreTokens DEF NextWord, PaddedAt
  <1> QED BY <1>1, <1>4, <1>7, <1>8, <1>10, <1>11, <1>13, <1>14, <1>15

LEMMA SameAppended ==
  ASSUME NEW X, NEW s \in Seq(X), NEW t \in Seq(X), NEW v \in X, NEW w \in X
  PROVE  Append(s, v) = Append(t, w) <=> s = t /\ v = w
  <1>1. /\ Len(Append(s, v)) = Len(s) + 1 /\ Append(s, v)[Len(s) + 1] = v
        /\ \A i \in 1..Len(s) : Append(s, v)[i] = s[i]
    BY AppendProperties
  <1>2. /\ Len(Append(t, w)) = Len(t) + 1 /\ Append(t, w)[Len(t) + 1] = w
        /\ \A i \in 1..Len(t) : Append(t, w)[i] = t[i]
    BY AppendProperties
  <1>3. Len(s) \in Nat /\ Len(t) \in Nat
    BY LenProperties
  <1>4. ASSUME Append(s, v) = Append(t, w)
        PROVE  s = t /\ v = w
    <2>1. Len(s) = Len(t)
      BY <1>1, <1>2, <1>3, <1>4
    <2>2. \A i \in 1..Len(s) : s[i] = t[i]
      BY <2>1, <1>1, <1>2, <1>4
    <2>3. s = t
      BY <2>1, <2>2, SeqEqual
    <2> QED BY <2>1, <2>3, <1>1, <1>2, <1>4
  <1> QED BY <1>4

\* An n-gram, one longer, is its first n words and its last.
LEMMA GramSplits ==
  ASSUME NEW ds \in Seq(Seq(Tokens)), NEW n \in Nat, NEW d \in DOMAIN ds,
         NEW b \in 1..(Len(ds[d]) + 2)
  PROVE  Gram(ds, n + 1, <<d, b>>) = Append(Before(ds, n, <<d, b>>), NextWord(ds, <<d, b>>))
  <1>1. PICK m \in Nat : m = Len(ds[d])
    BY WindowsAre
  <1>2. b \in 1..(m + 2)
    BY <1>1
  <1>3. PICK n1 \in Nat : n1 = n + 1
    OBVIOUS
  <1>4. PICK g \in Seq(Tokens) : g = Gram(ds, n1, <<d, b>>)
    BY GramHas
  <1>5. Len(g) = n1 /\ \A k \in 1..n1 : g[k] = PaddedAt(ds[d], n1, b + k - 1)
    BY <1>4, GramHas
  <1>6. PICK s \in Seq(Tokens) : s = Before(ds, n, <<d, b>>)
    BY GramHas
  <1>7. Len(s) = n /\ \A k \in 1..n : s[k] = PaddedAt(ds[d], n1, b + k - 1)
    BY <1>3, <1>6, GramHas
  <1>8. PICK w \in Tokens : w = NextWord(ds, <<d, b>>)
    BY GramHas
  <1>9. g[n1] = w
    <2>1. n1 \in 1..n1 /\ b + n1 - 1 = b + n
      BY <1>2, <1>3
    <2>2. g[n1] = PaddedAt(ds[d], n1, b + n)
      BY <2>1, <1>5
    <2>3. w = PaddedAt(ds[d], 1, b)
      BY <1>8 DEF NextWord
    <2>4. /\ b + n <= n1 <=> b <= 1
          /\ b + n <= n1 + m <=> b <= 1 + m
          /\ b + n - n1 = b - 1
      BY <1>2, <1>3
    <2>5. PaddedAt(ds[d], n1, b + n) =
            IF b + n <= n1 THEN START_TOKEN ELSE IF b + n <= n1 + m THEN ds[d][b + n - n1] ELSE END_TOKEN
      BY <1>1 DEF PaddedAt
    <2>6. PaddedAt(ds[d], 1, b) =
            IF b <= 1 THEN START_TOKEN ELSE IF b <= 1 + m THEN ds[d][b - 1] ELSE END_TOKEN
      BY <1>1 DEF PaddedAt
    <2> QED BY <2>2, <2>3, <2>4, <2>5, <2>6
  <1>10. PICK t \in Seq(Tokens) : t = Append(s, w)
    BY AppendProperties
  <1>11. Len(t) = n + 1 /\ t[n + 1] = w /\ \A i \in 1..n : t[i] = s[i]
    <2>1. /\ Len(Append(s, w)) = Len(s) + 1 /\ Append(s, w)[Len(s) + 1] = w
          /\ \A i \in 1..Len(s) : Append(s, w)[i] = s[i]
      BY AppendProperties
    <2> QED BY <2>1, <1>7, <1>10
  <1>12. \A i \in 1..n1 : g[i] = t[i]
    <2> SUFFICES ASSUME NEW i \in 1..n1
                 PROVE  g[i] = t[i]
      OBVIOUS
    <2>1. i = n1 \/ i \in 1..n
      BY <1>3
    <2> QED BY <2>1, <1>3, <1>5, <1>7, <1>9, <1>11
  <1>13. g = t
    BY <1>3, <1>5, <1>11, <1>12, SeqEqual
  <1> QED BY <1>3, <1>4, <1>6, <1>8, <1>10, <1>13

\* The words before are start tokens, or the n-gram that begins one word earlier.
LEMMA BeforeIs ==
  ASSUME NEW ds \in Seq(Seq(Tokens)), NEW n \in Nat, NEW d \in DOMAIN ds
  PROVE  /\ \A k \in 1..n : Before(ds, n, <<d, 1>>)[k] = START_TOKEN
         /\ \A b \in 1..(Len(ds[d]) + 1) : Before(ds, n, <<d, b + 1>>) = Gram(ds, n, <<d, b>>)
  <1>1. PICK m \in Nat : m = Len(ds[d])
    BY WindowsAre
  <1>2. ASSUME NEW k \in 1..n
        PROVE  Before(ds, n, <<d, 1>>)[k] = START_TOKEN
    <2>1. 1 \in 1..(m + 2) /\ 1 + k - 1 = k /\ k <= n + 1
      BY <1>1
    <2>2. Before(ds, n, <<d, 1>>)[k] = PaddedAt(ds[d], n + 1, 1 + k - 1)
      BY <2>1, <1>1, GramHas
    <2> QED BY <2>1, <2>2 DEF PaddedAt
  <1>3. ASSUME NEW b \in 1..(m + 1)
        PROVE  Before(ds, n, <<d, b + 1>>) = Gram(ds, n, <<d, b>>)
    <2>1. b \in 1..(m + 2) /\ b + 1 \in 1..(m + 2)
      BY <1>1
    <2>2. PICK c \in 1..(m + 2) : c = b + 1
      BY <2>1
    <2>3. PICK s \in Seq(Tokens) : s = Before(ds, n, <<d, c>>)
      BY <1>1, GramHas
    <2>4. Len(s) = n /\ \A k \in 1..n : s[k] = PaddedAt(ds[d], n + 1, c + k - 1)
      BY <2>3, <1>1, GramHas
    <2>5. PICK g \in Seq(Tokens) : g = Gram(ds, n, <<d, b>>)
      BY <2>1, <1>1, GramHas
    <2>6. Len(g) = n /\ \A k \in 1..n : g[k] = PaddedAt(ds[d], n, b + k - 1)
      BY <2>1, <2>5, <1>1, GramHas
    <2>7. ASSUME NEW k \in 1..n
          PROVE  s[k] = g[k]
      <3>1. /\ c + k - 1 <= n + 1 <=> b + k - 1 <= n
            /\ c + k - 1 <= (n + 1) + m <=> b + k - 1 <= n + m
            /\ (c + k - 1) - (n + 1) = (b + k - 1) - n
        BY <2>2
      <3>2. PaddedAt(ds[d], n + 1, c + k - 1) = PaddedAt(ds[d], n, b + k - 1)
        BY <3>1, <1>1 DEF PaddedAt
      <3> QED BY <3>2, <2>4, <2>6
    <2>8. s = g
      BY <2>4, <2>6, <2>7, SeqEqual
    <2> QED BY <2>2, <2>3, <2>5, <2>8
  <1> QED BY <1>1, <1>2, <1>3

\* An n-gram ends with the word its begin tells, whatever n.
LEMMA GramEnds ==
  ASSUME NEW ds \in Seq(Seq(Tokens)), NEW n \in Nat, n # 0, NEW d \in DOMAIN ds,
         NEW b \in 1..(Len(ds[d]) + 2)
  PROVE  Gram(ds, n, <<d, b>>)[n] = NextWord(ds, <<d, b>>)
  <1>1. PICK m \in Nat : m = Len(ds[d])
    BY WindowsAre
  <1>2. b \in 1..(m + 2)
    BY <1>1
  <1>3. n \in 1..n
    OBVIOUS
  <1>4. Gram(ds, n, <<d, b>>)[n] = PaddedAt(ds[d], n, b + n - 1)
    BY <1>3, GramHas
  <1>5. NextWord(ds, <<d, b>>) = PaddedAt(ds[d], 1, b)
    BY DEF NextWord
  <1>6. /\ b + n - 1 <= n <=> b <= 1
        /\ b + n - 1 <= n + m <=> b <= 1 + m
        /\ (b + n - 1) - n = b - 1
    BY <1>2
  <1> QED BY <1>1, <1>4, <1>5, <1>6 DEF PaddedAt

LEMMA CountIs ==
  ASSUME NEW ds \in Seq(Seq(Tokens)), NEW g \in Seq(Tokens)
  PROVE  Count(ds, g) = Cardinality({p \in Windows(ds) : Gram(ds, Len(g), p) = g})
  <1>1. PICK n : n = Len(g)
    OBVIOUS
  <1> DEFINE A == UNION {{<<d, i>> : i \in {b \in Begins(ds[d]) :
                            SubSeq(AddStartEndToken(ds[d], n), b, b + n - 1) = g}} : d \in DOMAIN ds}
             B == {p \in Windows(ds) : Gram(ds, n, p) = g}
  <1>2. \A p : p \in A <=> \E d \in DOMAIN ds : \E b \in Begins(ds[d]) :
                 p = <<d, b>> /\ SubSeq(AddStartEndToken(ds[d], n), b, b + n - 1) = g
    OBVIOUS
  <1>3. \A p : p \in Windows(ds) <=> \E d \in DOMAIN ds : \E b \in Begins(ds[d]) : p = <<d, b>>
    BY DEF Windows
  <1>4. \A d, b : Gram(ds, n, <<d, b>>) = SubSeq(AddStartEndToken(ds[d], n), b, b + n - 1)
    BY DEF Gram
  <1>5. \A p : p \in A <=> p \in B
    <2>1. \A p : p \in B <=> p \in Windows(ds) /\ Gram(ds, n, p) = g
      OBVIOUS
    <2> HIDE DEF A, B
    <2>2. ASSUME NEW p, p \in A
          PROVE  p \in B
      <3>1. PICK d \in DOMAIN ds : \E b \in Begins(ds[d]) :
              p = <<d, b>> /\ SubSeq(AddStartEndToken(ds[d], n), b, b + n - 1) = g
        BY <2>2, <1>2
      <3>2. PICK b \in Begins(ds[d]) :
              p = <<d, b>> /\ SubSeq(AddStartEndToken(ds[d], n), b, b + n - 1) = g
        BY <3>1
      <3>3. p \in Windows(ds)
        BY <3>2, <1>3
      <3>4. Gram(ds, n, p) = g
        BY <3>2, <1>4
      <3> QED BY <3>3, <3>4, <2>1
    <2>3. ASSUME NEW p, p \in B
          PROVE  p \in A
      <3>1. p \in Windows(ds) /\ Gram(ds, n, p) = g
        BY <2>1, <2>3
      <3>2. PICK d \in DOMAIN ds : \E b \in Begins(ds[d]) : p = <<d, b>>
        BY <3>1, <1>3
      <3>3. PICK b \in Begins(ds[d]) : p = <<d, b>>
        BY <3>2
      <3>4. SubSeq(AddStartEndToken(ds[d], n), b, b + n - 1) = g
        BY <3>1, <3>3, <1>4
      <3> QED BY <3>3, <3>4, <1>2
    <2> QED BY <2>2, <2>3
  <1>6. Count(ds, g) = Cardinality(A)
    BY <1>1 DEF Count
  <1>7. A = B
    <2> HIDE DEF A, B
    <2> QED BY <1>5
  <1> QED BY <1>1, <1>6, <1>7

\* Where a longer n-gram begins with the words c.
Followed(ds, c) == {p \in Windows(ds) : Before(ds, Len(c), p) = c}

LEMMA CountAfter ==
  ASSUME NEW ds \in Seq(Seq(Tokens)), NEW c \in Seq(Tokens), NEW w \in Tokens
  PROVE  Count(ds, Append(c, w)) = Cardinality({p \in Followed(ds, c) : NextWord(ds, p) = w})
  <1>1. PICK g \in Seq(Tokens) : g = Append(c, w)
    BY AppendProperties
  <1>2. PICK n \in Nat : n = Len(c)
    BY LenProperties
  <1>3. Len(g) = n + 1
    BY <1>1, <1>2, AppendProperties
  <1>4. ASSUME NEW p \in Windows(ds)
        PROVE  Gram(ds, n + 1, p) = g <=> Before(ds, n, p) = c /\ NextWord(ds, p) = w
    <2>1. PICK d \in DOMAIN ds : \E b \in 1..(Len(ds[d]) + 2) : p = <<d, b>>
      BY WindowsAre
    <2>2. PICK b \in 1..(Len(ds[d]) + 2) : p = <<d, b>>
      BY <2>1
    <2>3. Gram(ds, n + 1, p) = Append(Before(ds, n, p), NextWord(ds, p))
      BY <2>2, GramSplits
    <2>4. Before(ds, n, p) \in Seq(Tokens) /\ NextWord(ds, p) \in Tokens
      BY <2>2, GramHas
    <2>5. PICK s \in Seq(Tokens), v \in Tokens : s = Before(ds, n, p) /\ v = NextWord(ds, p)
      BY <2>4
    <2>6. Append(s, v) = Append(c, w) <=> s = c /\ v = w
      BY SameAppended
    <2> QED BY <2>3, <2>5, <2>6, <1>1
  <1>5. {p \in Windows(ds) : Gram(ds, Len(g), p) = g} = {p \in Followed(ds, c) : NextWord(ds, p) = w}
    BY <1>2, <1>3, <1>4 DEF Followed
  <1> QED BY <1>1, <1>5, CountIs

NumSum(ds, words, c) == MapThenSumSet(LAMBDA w : EstimateProbability(ds, w, c).num, words)

NumStep(ds, words, c, h) ==
  [T \in SUBSET words |->
     IF T = {} THEN 0
     ELSE EstimateProbability(ds, CHOOSE x \in T : TRUE, c).num + h[T \ {CHOOSE x \in T : TRUE}]]

LEMMA NumSumIs ==
  ASSUME NEW ds, NEW words, NEW c
  PROVE  NumSum(ds, words, c) = (CHOOSE h : h = NumStep(ds, words, c, h))[words]
  BY DEF NumSum, MapThenSumSet, MapThenFoldSet, NumStep

LEMMA NumIs ==
  ASSUME NEW ds, NEW c, c = << >> \/ Count(ds, c) # 0, NEW w
  PROVE  EstimateProbability(ds, w, c).num = Count(ds, Append(c, w))
  <1>1. CASE c = << >>
    <2>1. Append(c, w) = <<w>>
      BY <1>1
    <2> QED BY <2>1, <1>1 DEF EstimateProbability
  <1>2. CASE c # << >>
    BY <1>2 DEF EstimateProbability
  <1> QED BY <1>1, <1>2

\* Where a longer n-gram begins with the words c and ends with a word of T.
FollowedBy(ds, c, T) == {p \in Followed(ds, c) : NextWord(ds, p) \in T}

LEMMA FollowedFinite ==
  ASSUME NEW ds \in Seq(Seq(Tokens)), NEW c, NEW T
  PROVE  /\ IsFiniteSet(FollowedBy(ds, c, T)) /\ IsFiniteSet(Followed(ds, c))
         /\ Cardinality(FollowedBy(ds, c, T)) \in Nat
  <1>1. IsFiniteSet(Windows(ds))
    BY WindowsAre
  <1>2. FollowedBy(ds, c, T) \subseteq Windows(ds) /\ Followed(ds, c) \subseteq Windows(ds)
    BY DEF FollowedBy, Followed
  <1> QED BY <1>1, <1>2, FS_Subset, FS_CardinalityType

LEMMA OneFollower ==
  ASSUME NEW ds \in Seq(Seq(Tokens)), NEW c \in Seq(Tokens), c = << >> \/ Count(ds, c) # 0,
         NEW T \in SUBSET Tokens, NEW w \in T
  PROVE  Cardinality(FollowedBy(ds, c, T)) =
           EstimateProbability(ds, w, c).num + Cardinality(FollowedBy(ds, c, T \ {w}))
  <1>1. PICK A : A = {p \in Followed(ds, c) : NextWord(ds, p) = w}
    OBVIOUS
  <1>2. PICK B : B = FollowedBy(ds, c, T \ {w})
    OBVIOUS
  <1>3. IsFiniteSet(A) /\ IsFiniteSet(B) /\ Cardinality(A) \in Nat /\ Cardinality(B) \in Nat
    <2>1. A \subseteq Followed(ds, c)
      BY <1>1
    <2>2. IsFiniteSet(A)
      BY <2>1, FollowedFinite, FS_Subset
    <2> QED BY <2>2, <1>2, FollowedFinite, FS_CardinalityType
  <1>4. FollowedBy(ds, c, T) = A \cup B
    BY <1>1, <1>2 DEF FollowedBy
  <1>5. A \cap B = {}
    BY <1>1, <1>2 DEF FollowedBy
  <1>6. Cardinality(A \cup B) = Cardinality(A) + Cardinality(B) - Cardinality(A \cap B)
    BY <1>3, FS_Union
  <1>7. Cardinality(A \cap B) = 0
    BY <1>5, FS_EmptySet
  <1>8. EstimateProbability(ds, w, c).num = Cardinality(A)
    <2>1. EstimateProbability(ds, w, c).num = Count(ds, Append(c, w))
      BY NumIs
    <2>2. Count(ds, Append(c, w)) = Cardinality(A)
      BY <1>1, CountAfter
    <2> QED BY <2>1, <2>2
  <1> QED BY <1>2, <1>3, <1>4, <1>6, <1>7, <1>8

\* The estimates of all words after c sum to the places where c is followed.
LEMMA NumSumHas ==
  ASSUME NEW ds \in Seq(Seq(Tokens)), NEW c \in Seq(Tokens), c = << >> \/ Count(ds, c) # 0,
         NEW words \in SUBSET Tokens, IsFiniteSet(words),
         \A p \in Windows(ds) : NextWord(ds, p) \in words
  PROVE  NumSum(ds, words, c) = Cardinality(Followed(ds, c))
  <1> DEFINE Some(T) == CHOOSE x \in T : TRUE
             Sum(T)  == Cardinality(FollowedBy(ds, c, T))
             Num(w)  == EstimateProbability(ds, w, c).num
  <1>1. Sum({}) = 0
    <2>1. FollowedBy(ds, c, {}) = {}
      BY DEF FollowedBy
    <2> QED BY <2>1, FS_EmptySet
  <1>2. \A T \in SUBSET words : T # {} => Some(T) \in T /\ T \ {Some(T)} \in SUBSET words
    OBVIOUS
  <1> HIDE DEF Some
  <1>3. \A T \in SUBSET words : T # {} => Sum(T) = Num(Some(T)) + Sum(T \ {Some(T)})
    <2> SUFFICES ASSUME NEW T \in SUBSET words, T # {}
                 PROVE  Sum(T) = Num(Some(T)) + Sum(T \ {Some(T)})
      OBVIOUS
    <2>1. PICK w \in T : w = Some(T)
      BY <1>2
    <2>2. T \in SUBSET Tokens
      OBVIOUS
    <2>3. Sum(T) = Num(w) + Sum(T \ {w})
      BY <2>2, OneFollower
    <2> QED BY <2>1, <2>3
  <1> HIDE DEF Sum
  <1>4. PICK g : g = [T \in SUBSET words |-> Sum(T)]
    OBVIOUS
  <1>5. ASSUME NEW h
        PROVE  NumStep(ds, words, c, h) = [T \in SUBSET words |->
                 IF T = {} THEN 0 ELSE Num(Some(T)) + h[T \ {Some(T)}]]
    BY DEF NumStep, Some, Num
  <1> HIDE DEF Num
  <1>6. g = NumStep(ds, words, c, g)
    <2>1. \A T \in SUBSET words : Sum(T) = IF T = {} THEN 0 ELSE Num(Some(T)) + g[T \ {Some(T)}]
      BY <1>1, <1>2, <1>3, <1>4
    <2>2. NumStep(ds, words, c, g) = [T \in SUBSET words |->
            IF T = {} THEN 0 ELSE Num(Some(T)) + g[T \ {Some(T)}]]
      BY <1>5
    <2> QED BY <2>1, <2>2, <1>4
  <1>7. PICK h : h = CHOOSE f : f = NumStep(ds, words, c, f)
    OBVIOUS
  <1>8. h = NumStep(ds, words, c, h)
    BY <1>6, <1>7
  <1>9. \A T \in SUBSET words : h[T] = IF T = {} THEN 0 ELSE Num(Some(T)) + h[T \ {Some(T)}]
    <2>1. h = [T \in SUBSET words |-> IF T = {} THEN 0 ELSE Num(Some(T)) + h[T \ {Some(T)}]]
      BY <1>5, <1>8
    <2> QED BY <2>1
  <1>10. h[words] = Sum(words)
    <2> DEFINE F == {T \in SUBSET words : h[T] = Sum(T)}
    <2>1. ASSUME NEW T \in SUBSET words, \A x \in T : T \ {x} \in F
          PROVE  T \in F
      <3>1. CASE T = {}
        BY <3>1, <1>1, <1>9
      <3>2. CASE T # {}
        <4>1. T \ {Some(T)} \in F
          BY <3>2, <2>1, <1>2
        <4>2. h[T \ {Some(T)}] = Sum(T \ {Some(T)})
          BY <4>1
        <4>3. h[T] = Sum(T)
          BY <3>2, <4>2, <1>3, <1>9
        <4> QED BY <4>3
      <3> QED BY <3>1, <3>2
    <2> HIDE DEF F
    <2>2. words \in F
      BY <2>1, SubsetInduction
    <2> QED BY <2>2 DEF F
  <1>11. NumSum(ds, words, c) = h[words]
    BY <1>7, NumSumIs
  <1>12. FollowedBy(ds, c, words) = Followed(ds, c)
    BY DEF FollowedBy, Followed
  <1> QED BY <1>10, <1>11, <1>12 DEF Sum

-----------------------------------------------------------------------------
(* The number of words                                                     *)

WordsStep(ds, h) ==
  [T \in SUBSET (DOMAIN ds) |->
     IF T = {} THEN 0 ELSE h[T \ {Max(T)}] + Cardinality(Begins(ds[Max(T)]))]

LEMMA TotalIs ==
  ASSUME NEW ds
  PROVE  TotalWordFreq(ds) = (CHOOSE h : h = WordsStep(ds, h))[DOMAIN ds]
  BY DEF TotalWordFreq, FoldLeft, MapThenFoldSet, WordsStep

\* Where n-grams begin in the documents T.
WindowsOf(ds, T) == {p \in Windows(ds) : p[1] \in T}

LEMMA OneDocument ==
  ASSUME NEW ds \in Seq(Seq(Tokens)), NEW T \in SUBSET (DOMAIN ds), NEW d \in T
  PROVE  /\ Cardinality(WindowsOf(ds, T)) =
              Cardinality(WindowsOf(ds, T \ {d})) + Cardinality(Begins(ds[d]))
         /\ Cardinality(WindowsOf(ds, T)) \in Nat
  <1>1. PICK A : A = {d} \X Begins(ds[d])
    OBVIOUS
  <1>2. PICK B : B = WindowsOf(ds, T \ {d})
    OBVIOUS
  <1>3. PICK m \in Nat : m = Len(ds[d]) + 2
    BY WindowsAre
  <1>4. Begins(ds[d]) = 1..m
    BY <1>3 DEF Begins
  <1>5. IsFiniteSet(A) /\ Cardinality(A) = m /\ Cardinality(Begins(ds[d])) = m
    <2>1. PICK V, W : V = {d} /\ W = 1..m
      OBVIOUS
    <2>2. IsFiniteSet(V) /\ Cardinality(V) = 1 /\ IsFiniteSet(W) /\ Cardinality(W) = m
      BY <2>1, FS_Singleton, UpTo
    <2>3. IsFiniteSet(V \X W) /\ Cardinality(V \X W) = Cardinality(V) * Cardinality(W)
      BY <2>2, FS_Product
    <2>4. A = V \X W
      BY <2>1, <1>1, <1>4
    <2> QED BY <2>1, <2>2, <2>3, <2>4, <1>4
  <1>6. IsFiniteSet(B) /\ Cardinality(B) \in Nat
    <2>1. B \subseteq Windows(ds) /\ IsFiniteSet(Windows(ds))
      BY <1>2, WindowsAre DEF WindowsOf
    <2> QED BY <2>1, FS_Subset, FS_CardinalityType
  <1>7. WindowsOf(ds, T) = B \cup A
    <2>1. \A p : p \in A <=> \E b \in Begins(ds[d]) : p = <<d, b>>
      BY <1>1
    <2>2. \A p : p \in Windows(ds) <=> \E e \in DOMAIN ds : \E b \in Begins(ds[e]) : p = <<e, b>>
      BY DEF Windows
    <2>3. \A p \in Windows(ds) : p[1] = d => p \in A
      <3> SUFFICES ASSUME NEW p \in Windows(ds), p[1] = d
                   PROVE  p \in A
        OBVIOUS
      <3>1. PICK e \in DOMAIN ds : \E b \in Begins(ds[e]) : p = <<e, b>>
        BY <2>2
      <3>2. PICK b \in Begins(ds[e]) : p = <<e, b>>
        BY <3>1
      <3>3. e = d
        BY <3>2
      <3> QED BY <3>2, <3>3, <2>1
    <2>4. \A p \in A : p \in Windows(ds) /\ p[1] = d
      BY <2>1, <2>2
    <2> QED BY <2>3, <2>4, <1>2 DEF WindowsOf
  <1>8. B \cap A = {}
    <2> SUFFICES ASSUME NEW p \in B, p \in A
                 PROVE  FALSE
      OBVIOUS
    <2>1. p[1] \in T \ {d}
      BY <1>2 DEF WindowsOf
    <2>2. p[1] = d
      BY <1>1
    <2> QED BY <2>1, <2>2
  <1>9. Cardinality(B \cap A) = 0
    BY <1>8, FS_EmptySet
  <1>10. Cardinality(B \cup A) = Cardinality(B) + Cardinality(A) - Cardinality(B \cap A)
    BY <1>5, <1>6, FS_Union
  <1> QED BY <1>2, <1>5, <1>6, <1>7, <1>9, <1>10

\* TotalWordFreq is the number of places where n-grams begin.
LEMMA TotalHas ==
  ASSUME NEW ds \in Seq(Seq(Tokens))
  PROVE  TotalWordFreq(ds) = Cardinality(Windows(ds))
  <1> DEFINE S == DOMAIN ds
             Sum(T) == Cardinality(WindowsOf(ds, T))
             Size(d) == Cardinality(Begins(ds[d]))
  <1>1. Len(ds) \in Nat /\ S = 1..Len(ds)
    BY LenProperties
  <1>2. Sum({}) = 0
    <2>1. WindowsOf(ds, {}) = {}
      BY DEF WindowsOf
    <2> QED BY <2>1, FS_EmptySet
  <1>3. \A T \in SUBSET S : T # {} => Max(T) \in T /\ T \ {Max(T)} \in SUBSET S
    BY <1>1, MaxIn
  <1>4. \A T \in SUBSET S : T # {} => Sum(T) = Sum(T \ {Max(T)}) + Size(Max(T))
    BY <1>3, OneDocument
  <1> HIDE DEF Sum
  <1>5. PICK g : g = [T \in SUBSET S |-> Sum(T)]
    OBVIOUS
  <1>6. ASSUME NEW h
        PROVE  WordsStep(ds, h) = [T \in SUBSET S |-> IF T = {} THEN 0 ELSE h[T \ {Max(T)}] + Size(Max(T))]
    BY DEF WordsStep
  <1> HIDE DEF Size, S
  <1>7. g = WordsStep(ds, g)
    <2>1. \A T \in SUBSET S : Sum(T) = IF T = {} THEN 0 ELSE g[T \ {Max(T)}] + Size(Max(T))
      BY <1>2, <1>3, <1>4, <1>5
    <2>2. WordsStep(ds, g) = [T \in SUBSET S |-> IF T = {} THEN 0 ELSE g[T \ {Max(T)}] + Size(Max(T))]
      BY <1>6
    <2> QED BY <2>1, <2>2, <1>5
  <1>8. PICK h : h = CHOOSE f : f = WordsStep(ds, f)
    OBVIOUS
  <1>9. h = WordsStep(ds, h)
    BY <1>7, <1>8
  <1>10. \A T \in SUBSET S : h[T] = IF T = {} THEN 0 ELSE h[T \ {Max(T)}] + Size(Max(T))
    <2>1. h = [T \in SUBSET S |-> IF T = {} THEN 0 ELSE h[T \ {Max(T)}] + Size(Max(T))]
      BY <1>6, <1>9
    <2> QED BY <2>1
  <1>11. h[S] = Sum(S)
    <2> DEFINE F == {T \in SUBSET S : h[T] = Sum(T)}
    <2>1. ASSUME NEW T \in SUBSET S, \A x \in T : T \ {x} \in F
          PROVE  T \in F
      <3>1. CASE T = {}
        BY <3>1, <1>2, <1>10
      <3>2. CASE T # {}
        <4>1. T \ {Max(T)} \in F
          BY <3>2, <2>1, <1>3
        <4>2. h[T \ {Max(T)}] = Sum(T \ {Max(T)})
          BY <4>1
        <4>3. h[T] = Sum(T)
          BY <3>2, <4>2, <1>4, <1>10
        <4> QED BY <4>3
      <3> QED BY <3>1, <3>2
    <2>2. IsFiniteSet(S)
      BY <1>1, UpTo
    <2> HIDE DEF F
    <2>3. S \in F
      BY <2>1, <2>2, SubsetInduction
    <2> QED BY <2>3 DEF F
  <1>12. TotalWordFreq(ds) = h[S]
    BY <1>8, TotalIs DEF S
  <1>13. WindowsOf(ds, S) = Windows(ds)
    <2>1. \A p \in Windows(ds) : p[1] \in S
      BY DEF Windows, S
    <2> QED BY <2>1 DEF WindowsOf
  <1> QED BY <1>11, <1>12, <1>13 DEF Sum

-----------------------------------------------------------------------------
(* Where a context is followed                                             *)

Unmarked(ds) ==
  \A d \in DOMAIN ds : \A i \in 1..Len(ds[d]) : ds[d][i] # START_TOKEN /\ ds[d][i] # END_TOKEN

\* Only the first n-gram of a document ends with the start token, only the last with
\* the end token.
LEMMA NextWordIs ==
  ASSUME NEW ds \in Seq(Seq(Tokens)), Unmarked(ds), NEW d \in DOMAIN ds,
         NEW b \in 1..(Len(ds[d]) + 2)
  PROVE  /\ NextWord(ds, <<d, b>>) = START_TOKEN <=> b = 1
         /\ NextWord(ds, <<d, b>>) = END_TOKEN <=> b = Len(ds[d]) + 2
         /\ NextWord(ds, <<d, b>>) \in Markers \cup Words(ds)
  <1>1. PICK m \in Nat : m = Len(ds[d])
    BY WindowsAre
  <1>2. b \in 1..(m + 2)
    BY <1>1
  <1>3. NextWord(ds, <<d, b>>) = IF b <= 1 THEN START_TOKEN ELSE IF b <= 1 + m THEN ds[d][b - 1] ELSE END_TOKEN
    BY <1>1 DEF NextWord, PaddedAt
  <1>4. START_TOKEN # END_TOKEN
    BY MarkersAreTokens
  <1>5. ~(b <= 1) /\ b <= 1 + m => b - 1 \in 1..m
    BY <1>2
  <1>6. \A i \in 1..m : ds[d][i] \in Words(ds) /\ ds[d][i] # START_TOKEN /\ ds[d][i] # END_TOKEN
    <2>1. ds[d] \in Seq(Tokens)
      BY WindowsAre
    <2>2. DOMAIN ds[d] = 1..m
      BY <2>1, <1>1, LenProperties
    <2>3. \A i \in 1..m : ds[d][i] \in ToSet(ds[d])
      BY <2>2 DEF ToSet
    <2> QED BY <2>3, <1>1 DEF Words, Unmarked
  <1>7. START_TOKEN \in Markers /\ END_TOKEN \in Markers
    BY DEF Markers
  <1>8. CASE b <= 1
    <2>1. b = 1 /\ b # m + 2
      BY <1>2, <1>8
    <2> QED BY <2>1, <1>1, <1>3, <1>4, <1>7
  <1>9. CASE ~(b <= 1) /\ b <= 1 + m
    <2>1. b # 1 /\ b # m + 2
      BY <1>2, <1>9
    <2> QED BY <2>1, <1>1, <1>3, <1>5, <1>6, <1>9
  <1>10. CASE ~(b <= 1) /\ ~(b <= 1 + m)
    <2>1. b # 1 /\ b = m + 2
      BY <1>2, <1>10
    <2> QED BY <2>1, <1>1, <1>3, <1>4, <1>7, <1>10
  <1> QED BY <1>8, <1>9, <1>10

LEMMA NothingFollowed ==
  ASSUME NEW ds \in Seq(Seq(Tokens))
  PROVE  Followed(ds, << >>) = Windows(ds)
  <1>1. ASSUME NEW p \in Windows(ds)
        PROVE  Before(ds, 0, p) = << >>
    <2>1. PICK d \in DOMAIN ds : \E b \in 1..(Len(ds[d]) + 2) : p = <<d, b>>
      BY WindowsAre
    <2>2. PICK b \in 1..(Len(ds[d]) + 2) : p = <<d, b>>
      BY <2>1
    <2>3. Before(ds, 0, p) \in Seq(Tokens) /\ Len(Before(ds, 0, p)) = 0
      BY <2>2, GramHas
    <2> QED BY <2>3, EmptySeq
  <1>2. Len(<< >>) = 0
    OBVIOUS
  <1> QED BY <1>1, <1>2 DEF Followed

\* Where c occurs, and where it is followed: at the first word of a document or later.
Here(ds, c)    == {p \in Windows(ds) : Gram(ds, Len(c), p) = c}
AtFirst(ds, c) == {p \in Followed(ds, c) : p[2] = 1}
Later(ds, c)   == {p \in Followed(ds, c) : p[2] # 1}

\* After the first word of a document c is followed where it ended a word before.
LEMMA LaterIs ==
  ASSUME NEW ds \in Seq(Seq(Tokens)), Unmarked(ds), NEW c \in Seq(Tokens), Len(c) # 0
  PROVE  IF c[Len(c)] = END_TOKEN THEN Later(ds, c) = {}
         ELSE Cardinality(Later(ds, c)) = Cardinality(Here(ds, c))
  <1>1. PICK n \in Nat : n = Len(c) /\ n # 0
    BY LenProperties
  <1>2. ASSUME NEW p \in Later(ds, c)
        PROVE  \E d \in DOMAIN ds : \E b \in 1..(Len(ds[d]) + 1) : p = <<d, b + 1>> /\ <<d, b>> \in Here(ds, c)
    <2>1. p \in Windows(ds) /\ Before(ds, n, p) = c /\ p[2] # 1
      BY <1>1 DEF Later, Followed
    <2>2. PICK d \in DOMAIN ds : \E b \in 1..(Len(ds[d]) + 2) : p = <<d, b>>
      BY <2>1, WindowsAre
    <2>3. PICK a \in 1..(Len(ds[d]) + 2) : p = <<d, a>>
      BY <2>2
    <2>4. PICK m \in Nat : m = Len(ds[d])
      BY WindowsAre
    <2>5. a # 1 /\ a \in 1..(m + 2)
      BY <2>1, <2>3, <2>4
    <2>6. PICK b \in 1..(m + 1) : a = b + 1
      <3>1. a - 1 \in 1..(m + 1) /\ a = (a - 1) + 1
        BY <2>5
      <3> QED BY <3>1
    <2>7. Gram(ds, n, <<d, b>>) = c
      BY <2>1, <2>3, <2>4, <2>6, BeforeIs
    <2>8. <<d, b>> \in Windows(ds)
      <3>1. b \in 1..(m + 2)
        BY <2>6
      <3> QED BY <3>1, <2>4, WindowsAre
    <2>9. <<d, b>> \in Here(ds, c)
      BY <2>7, <2>8, <1>1 DEF Here
    <2> QED BY <2>3, <2>4, <2>6, <2>9
  <1>3. ASSUME NEW d \in DOMAIN ds, NEW b, <<d, b>> \in Here(ds, c)
        PROVE  /\ b \in 1..(Len(ds[d]) + 2) /\ c[n] = NextWord(ds, <<d, b>>)
               /\ c[n] # END_TOKEN => <<d, b + 1>> \in Later(ds, c)
    <2>1. <<d, b>> \in Windows(ds) /\ Gram(ds, n, <<d, b>>) = c
      BY <1>1, <1>3 DEF Here
    <2>2. PICK e \in DOMAIN ds : \E a \in 1..(Len(ds[e]) + 2) : <<d, b>> = <<e, a>>
      BY <2>1, WindowsAre
    <2>3. b \in 1..(Len(ds[d]) + 2)
      BY <2>2
    <2>4. c[n] = NextWord(ds, <<d, b>>)
      BY <2>1, <2>3, <1>1, GramEnds
    <2>5. ASSUME c[n] # END_TOKEN
          PROVE  <<d, b + 1>> \in Later(ds, c)
      <3>1. PICK m \in Nat : m = Len(ds[d])
        BY WindowsAre
      <3>2. b \in 1..(m + 2) /\ b # m + 2
        BY <2>3, <2>4, <2>5, <3>1, NextWordIs
      <3>3. b \in 1..(m + 1) /\ b + 1 \in 1..(m + 2) /\ b + 1 # 1
        BY <3>2
      <3>4. Before(ds, n, <<d, b + 1>>) = c
        BY <2>1, <3>1, <3>3, BeforeIs
      <3>5. <<d, b + 1>> \in Windows(ds)
        BY <3>1, <3>3, WindowsAre
      <3>6. <<d, b + 1>>[2] # 1
        BY <3>3
      <3> QED BY <3>4, <3>5, <3>6, <1>1 DEF Later, Followed
    <2> QED BY <2>3, <2>4, <2>5
  <1>4. CASE c[n] = END_TOKEN
    <2> SUFFICES ASSUME NEW p \in Later(ds, c)
                 PROVE  FALSE
      BY <1>1, <1>4
    <2>1. PICK d \in DOMAIN ds : \E b \in 1..(Len(ds[d]) + 1) : p = <<d, b + 1>> /\ <<d, b>> \in Here(ds, c)
      BY <1>2
    <2>2. PICK b \in 1..(Len(ds[d]) + 1) : <<d, b>> \in Here(ds, c)
      BY <2>1
    <2>3. b \in 1..(Len(ds[d]) + 2) /\ NextWord(ds, <<d, b>>) = END_TOKEN
      BY <2>2, <1>3, <1>4
    <2>4. b = Len(ds[d]) + 2
      BY <2>3, NextWordIs
    <2>5. Len(ds[d]) \in Nat
      BY WindowsAre
    <2> QED BY <2>2, <2>4, <2>5
  <1>5. CASE c[n] # END_TOKEN
    <2>1. PICK f : f = [p \in Here(ds, c) |-> <<p[1], p[2] + 1>>]
      OBVIOUS
    <2>2. \A p \in Here(ds, c) : \E d \in DOMAIN ds : \E b \in 1..(Len(ds[d]) + 2) : p = <<d, b>>
      BY WindowsAre DEF Here
    <2>3. \A p \in Here(ds, c) : f[p] \in Later(ds, c)
      <3> SUFFICES ASSUME NEW p \in Here(ds, c)
                   PROVE  f[p] \in Later(ds, c)
        OBVIOUS
      <3>1. PICK d \in DOMAIN ds : \E b \in 1..(Len(ds[d]) + 2) : p = <<d, b>>
        BY <2>2
      <3>2. PICK b \in 1..(Len(ds[d]) + 2) : p = <<d, b>>
        BY <3>1
      <3>3. f[p] = <<d, b + 1>>
        BY <2>1, <3>2
      <3> QED BY <3>2, <3>3, <1>3, <1>5
    <2>4. \A q \in Later(ds, c) : \E p \in Here(ds, c) : f[p] = q
      <3> SUFFICES ASSUME NEW q \in Later(ds, c)
                   PROVE  \E p \in Here(ds, c) : f[p] = q
        OBVIOUS
      <3>1. PICK d \in DOMAIN ds : \E b \in 1..(Len(ds[d]) + 1) : q = <<d, b + 1>> /\ <<d, b>> \in Here(ds, c)
        BY <1>2
      <3>2. PICK b \in 1..(Len(ds[d]) + 1) : q = <<d, b + 1>> /\ <<d, b>> \in Here(ds, c)
        BY <3>1
      <3>3. f[<<d, b>>] = q
        BY <2>1, <3>2
      <3> QED BY <3>2, <3>3
    <2>5. \A p, q \in Here(ds, c) : f[p] = f[q] => p = q
      <3> SUFFICES ASSUME NEW p \in Here(ds, c), NEW q \in Here(ds, c), f[p] = f[q]
                   PROVE  p = q
        OBVIOUS
      <3>1. PICK d \in DOMAIN ds : \E b \in 1..(Len(ds[d]) + 2) : p = <<d, b>>
        BY <2>2
      <3>2. PICK b \in 1..(Len(ds[d]) + 2) : p = <<d, b>>
        BY <3>1
      <3>3. PICK e \in DOMAIN ds : \E a \in 1..(Len(ds[e]) + 2) : q = <<e, a>>
        BY <2>2
      <3>4. PICK a \in 1..(Len(ds[e]) + 2) : q = <<e, a>>
        BY <3>3
      <3>5. f[p] = <<d, b + 1>> /\ f[q] = <<e, a + 1>>
        BY <2>1, <3>2, <3>4
      <3>6. d = e /\ b + 1 = a + 1
        <4>1. PICK x, y : x = b + 1 /\ y = a + 1
          OBVIOUS
        <4>2. <<d, x>> = <<e, y>>
          BY <4>1, <3>5
        <4>3. d = e /\ x = y
          BY <4>2
        <4> QED BY <4>1, <4>3
      <3>7. b \in Int /\ a \in Int
        OBVIOUS
      <3>8. b = a
        BY <3>6, <3>7
      <3> QED BY <3>2, <3>4, <3>6, <3>8
    <2>6. f \in Bijection(Here(ds, c), Later(ds, c))
      <3>1. f \in [Here(ds, c) -> Later(ds, c)]
        BY <2>1, <2>3
      <3> QED BY <3>1, <2>4, <2>5 DEF Bijection, Injection, Surjection, IsInjective
    <2>7. IsFiniteSet(Here(ds, c))
      <3>1. Here(ds, c) \subseteq Windows(ds)
        BY DEF Here
      <3> QED BY <3>1, WindowsAre, FS_Subset
    <2>8. Cardinality(Later(ds, c)) = Cardinality(Here(ds, c))
      BY <2>6, <2>7, FS_Bijection DEF ExistsBijection
    <2> QED BY <2>8, <1>1, <1>5
  <1> QED BY <1>4, <1>5

OnlyStarts(c) == \A k \in 1..Len(c) : c[k] = START_TOKEN

\* At the first word of a document only start tokens are followed.
LEMMA FirstIs ==
  ASSUME NEW ds \in Seq(Seq(Tokens)), Unmarked(ds), NEW c \in Seq(Tokens), Len(c) # 0
  PROVE  AtFirst(ds, c) = IF OnlyStarts(c) THEN Here(ds, c) ELSE {}
  <1>1. PICK n \in Nat : n = Len(c) /\ n # 0
    BY LenProperties
  <1>2. ASSUME NEW p \in AtFirst(ds, c)
        PROVE  OnlyStarts(c) /\ \E d \in DOMAIN ds : p = <<d, 1>>
    <2>1. p \in Windows(ds) /\ Before(ds, n, p) = c /\ p[2] = 1
      BY <1>1 DEF AtFirst, Followed
    <2>2. PICK d \in DOMAIN ds : \E b \in 1..(Len(ds[d]) + 2) : p = <<d, b>>
      BY <2>1, WindowsAre
    <2>3. p = <<d, 1>>
      BY <2>1, <2>2
    <2>4. \A k \in 1..n : c[k] = START_TOKEN
      BY <2>1, <2>3, BeforeIs
    <2> QED BY <2>3, <2>4, <1>1 DEF OnlyStarts
  <1>3. ASSUME OnlyStarts(c), NEW d \in DOMAIN ds
        PROVE  <<d, 1>> \in AtFirst(ds, c) /\ <<d, 1>> \in Here(ds, c)
    <2>1. PICK m \in Nat : m = Len(ds[d])
      BY WindowsAre
    <2>2. 1 \in 1..(Len(ds[d]) + 2)
      BY <2>1
    <2>3. <<d, 1>> \in Windows(ds)
      BY <2>2, WindowsAre
    <2>4. PICK s \in Seq(Tokens) : s = Before(ds, n, <<d, 1>>)
      BY <2>2, GramHas
    <2>5. Len(s) = n /\ \A k \in 1..n : s[k] = START_TOKEN
      <3>1. Len(s) = n
        BY <2>2, <2>4, GramHas
      <3>2. \A k \in 1..n : s[k] = START_TOKEN
        BY <2>4, BeforeIs
      <3> QED BY <3>1, <3>2
    <2>6. s = c
      BY <2>5, <1>1, <1>3, SeqEqual DEF OnlyStarts
    <2>7. PICK g \in Seq(Tokens) : g = Gram(ds, n, <<d, 1>>)
      BY <2>2, GramHas
    <2>8. Len(g) = n /\ \A k \in 1..n : g[k] = PaddedAt(ds[d], n, 1 + k - 1)
      BY <2>2, <2>7, GramHas
    <2>9. \A k \in 1..n : g[k] = START_TOKEN
      <3>1. \A k \in 1..n : 1 + k - 1 <= n
        OBVIOUS
      <3> QED BY <3>1, <2>8 DEF PaddedAt
    <2>10. g = c
      BY <2>8, <2>9, <1>1, <1>3, SeqEqual DEF OnlyStarts
    <2>11. <<d, 1>>[2] = 1
      OBVIOUS
    <2> QED BY <2>3, <2>4, <2>6, <2>7, <2>10, <2>11, <1>1 DEF AtFirst, Followed, Here
  <1>4. ASSUME OnlyStarts(c), NEW p \in Here(ds, c)
        PROVE  \E d \in DOMAIN ds : p = <<d, 1>>
    <2>1. p \in Windows(ds) /\ Gram(ds, n, p) = c
      BY <1>1 DEF Here
    <2>2. PICK d \in DOMAIN ds : \E b \in 1..(Len(ds[d]) + 2) : p = <<d, b>>
      BY <2>1, WindowsAre
    <2>3. PICK b \in 1..(Len(ds[d]) + 2) : p = <<d, b>>
      BY <2>2
    <2>4. n \in 1..n
      BY <1>1
    <2>5. NextWord(ds, <<d, b>>) = START_TOKEN
      BY <2>1, <2>3, <2>4, <1>1, <1>4, GramEnds DEF OnlyStarts
    <2>6. b = 1
      BY <2>5, NextWordIs
    <2> QED BY <2>3, <2>6
  <1>5. CASE OnlyStarts(c)
    <2>1. \A p : p \in AtFirst(ds, c) <=> p \in Here(ds, c)
      BY <1>2, <1>3, <1>4, <1>5
    <2> QED BY <2>1, <1>5 DEF AtFirst, Here
  <1>6. CASE ~OnlyStarts(c)
    BY <1>2, <1>6
  <1> QED BY <1>5, <1>6

LEMMA FollowedHas ==
  ASSUME NEW ds \in Seq(Seq(Tokens)), Unmarked(ds), NEW c \in Seq(Tokens), Len(c) # 0
  PROVE  Cardinality(Followed(ds, c)) =
           IF OnlyStarts(c) THEN 2 * Count(ds, c)
           ELSE IF c[Len(c)] = END_TOKEN THEN 0 ELSE Count(ds, c)
  <1>1. PICK n \in Nat : n = Len(c) /\ n # 0
    BY LenProperties
  <1>2. PICK A : A = AtFirst(ds, c)
    OBVIOUS
  <1>3. PICK B : B = Later(ds, c)
    OBVIOUS
  <1>4. Followed(ds, c) = A \cup B /\ A \cap B = {}
    BY <1>2, <1>3 DEF AtFirst, Later
  <1>5. IsFiniteSet(A) /\ IsFiniteSet(B) /\ Cardinality(A) \in Nat /\ Cardinality(B) \in Nat
    <2>1. A \subseteq Followed(ds, c) /\ B \subseteq Followed(ds, c)
      BY <1>4
    <2> QED BY <2>1, FollowedFinite, FS_Subset, FS_CardinalityType
  <1>6. Cardinality(Followed(ds, c)) = Cardinality(A) + Cardinality(B)
    <2>1. Cardinality(A \cup B) = Cardinality(A) + Cardinality(B) - Cardinality(A \cap B)
      BY <1>5, FS_Union
    <2>2. Cardinality(A \cap B) = 0
      BY <1>4, FS_EmptySet
    <2> QED BY <2>1, <2>2, <1>4, <1>5
  <1>7. PICK k \in Nat : k = Count(ds, c) /\ k = Cardinality(Here(ds, c))
    <2>1. Count(ds, c) = Cardinality(Here(ds, c))
      BY CountIs DEF Here
    <2>2. Here(ds, c) \subseteq Windows(ds)
      BY DEF Here
    <2>3. Cardinality(Here(ds, c)) \in Nat
      BY <2>2, WindowsAre, FS_Subset, FS_CardinalityType
    <2> QED BY <2>1, <2>3
  <1>8. Cardinality({}) = 0
    BY FS_EmptySet
  <1>9. CASE OnlyStarts(c)
    <2>1. c[n] = START_TOKEN /\ START_TOKEN # END_TOKEN
      <3>1. n \in 1..n
        BY <1>1
      <3> QED BY <3>1, <1>1, <1>9, MarkersAreTokens DEF OnlyStarts
    <2>2. Cardinality(B) = k
      BY <2>1, <1>1, <1>3, <1>7, LaterIs
    <2>3. Cardinality(A) = k
      BY <1>2, <1>7, <1>9, FirstIs
    <2>4. Cardinality(Followed(ds, c)) = 2 * k
      BY <2>2, <2>3, <1>6
    <2> QED BY <2>4, <1>7, <1>9
  <1>10. CASE ~OnlyStarts(c)
    <2>1. Cardinality(A) = 0
      BY <1>2, <1>8, <1>10, FirstIs
    <2>2. CASE c[n] = END_TOKEN
      <3>1. Cardinality(B) = 0
        BY <2>2, <1>1, <1>3, <1>8, LaterIs
      <3>2. Cardinality(Followed(ds, c)) = 0
        BY <2>1, <3>1, <1>6
      <3> QED BY <3>2, <2>2, <1>1, <1>10
    <2>3. CASE c[n] # END_TOKEN
      <3>1. Cardinality(B) = k
        BY <2>3, <1>1, <1>3, <1>7, LaterIs
      <3>2. Cardinality(Followed(ds, c)) = k
        BY <2>1, <3>1, <1>6
      <3> QED BY <3>2, <2>3, <1>1, <1>7, <1>10
    <2> QED BY <2>2, <2>3
  <1> QED BY <1>9, <1>10

-----------------------------------------------------------------------------
(* The estimates                                                           *)

SumsAsCounted ==
  phase = "serve" /\ asked = 0 =>
    /\ NumSum(data, Known, << >>) = TotalWordFreq(data)
    /\ \A c \in {x \in Contexts : Len(x) \in 1..3 /\ Count(data, x) > 0} :
         NumSum(data, Known, c) =
           IF ToSet(c) = {START_TOKEN} THEN 2 * Count(data, c)
           ELSE IF Last(c) = END_TOKEN THEN 0 ELSE Count(data, c)

LEMMA SumsAre == SumsAsCounted => EstimatesSumToOne
  BY DEF SumsAsCounted, EstimatesSumToOne, NumSum

LEMMA SumsHold == IInv => SumsAsCounted
  <1> SUFFICES ASSUME IInv, phase = "serve"
               PROVE  /\ NumSum(data, Known, << >>) = TotalWordFreq(data)
                      /\ \A c \in {x \in Contexts : Len(x) \in 1..3 /\ Count(data, x) > 0} :
                           NumSum(data, Known, c) =
                             IF ToSet(c) = {START_TOKEN} THEN 2 * Count(data, c)
                             ELSE IF Last(c) = END_TOKEN THEN 0 ELSE Count(data, c)
    BY DEF SumsAsCounted
  <1>1. docs \in Seq(Documents) /\ data = PreProcessData(docs)
    BY DEF IInv, DocumentsIndexed, Prepared
  <1>2. docs \in Seq(Seq(Tokens))
    BY <1>1, DocumentsAreWords DEF Tokens
  <1>3. PICK ds \in Seq(Seq(Tokens)) : ds = data /\ ds = docs
    BY <1>1, <1>2, NothingIsReplaced
  <1>4. Unmarked(ds)
    <2> SUFFICES ASSUME NEW d \in DOMAIN ds, NEW i \in 1..Len(ds[d])
                 PROVE  ds[d][i] # START_TOKEN /\ ds[d][i] # END_TOKEN
      BY DEF Unmarked
    <2>1. ds \in Seq(Documents)
      BY <1>1, <1>3
    <2>2. d \in 1..Len(ds)
      BY LenProperties
    <2>3. ds[d] \in Documents
      BY <2>1, <2>2, ElementOfSeq
    <2>4. ToSet(ds[d]) \cap {START_TOKEN, END_TOKEN} = {}
      BY <2>3, SearchWordsAssumption
    <2>5. ds[d] \in Seq(Tokens)
      BY WindowsAre
    <2>6. ds[d][i] \in ToSet(ds[d])
      BY <2>5, LenProperties DEF ToSet
    <2> QED BY <2>4, <2>6
  <1>5. PICK words : words = Known
    OBVIOUS
  <1>6. words = Markers \cup Words(ds) /\ IsFiniteSet(words) /\ words \in SUBSET Tokens
    BY <1>1, <1>3, <1>5, KnownHas DEF Tokens
  <1>7. \A p \in Windows(ds) : NextWord(ds, p) \in words
    <2> SUFFICES ASSUME NEW p \in Windows(ds)
                 PROVE  NextWord(ds, p) \in words
      OBVIOUS
    <2>1. PICK d \in DOMAIN ds : \E b \in 1..(Len(ds[d]) + 2) : p = <<d, b>>
      BY WindowsAre
    <2>2. PICK b \in 1..(Len(ds[d]) + 2) : p = <<d, b>>
      BY <2>1
    <2> QED BY <2>2, <1>4, <1>6, NextWordIs
  <1>8. NumSum(ds, words, << >>) = TotalWordFreq(ds)
    <2>1. << >> \in Seq(Tokens)
      BY EmptySeq
    <2>2. NumSum(ds, words, << >>) = Cardinality(Followed(ds, << >>))
      BY <2>1, <1>6, <1>7, NumSumHas
    <2> QED BY <2>2, NothingFollowed, TotalHas
  <1>9. ASSUME NEW c \in Contexts, Len(c) \in 1..3, Count(ds, c) > 0
        PROVE  NumSum(ds, words, c) =
                 IF ToSet(c) = {START_TOKEN} THEN 2 * Count(ds, c)
                 ELSE IF Last(c) = END_TOKEN THEN 0 ELSE Count(ds, c)
    <2>1. c \in Seq(Tokens)
      <3>1. PICK d \in DOMAIN ds :
              c \in {SubSeq(AddStartEndToken(ds[d], 3), i, j) : i \in DOMAIN AddStartEndToken(ds[d], 3),
                                                               j \in DOMAIN AddStartEndToken(ds[d], 3)}
        BY <1>3 DEF Contexts
      <3>2. PICK doc \in Seq(Tokens) : doc = ds[d]
        BY WindowsAre
      <3>3. PICK q \in Seq(Tokens) : q = AddStartEndToken(doc, 3)
        BY PaddedHas
      <3>4. DOMAIN q = 1..Len(q) /\ Len(q) \in Nat
        BY LenProperties
      <3>5. PICK i \in 1..Len(q), j \in 1..Len(q) : c = SubSeq(q, i, j)
        <4>1. c \in {SubSeq(q, i, j) : i \in DOMAIN q, j \in DOMAIN q}
          BY <3>1, <3>2, <3>3
        <4>2. \E i \in DOMAIN q : \E j \in DOMAIN q : c = SubSeq(q, i, j)
          BY <4>1, SMT
        <4> QED BY <4>2, <3>4
      <3>6. \A k \in i..j : q[k] \in Tokens
        <4>1. \A k \in i..j : k \in 1..Len(q)
          BY <3>4
        <4> QED BY <4>1, ElementOfSeq
      <3>7. i \in Int /\ j \in Int
        OBVIOUS
      <3>8. SubSeq(q, i, j) \in Seq(Tokens)
        BY <3>6, <3>7, SubSeqProperties
      <3> QED BY <3>5, <3>8
    <2>2. PICK s \in Seq(Tokens) : s = c
      BY <2>1
    <2>3. Len(s) # 0 /\ Count(ds, s) # 0
      <3>1. PICK n \in 1..3 : n = Len(s)
        BY <2>2, <1>9
      <3>2. PICK k : k = Count(ds, s) /\ k > 0
        BY <2>2, <1>9
      <3>3. k # 0
        BY <3>2
      <3>4. n # 0
        OBVIOUS
      <3>5. Len(s) # 0
        BY <3>1, <3>4
      <3>6. Count(ds, s) # 0
        BY <3>2, <3>3
      <3> QED BY <3>5, <3>6
    <2>4. NumSum(ds, words, s) = Cardinality(Followed(ds, s))
      BY <2>3, <1>6, <1>7, NumSumHas
    <2>5. ToSet(s) = {START_TOKEN} <=> OnlyStarts(s)
      <3>1. DOMAIN s = 1..Len(s) /\ Len(s) \in Nat
        BY LenProperties
      <3>2. 1 \in 1..Len(s)
        BY <2>3, <3>1
      <3> QED BY <3>1, <3>2 DEF ToSet, OnlyStarts
    <2>6. Last(s) = s[Len(s)]
      BY DEF Last
    <2> QED BY <2>2, <2>3, <2>4, <2>5, <2>6, <1>4, FollowedHas
  <1> QED BY <1>3, <1>5, <1>8, <1>9

\* The estimates of the words that can follow a counted context sum to one, to nothing
\* after the end of a document and to two after start tokens only
\* (SearchWords!EstimatesSumToOne).
THEOREM EstimatesSum == Spec => []EstimatesSumToOne
  <1>1. IInv => EstimatesSumToOne
    BY SumsHold, SumsAre
  <1> QED BY <1>1, InvariantHolds, PTL
=============================================================================
