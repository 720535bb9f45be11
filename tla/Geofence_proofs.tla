--------------------------- MODULE Geofence_proofs ---------------------------
(***************************************************************************)
(* Theorems about Geofence, for every set of handlers, requests, fences    *)
(* and points and every size of a tree.                                    *)
(*                                                                         *)
(* The argument: in a working fence at most one request is between the     *)
(* deletion of its point's old entry and the storing of its circle, and    *)
(* the tree differs from the map in the entry of that point only           *)
(* (Aligned).  Where a search finds the tree and the map agreeing, and     *)
(* looks at all of them, what was reported before it is what its old       *)
(* position is inside of, and afterwards what its new one is (Follows).    *)
(***************************************************************************)
EXTENDS Geofence, FiniteSetTheorems, TLAPS

Job == [pc: {"idle", "check", "create", "drop", "lookup", "delete", "insert",
             "store", "put", "read", "near", "report"},
        req: Requests, ref: 0..MaxFences, old: Int, near: SUBSET Keys]

\* Who uses an RtreeFence has looked it up.
Referred ==
  \A h \in Handlers :
    /\ job[h].pc \in {"delete", "insert", "store", "read", "near", "report"} =>
         Ref(h) \in Instances
    /\ IsAt(h, "search", "put") => Ref(h) \in Instances

Point(h) == Asked(h).circle.key

\* What TreeMatchesMap says of one point of a fence.
Matches(i, k) ==
  IF circle[i][k] = NoCircle THEN EntriesOf(i, k) = {}
  ELSE \E j \in DOMAIN items[i] : EntriesOf(i, k) = {j} /\ items[i][j] = circle[i][k]

\* The tree and the map of a fence agree, but for the one point that is changed.
Aligned(i) ==
  /\ \A g, h \in Changing(i) : g = h
  /\ \A k \in Keys : (\A h \in Changing(i) : Point(h) # k) => Matches(i, k)
  /\ \A h \in Changing(i) : job[h].pc = "insert" => EntriesOf(i, Point(h)) = {}
  /\ \A h \in Changing(i) : job[h].pc = "store" =>
       \E j \in DOMAIN items[i] :
         EntriesOf(i, Point(h)) = {j} /\ items[i][j] = Asked(h).circle

\* A search that has not stored its position has read the stored one, or it is known
\* that a move of the point went unreported.
Fresh ==
  \A h \in Handlers : IsAt(h, "search", "put") =>
    job[h].old = pos[Asked(h).q] \/ {Asked(h).q} \X Instances \subseteq missed

Inside(i, p) ==
  {k \in Keys : circle[i][k] # NoCircle /\ p # Unknown /\ Contains(circle[i][k], p)}

\* A search of q that has stored its position and not answered.
Moving(h, q) ==
  Asked(h).op = "search" /\ Asked(h).q = q /\ job[h].pc \in {"near", "report"}

\* The one search of q that is moving it, in fence i.
Mover(h, q, i) ==
  /\ Moving(h, q) /\ Ref(h) = i
  /\ \A g \in Handlers : Moving(g, q) => g = h
  /\ pos[q] = Asked(h).at
  /\ told[q, i] = Inside(i, job[h].old)
  /\ job[h].pc = "report" => job[h].near = {k \in Keys : circle[i][k] # NoCircle}

Follows(q, i) ==
  \/ Changing(i) # {} /\ pos[q] # Unknown
  \/ \E h \in Handlers : Mover(h, q, i)
  \/ (\A g \in Handlers : ~Moving(g, q)) /\ told[q, i] = Inside(i, pos[q])

IInv ==
  /\ TypeOK /\ Referred /\ Fresh
  /\ \A i \in Instances : Working(i) => Aligned(i)
  /\ \A q \in QueryPoints, i \in Instances :
       Working(i) /\ <<q, i>> \notin missed => Follows(q, i)

-----------------------------------------------------------------------------
(* Types *)

LEMMA JobType == ASSUME TypeOK PROVE job \in [Handlers -> Job]
BY DEF TypeOK, Job

LEMMA RequestType ==
  ASSUME NEW r \in Requests
  PROVE  /\ r.op \in Ops /\ r.fence \in Fences /\ r.q \in QueryPoints
         /\ r.at \in Int /\ r.at # Unknown /\ r.at > Unknown /\ r.circle \in Circle
         /\ r.circle.key \in Keys /\ r.circle # NoCircle
<1>1. r \in Request /\ r.at > Unknown /\ NoCircle.key \notin Keys
  BY GeofenceAssumption
<1>2. r.circle \in Circle /\ r.at \in Int
  BY <1>1 DEF Request
<1>3. r.circle.key \in Keys
  BY <1>2 DEF Circle
<1>4. r.at # Unknown
  BY <1>1, <1>2 DEF Unknown
<1>. QED  BY <1>1, <1>2, <1>3, <1>4 DEF Request

LEMMA IdleType == Idle \in Job /\ Idle.pc = "idle" /\ Idle.req \in Requests
<1>1. (CHOOSE r \in Requests : TRUE) \in Requests
  BY GeofenceAssumption
<1>2. MaxFences \in Nat
  BY GeofenceAssumption
<1>. QED  BY <1>1, <1>2 DEF Idle, Job, None, Unknown

LEMMA AskedType ==
  ASSUME TypeOK, NEW h \in Handlers
  PROVE  Asked(h) \in Requests /\ job[h] \in Job /\ Ref(h) \in 0..MaxFences
BY JobType DEF Job, Asked, Ref

\* One handler goes on, the others stay where they are.
Only(h, w) ==
  /\ job' \in [Handlers -> Job]
  /\ job'[h] = w
  /\ \A g \in Handlers : g # h => job'[g] = job[g]

LEMMA OnlyOne ==
  ASSUME TypeOK, NEW h \in Handlers, NEW w \in Job, job' = [job EXCEPT ![h] = w]
  PROVE  Only(h, w)
BY JobType DEF Only

LEMMA AnswerOnly ==
  ASSUME TypeOK, NEW h \in Handlers, Answer(h)
  PROVE  Only(h, Idle)
BY OnlyOne, IdleType DEF Answer

LEMMA GotoOnly ==
  ASSUME TypeOK, NEW h \in Handlers,
         NEW l \in {"create", "lookup", "insert", "store", "put", "near"}, Goto(h, l)
  PROVE  Only(h, [job[h] EXCEPT !.pc = l])
<1>1. job[h] \in Job
  BY AskedType
<1>2. [job[h] EXCEPT !.pc = l] \in Job
  BY <1>1 DEF Job
<1>3. job' = [job EXCEPT ![h] = [job[h] EXCEPT !.pc = l]]
  BY JobType DEF Goto
<1>. QED  BY <1>2, <1>3, OnlyOne

LEMMA BeginOnly ==
  ASSUME TypeOK, NEW h \in Handlers, NEW r \in Requests,
         NEW op, NEW l \in {"check", "drop"}, Begin(h, r, op, l)
  PROVE  Only(h, [job[h] EXCEPT !.pc = l, !.req = r])
<1>1. job[h] \in Job
  BY AskedType
<1>2. [job[h] EXCEPT !.pc = l, !.req = r] \in Job
  BY <1>1 DEF Job
<1>3. job' = [job EXCEPT ![h] = [job[h] EXCEPT !.pc = l, !.req = r]]
  BY JobType DEF Begin
<1>. QED  BY <1>2, <1>3, OnlyOne

\* A fence that is there has an RtreeFence.
LEMMA FenceType ==
  ASSUME TypeOK, NEW h \in Handlers
  PROVE  Fence(h) \in 0..MaxFences /\ (Fence(h) # None => Fence(h) \in Instances)
<1>1. Asked(h).fence \in Fences
  BY AskedType, RequestType
<1>2. Fence(h) \in 0..MaxFences /\ MaxFences \in Nat
  BY <1>1, GeofenceAssumption DEF Fence, TypeOK
<1>. QED  BY <1>2 DEF None, Instances

\* An RtreeFence looked up on the way to step l.
LEMMA RefOnly ==
  ASSUME TypeOK, NEW h \in Handlers, NEW l \in {"delete", "read"},
         job' = [job EXCEPT ![h].pc = l, ![h].ref = Fence(h)]
  PROVE  Only(h, [job[h] EXCEPT !.pc = l, !.ref = Fence(h)])
<1>1. job[h] \in Job /\ Fence(h) \in 0..MaxFences
  BY AskedType, FenceType
<1>2. [job[h] EXCEPT !.pc = l, !.ref = Fence(h)] \in Job
  BY <1>1 DEF Job
<1>3. job' = [job EXCEPT ![h] = [job[h] EXCEPT !.pc = l, !.ref = Fence(h)]]
  BY JobType
<1>. QED  BY <1>2, <1>3, OnlyOne

LEMMA GetOnly ==
  ASSUME TypeOK, NEW h \in Handlers, GetQueryPoint(h)
  PROVE  Only(h, [job[h] EXCEPT !.pc = "put", !.old = pos[Asked(h).q]])
<1>1. job[h] \in Job /\ Asked(h).q \in QueryPoints
  BY AskedType, RequestType
<1>2. pos[Asked(h).q] \in Int
  BY <1>1 DEF TypeOK
<1>3. [job[h] EXCEPT !.pc = "put", !.old = pos[Asked(h).q]] \in Job
  BY <1>1, <1>2 DEF Job
<1>4. job' = [job EXCEPT ![h] = [job[h] EXCEPT !.pc = "put", !.old = pos[Asked(h).q]]]
  BY JobType DEF GetQueryPoint
<1>. QED  BY <1>3, <1>4, OnlyOne

\* What a search has found: the points of some of the entries.
LEMMA NearOnly ==
  ASSUME TypeOK, NEW h \in Handlers, Ref(h) \in Instances, FindNearest(h)
  PROVE  \E N \in Nearest(Ref(h), Asked(h).at) :
           Only(h, [job[h] EXCEPT !.pc = "report", !.near = {items[Ref(h)][j].key : j \in N}])
<1>. DEFINE i == Ref(h)
<1>1. PICK N \in Nearest(i, Asked(h).at) :
        job' = [job EXCEPT ![h].pc = "report", ![h].near = {items[i][j].key : j \in N}]
  BY DEF FindNearest
<1>2. items[i] \in Seq(Circle) /\ N \subseteq DOMAIN items[i]
  BY <1>1 DEF TypeOK, Nearest
<1>3. \A j \in N : items[i][j] \in Circle
  BY <1>2
<1>4. {items[i][j].key : j \in N} \in SUBSET Keys
  BY <1>3 DEF Circle
<1>5. job[h] \in Job
  BY AskedType
<1>. DEFINE near == {items[i][j].key : j \in N}
<1>6. near \in SUBSET Keys /\ job' = [job EXCEPT ![h].pc = "report", ![h].near = near]
  BY <1>1, <1>4
<1>. HIDE DEF near
<1>7. [job[h] EXCEPT !.pc = "report", !.near = near] \in Job
  BY <1>5, <1>6 DEF Job
<1>8. job' = [job EXCEPT ![h] = [job[h] EXCEPT !.pc = "report", !.near = near]]
  BY <1>6, JobType
<1>9. Only(h, [job[h] EXCEPT !.pc = "report", !.near = near])
  BY <1>7, <1>8, OnlyOne
<1>. QED  BY <1>9 DEF near

-----------------------------------------------------------------------------
(* The steps that touch neither a tree nor the position of a search *)

Plain(h) ==
  \/ AddGeofence(h) \/ DeleteGeofence(h) \/ AddFencePoint(h)
  \/ SetQueryPoint(h) \/ SearchFence(h)
  \/ FenceExists(h) \/ CreateFence(h) \/ DeleteFence(h)
  \/ PointFenceExists(h) \/ LookupFence(h)
  \/ SetFenceExists(h) \/ UpdateFencePoint(h)
  \/ SearchFenceExists(h) \/ GetQueryPoint(h)

TreeStep(h)   == DeleteEntry(h) \/ InsertEntry(h) \/ LoseEntry(h) \/ StoreCircle(h)
SearchStep(h) == PutQueryPoint(h) \/ FindNearest(h) \/ Report(h)

LEMMA NextCases ==
  ASSUME Next
  PROVE  (\E h \in Handlers : Plain(h) \/ TreeStep(h) \/ SearchStep(h)) \/ Restart
BY DEF Next, Step, Plain, TreeStep, SearchStep

Others(h) == \A g \in Handlers : g # h => job'[g] = job[g]

\* What a handler that takes such a step has done to itself.
Went(h) ==
  /\ job' \in [Handlers -> Job] /\ Others(h)
  /\ \/ job[h].pc \in {"idle", "check", "create", "drop", "lookup", "read"}
     \/ IsAt(h, "setPoint", "put")
  /\ \/ job'[h].pc \in {"idle", "check", "create", "drop", "lookup"}
     \/ job'[h].pc \in {"delete", "read"} /\ job'[h].ref \in Instances
     \/ job'[h].pc = "put" /\ (job'[h].req.op = "setPoint" \/
          (job'[h].ref \in Instances /\ job'[h].old = pos[job'[h].req.q]))

\* And to the state.
Stored ==
  /\ UNCHANGED <<items, dead, circle, torn, told>>
  /\ fences' \in [Fences -> 0..MaxFences] /\ made' \in 0..MaxFences
  /\ started' \in 0..MaxRequests
  /\ pos' \in [QueryPoints -> Int]
  /\ missed' \subseteq QueryPoints \X Instances /\ missed \subseteq missed'
  /\ \A q \in QueryPoints : pos'[q] # pos[q] => pos'[q] # Unknown /\ {q} \X Instances \subseteq missed'

LEMMA BeginPlain ==
  ASSUME TypeOK, NEW h \in Handlers, NEW r \in Requests,
         NEW op, NEW l \in {"check", "drop"}, Begin(h, r, op, l)
  PROVE  Went(h) /\ Stored
<1>1. Only(h, [job[h] EXCEPT !.pc = l, !.req = r]) /\ job[h] \in Job
  BY BeginOnly, AskedType
<1>2. job'[h].pc = l
  BY <1>1 DEF Only, Job
<1>3. Went(h)
  BY <1>1, <1>2 DEF Went, Begin, Others, Only
<1>4. started + 1 \in 0..MaxRequests
  BY GeofenceAssumption DEF Begin, TypeOK
<1>. QED  BY <1>3, <1>4 DEF Begin, Stored, TypeOK, index, ghost

LEMMA AnswerPlain ==
  ASSUME TypeOK, NEW h \in Handlers, Answer(h),
         \/ job[h].pc \in {"idle", "check", "create", "drop", "lookup", "read"}
         \/ IsAt(h, "setPoint", "put")
  PROVE  Went(h)
BY AnswerOnly, IdleType DEF Went, Only, Others

LEMMA GotoPlain ==
  ASSUME TypeOK, NEW h \in Handlers, NEW l \in {"create", "lookup"}, Goto(h, l),
         job[h].pc = "check"
  PROVE  Went(h)
<1>1. Only(h, [job[h] EXCEPT !.pc = l]) /\ job[h] \in Job
  BY GotoOnly, AskedType
<1>2. job'[h].pc = l
  BY <1>1 DEF Only, Job
<1>. QED  BY <1>1, <1>2 DEF Went, Only, Others

LEMMA RefPlain ==
  ASSUME TypeOK, NEW h \in Handlers, NEW l \in {"delete", "read"}, Fence(h) # None,
         job' = [job EXCEPT ![h].pc = l, ![h].ref = Fence(h)],
         job[h].pc \in {"check", "lookup"}
  PROVE  Went(h)
<1>1. Only(h, [job[h] EXCEPT !.pc = l, !.ref = Fence(h)]) /\ job[h] \in Job
      /\ Fence(h) \in Instances
  BY RefOnly, AskedType, FenceType
<1>2. job'[h].pc = l /\ job'[h].ref \in Instances
  BY <1>1 DEF Only, Job
<1>. QED  BY <1>1, <1>2 DEF Went, Only, Others

LEMMA SamePlain ==
  ASSUME TypeOK, UNCHANGED <<index, pos, started, ghost>>
  PROVE  Stored
BY DEF TypeOK, Stored, index, ghost

LEMMA PlainStep ==
  ASSUME TypeOK, Referred, NEW h \in Handlers, Plain(h)
  PROVE  Went(h) /\ Stored
<1>1. CASE AddGeofence(h) \/ DeleteGeofence(h) \/ AddFencePoint(h)
           \/ SetQueryPoint(h) \/ SearchFence(h)
  BY <1>1, BeginPlain
     DEF AddGeofence, DeleteGeofence, AddFencePoint, SetQueryPoint, SearchFence
<1>2. CASE FenceExists(h)
  BY <1>2, GotoPlain, AnswerPlain, SamePlain DEF FenceExists, IsAt
<1>3. CASE CreateFence(h)
  <2>1. Went(h)
    BY <1>3, AnswerPlain DEF CreateFence, IsAt
  <2>2. made + 1 \in 0..MaxFences
    BY <1>3, GeofenceAssumption DEF CreateFence, TypeOK
  <2>. QED  BY <1>3, <2>1, <2>2 DEF CreateFence, Stored, TypeOK, ghost
<1>4. CASE DeleteFence(h)
  <2>1. Went(h)
    BY <1>4, AnswerPlain DEF DeleteFence, IsAt
  <2>2. None \in 0..MaxFences
    BY GeofenceAssumption DEF None
  <2>. QED  BY <1>4, <2>1, <2>2 DEF DeleteFence, Stored, TypeOK, ghost
<1>5. CASE PointFenceExists(h)
  BY <1>5, GotoPlain, AnswerPlain, SamePlain DEF PointFenceExists, IsAt
<1>6. CASE LookupFence(h)
  BY <1>6, RefPlain, AnswerPlain, SamePlain DEF LookupFence, IsAt
<1>7. CASE SetFenceExists(h)
  <2>1. CASE Answer(h)
    BY <1>7, <2>1, AnswerPlain, SamePlain DEF SetFenceExists, IsAt
  <2>2. CASE Goto(h, "put")
    <3>1. Only(h, [job[h] EXCEPT !.pc = "put"]) /\ job[h] \in Job
      BY <2>2, GotoOnly, AskedType
    <3>2. job'[h].pc = "put" /\ job'[h].req.op = "setPoint"
      BY <1>7, <3>1 DEF Only, Job, SetFenceExists, IsAt, Asked
    <3>. QED  BY <1>7, <3>1, <3>2, SamePlain DEF Went, Only, Others, SetFenceExists, IsAt
  <2>. QED  BY <1>7, <2>1, <2>2 DEF SetFenceExists
<1>8. CASE UpdateFencePoint(h)
  <2>1. Went(h)
    BY <1>8, AnswerPlain DEF UpdateFencePoint
  <2>2. Asked(h).q \in QueryPoints /\ Asked(h).at \in Int /\ Asked(h).at # Unknown
    BY AskedType, RequestType
  <2>. QED  BY <1>8, <2>1, <2>2 DEF UpdateFencePoint, Stored, TypeOK, index
<1>9. CASE SearchFenceExists(h)
  BY <1>9, RefPlain, AnswerPlain, SamePlain DEF SearchFenceExists, IsAt
<1>10. CASE GetQueryPoint(h)
  <2>1. Only(h, [job[h] EXCEPT !.pc = "put", !.old = pos[Asked(h).q]])
        /\ job[h] \in Job /\ Ref(h) \in Instances
    BY <1>10, GetOnly, AskedType DEF Referred, GetQueryPoint, IsAt
  <2>2. /\ job'[h].pc = "put" /\ job'[h].ref \in Instances
        /\ job'[h].old = pos[job'[h].req.q]
    BY <2>1 DEF Only, Job, Asked, Ref
  <2>3. Went(h)
    BY <1>10, <2>1, <2>2 DEF Went, Only, Others, GetQueryPoint, IsAt
  <2>. QED  BY <1>10, <2>3, SamePlain DEF GetQueryPoint
<1>. QED
  BY <1>1, <1>2, <1>3, <1>4, <1>5, <1>6, <1>7, <1>8, <1>9, <1>10 DEF Plain

-----------------------------------------------------------------------------
(* The tree of a fence *)

LEMMA ItemsType ==
  ASSUME TypeOK, NEW i \in Instances
  PROVE  /\ items[i] \in Seq(Circle) /\ Len(items[i]) \in Nat
         /\ DOMAIN items[i] = 1..Len(items[i])
         /\ \A k : EntriesOf(i, k) \subseteq 1..Len(items[i])
         /\ \A j \in DOMAIN items[i] : items[i][j] \in Circle /\ items[i][j].key \in Keys
<1>1. items[i] \in Seq(Circle)
  BY DEF TypeOK
<1>2. DOMAIN items[i] = 1..Len(items[i]) /\ Len(items[i]) \in Nat
  BY <1>1
<1>3. \A j \in DOMAIN items[i] : items[i][j] \in Circle
  BY <1>1, <1>2
<1>4. \A c \in Circle : c.key \in Keys
  BY DEF Circle
<1>5. \A k : EntriesOf(i, k) \subseteq 1..Len(items[i])
  BY <1>2 DEF EntriesOf
<1>. QED  BY <1>1, <1>2, <1>3, <1>4, <1>5

\* SwapOut shortens a sequence by one; the last entry is where the removed one was.
LEMMA SwapOutSeq ==
  ASSUME NEW S, NEW s \in Seq(S), NEW j \in 1..Len(s)
  PROVE  /\ SwapOut(s, j) \in Seq(S)
         /\ DOMAIN SwapOut(s, j) = 1..(Len(s) - 1)
         /\ Len(SwapOut(s, j)) = Len(s) - 1
         /\ \A x \in 1..(Len(s) - 1) : SwapOut(s, j)[x] = IF x = j THEN s[Len(s)] ELSE s[x]
<1>1. Len(s) \in Nat \ {0} /\ \A x \in 1..Len(s) : s[x] \in S
  OBVIOUS
<1>2. \A x \in 1..(Len(s) - 1) : (IF x = j THEN s[Len(s)] ELSE s[x]) \in S
  BY <1>1
<1>. DEFINE e(x) == IF x = j THEN s[Len(s)] ELSE s[x]
            n == Len(s) - 1
<1>3. n \in Nat /\ \A x \in 1..n : e(x) \in S
  BY <1>1, <1>2
<1>. HIDE DEF e, n
<1>4. [x \in 1..n |-> e(x)] \in [1..n -> S]
  BY <1>3
<1>5. SwapOut(s, j) = [x \in 1..n |-> e(x)]
  BY DEF SwapOut, e, n
<1>6. SwapOut(s, j) \in Seq(S) /\ Len(SwapOut(s, j)) = n
  BY <1>3, <1>4, <1>5
<1>7. DOMAIN SwapOut(s, j) = 1..n /\ \A x \in 1..n : SwapOut(s, j)[x] = e(x)
  BY <1>5
<1>. QED  BY <1>6, <1>7 DEF e, n

LEMMA LeastEntry ==
  ASSUME TypeOK, NEW i \in Instances, NEW k, EntriesOf(i, k) # {}
  PROVE  (CHOOSE j \in EntriesOf(i, k) : \A m \in EntriesOf(i, k) : j <= m)
           \in EntriesOf(i, k)
<1>. DEFINE E == EntriesOf(i, k)
<1>1. E \subseteq 1..Len(items[i]) /\ Len(items[i]) \in Nat
  BY ItemsType
<1>2. E \subseteq Nat
  BY <1>1
<1>3. PICK j \in E : \A m \in E : <<m, j>> \notin OpToRel(<, Nat)
  BY <1>2, WFMin, NatLessThanWellFounded, Zenon
<1>4. \A m \in E : ~(m < j)
  BY <1>2, <1>3, Zenon DEF OpToRel
<1>5. \A m \in E : j <= m
  BY <1>2, <1>4
<1>. QED  BY <1>5

\* What a deletion does to the tree of a fence and to the others.
LEMMA DeleteTree ==
  ASSUME TypeOK, Referred, NEW h \in Handlers, DeleteEntry(h)
  PROVE  /\ Ref(h) \in Instances
         /\ Only(h, [job[h] EXCEPT !.pc = "insert"])
         /\ items' \in [Instances -> Seq(Circle)]
         /\ \A i \in Instances : i # Ref(h) => items'[i] = items[i]
         /\ dead \subseteq dead' /\ dead' \subseteq dead \cup {Ref(h)}
         /\ torn' = IF Changing(Ref(h)) = {} THEN torn ELSE torn \cup {Ref(h)}
         /\ \/ EntriesOf(Ref(h), Point(h)) = {} /\ items'[Ref(h)] = items[Ref(h)]
            \/ \E j \in EntriesOf(Ref(h), Point(h)) : items'[Ref(h)] = SwapOut(items[Ref(h)], j)
            \/ Ref(h) \in dead'
<1>. DEFINE i == Ref(h)
            k == Point(h)
            j == CHOOSE x \in EntriesOf(i, k) : \A m \in EntriesOf(i, k) : x <= m
            s == IF EntriesOf(i, k) = {} THEN items[i] ELSE SwapOut(items[i], j)
            shortened == EntriesOf(i, k) # {} /\ Len(s) = 1
<1>1. i \in Instances
  BY DEF DeleteEntry, IsAt, Referred
<1>2. /\ Goto(h, "insert")
      /\ items' = [items EXCEPT ![i] = IF shortened THEN <<>> ELSE s]
      /\ dead' = IF shortened THEN dead \cup {i} ELSE dead
      /\ torn' = IF Changing(i) = {} THEN torn ELSE torn \cup {i}
  BY DEF DeleteEntry, Point
<1>3. items[i] \in Seq(Circle) /\ items \in [Instances -> Seq(Circle)]
  BY <1>1 DEF TypeOK
<1>4. EntriesOf(i, k) # {} => j \in EntriesOf(i, k) /\ j \in 1..Len(items[i])
  BY <1>1, LeastEntry, ItemsType
<1>5. s \in Seq(Circle)
  BY <1>3, <1>4, SwapOutSeq
<1>. HIDE DEF j
<1>6. \/ EntriesOf(i, k) = {} /\ s = items[i]
      \/ EntriesOf(i, k) # {} /\ s = SwapOut(items[i], j)
  OBVIOUS
<1>. HIDE DEF s
<1>7. <<>> \in Seq(Circle)
  OBVIOUS
<1>8. /\ items' \in [Instances -> Seq(Circle)]
      /\ \A x \in Instances : x # i => items'[x] = items[x]
      /\ items'[i] = IF shortened THEN <<>> ELSE s
  BY <1>1, <1>2, <1>3, <1>5, <1>7
<1>9. Only(h, [job[h] EXCEPT !.pc = "insert"])
  BY <1>2, GotoOnly
<1>. QED  BY <1>1, <1>2, <1>4, <1>6, <1>8, <1>9

\* An insertion that succeeds, and what else may come of it.
LEMMA InsertTree ==
  ASSUME TypeOK, Referred, NEW h \in Handlers, InsertEntry(h)
  PROVE  /\ Ref(h) \in Instances
         /\ items' \in [Instances -> Seq(Circle)]
         /\ \A i \in Instances : i # Ref(h) => items'[i] = items[i]
         /\ torn \subseteq torn' /\ torn' \subseteq torn \cup {Ref(h)}
         /\ \/ /\ Ref(h) \in dead \cup torn'
               /\ Only(h, Idle)
            \/ /\ items'[Ref(h)] = Append(items[Ref(h)], Asked(h).circle)
               /\ Only(h, [job[h] EXCEPT !.pc = "store"])
<1>. DEFINE i == Ref(h)
<1>1. i \in Instances
  BY DEF InsertEntry, IsAt, Referred
<1>2. items[i] \in Seq(Circle) /\ items \in [Instances -> Seq(Circle)]
  BY <1>1 DEF TypeOK
<1>3. Asked(h).circle \in Circle
  BY AskedType, RequestType
<1>4. Append(items[i], Asked(h).circle) \in Seq(Circle)
  BY <1>2, <1>3
<1>5. items' = IF i \in dead THEN items
               ELSE [items EXCEPT ![i] = Append(@, Asked(h).circle)]
  BY DEF InsertEntry
<1>6. /\ items' \in [Instances -> Seq(Circle)]
      /\ \A x \in Instances : x # i => items'[x] = items[x]
      /\ i \notin dead => items'[i] = Append(items[i], Asked(h).circle)
  BY <1>1, <1>2, <1>4, <1>5
<1>7. CASE Len(items[i]) >= MaxItems \/ i \in dead
  BY <1>1, <1>6, <1>7, AnswerOnly DEF InsertEntry
<1>8. CASE ~(Len(items[i]) >= MaxItems \/ i \in dead)
  BY <1>1, <1>6, <1>8, GotoOnly DEF InsertEntry
<1>. QED  BY <1>7, <1>8

LEMMA LoseTree ==
  ASSUME TypeOK, Referred, NEW h \in Handlers, LoseEntry(h)
  PROVE  /\ Ref(h) \in Instances
         /\ Only(h, [job[h] EXCEPT !.pc = "store"])
         /\ \E g \in Handlers : g # h /\ g \in Changing(Ref(h))
BY GotoOnly DEF LoseEntry, IsAt, Referred, Changing

LEMMA StoreTree ==
  ASSUME TypeOK, Referred, NEW h \in Handlers, StoreCircle(h)
  PROVE  /\ Ref(h) \in Instances /\ Point(h) \in Keys
         /\ Asked(h).circle # NoCircle
         /\ Only(h, Idle)
         /\ circle' \in [Instances -> [Keys -> Circle \cup {NoCircle}]]
         /\ circle'[Ref(h)][Point(h)] = Asked(h).circle
         /\ \A i \in Instances, k \in Keys :
              ~(i = Ref(h) /\ k = Point(h)) => circle'[i][k] = circle[i][k]
         /\ missed \subseteq missed' /\ missed' \subseteq QueryPoints \X Instances
         /\ \A q \in QueryPoints : pos[q] # Unknown => <<q, Ref(h)>> \in missed'
<1>1. Ref(h) \in Instances
  BY DEF StoreCircle, IsAt, Referred
<1>2. Asked(h).circle \in Circle /\ Point(h) \in Keys /\ Asked(h).circle # NoCircle
  BY AskedType, RequestType DEF Point
<1>3. circle' = [circle EXCEPT ![Ref(h)] = [circle[Ref(h)] EXCEPT ![Point(h)] = Asked(h).circle]]
  BY DEF StoreCircle, Point
<1>4. circle \in [Instances -> [Keys -> Circle \cup {NoCircle}]]
  BY DEF TypeOK
<1>. DEFINE new == [circle[Ref(h)] EXCEPT ![Point(h)] = Asked(h).circle]
<1>5. /\ new \in [Keys -> Circle \cup {NoCircle}] /\ new[Point(h)] = Asked(h).circle
      /\ \A k \in Keys : k # Point(h) => new[k] = circle[Ref(h)][k]
  BY <1>1, <1>2, <1>4
<1>6. circle' = [circle EXCEPT ![Ref(h)] = new]
  BY <1>3
<1>. HIDE DEF new
<1>7. /\ circle' \in [Instances -> [Keys -> Circle \cup {NoCircle}]]
      /\ circle'[Ref(h)] = new
      /\ \A i \in Instances : i # Ref(h) => circle'[i] = circle[i]
  BY <1>1, <1>4, <1>5, <1>6
<1>8. /\ missed \subseteq missed' /\ missed' \subseteq QueryPoints \X Instances
      /\ \A q \in QueryPoints : pos[q] # Unknown => <<q, Ref(h)>> \in missed'
  BY <1>1 DEF StoreCircle, TypeOK
<1>9. Only(h, Idle)
  BY AnswerOnly DEF StoreCircle
<1>. QED  BY <1>1, <1>2, <1>5, <1>7, <1>8, <1>9

-----------------------------------------------------------------------------
(* The steps of a search that move its point and report *)

LEMMA PutSearch ==
  ASSUME TypeOK, Referred, NEW h \in Handlers, PutQueryPoint(h)
  PROVE  /\ Ref(h) \in Instances /\ Asked(h).q \in QueryPoints
         /\ Only(h, [job[h] EXCEPT !.pc = "near"])
         /\ pos' \in [QueryPoints -> Int]
         /\ pos'[Asked(h).q] = Asked(h).at /\ Asked(h).at # Unknown
         /\ \A q \in QueryPoints : q # Asked(h).q => pos'[q] = pos[q]
         /\ missed \subseteq missed' /\ missed' \subseteq QueryPoints \X Instances
         /\ \A i \in Instances :
              \/ <<Asked(h).q, i>> \in missed'
              \/ Searching(Asked(h).q) = {h} /\ Ref(h) = i
         /\ Searching(Asked(h).q) # {h} => {Asked(h).q} \X Instances \subseteq missed'
<1>1. Ref(h) \in Instances
  BY DEF PutQueryPoint, Referred
<1>2. Asked(h).q \in QueryPoints /\ Asked(h).at \in Int /\ Asked(h).at # Unknown
  BY AskedType, RequestType
<1>3. Only(h, [job[h] EXCEPT !.pc = "near"])
  BY GotoOnly DEF PutQueryPoint
<1>4. /\ pos' \in [QueryPoints -> Int] /\ pos'[Asked(h).q] = Asked(h).at
      /\ \A q \in QueryPoints : q # Asked(h).q => pos'[q] = pos[q]
  BY <1>2 DEF PutQueryPoint, TypeOK
<1>. DEFINE I == IF Searching(Asked(h).q) = {h} THEN Instances \ {Ref(h)} ELSE Instances
<1>5. missed' = missed \cup ({Asked(h).q} \X I) /\ I \subseteq Instances
  BY DEF PutQueryPoint
<1>6. missed \subseteq missed' /\ missed' \subseteq QueryPoints \X Instances
  BY <1>2, <1>5 DEF TypeOK
<1>7. \A i \in I : <<Asked(h).q, i>> \in missed'
  BY <1>5
<1>. QED  BY <1>1, <1>2, <1>3, <1>4, <1>5, <1>6, <1>7

LEMMA NearSearch ==
  ASSUME TypeOK, Referred, NEW h \in Handlers, FindNearest(h)
  PROVE  /\ Ref(h) \in Instances /\ Asked(h).q \in QueryPoints
         /\ \E N \in Nearest(Ref(h), Asked(h).at) :
              Only(h, [job[h] EXCEPT !.pc = "report", !.near = {items[Ref(h)][j].key : j \in N}])
         /\ missed \subseteq missed' /\ missed' \subseteq QueryPoints \X Instances
         /\ Len(items[Ref(h)]) > NearestK => <<Asked(h).q, Ref(h)>> \in missed'
<1>1. Ref(h) \in Instances
  BY DEF FindNearest, IsAt, Referred
<1>2. Asked(h).q \in QueryPoints
  BY AskedType, RequestType
<1>3. /\ missed \subseteq missed' /\ missed' \subseteq QueryPoints \X Instances
      /\ Len(items[Ref(h)]) > NearestK => <<Asked(h).q, Ref(h)>> \in missed'
  BY <1>1, <1>2 DEF FindNearest, TypeOK
<1>. QED  BY <1>1, <1>2, <1>3, NearOnly

LEMMA ReportSearch ==
  ASSUME TypeOK, Referred, NEW h \in Handlers, Report(h)
  PROVE  /\ Ref(h) \in Instances /\ Asked(h).q \in QueryPoints
         /\ Only(h, Idle)
         /\ told' \in [QueryPoints \X Instances -> SUBSET Keys]
         /\ told'[Asked(h).q, Ref(h)] =
              (told[Asked(h).q, Ref(h)] \cup Reported(h, "ENTER")) \ Reported(h, "EXIT")
         /\ \A q \in QueryPoints, i \in Instances :
              ~(q = Asked(h).q /\ i = Ref(h)) => told'[q, i] = told[q, i]
<1>1. Ref(h) \in Instances
  BY DEF Report, IsAt, Referred
<1>2. Asked(h).q \in QueryPoints
  BY AskedType, RequestType
<1>3. job[h].near \subseteq Keys
  BY AskedType DEF Job
<1>4. Reported(h, "ENTER") \subseteq Keys /\ Reported(h, "EXIT") \subseteq Keys
  BY <1>3 DEF Reported
<1>. DEFINE p == <<Asked(h).q, Ref(h)>>
            new == (told[p] \cup Reported(h, "ENTER")) \ Reported(h, "EXIT")
<1>5. p \in QueryPoints \X Instances
  BY <1>1, <1>2
<1>6. told \in [QueryPoints \X Instances -> SUBSET Keys]
  BY DEF TypeOK
<1>7. told' = [told EXCEPT ![p] = new]
  BY <1>5, <1>6 DEF Report
<1>8. new \in SUBSET Keys
  BY <1>4, <1>5, <1>6
<1>9. told' \in [QueryPoints \X Instances -> SUBSET Keys]
  BY <1>5, <1>6, <1>7, <1>8
<1>10. told'[p] = new
  BY <1>5, <1>6, <1>7
<1>11. ASSUME NEW q \in QueryPoints, NEW i \in Instances, ~(q = Asked(h).q /\ i = Ref(h))
       PROVE  told'[q, i] = told[q, i]
  <2>1. <<q, i>> # p /\ <<q, i>> \in QueryPoints \X Instances
    BY <1>11
  <2>. QED  BY <2>1, <1>6, <1>7
<1>12. Only(h, Idle)
  BY AnswerOnly DEF Report
<1>. QED  BY <1>1, <1>2, <1>9, <1>10, <1>11, <1>12

-----------------------------------------------------------------------------
(* Type correctness *)

LEMMA RestartType ==
  ASSUME TypeOK, Restart
  PROVE  TypeOK' /\ Referred'
<1>1. Idle \in Job /\ Idle.pc = "idle"
  BY IdleType
<1>2. job' \in [Handlers -> Job] /\ \A h \in Handlers : job'[h] = Idle
  BY <1>1 DEF Restart
<1>3. MaxFences \in Nat /\ <<>> \in Seq(Circle)
  BY GeofenceAssumption
<1>4. /\ fences' \in [Fences -> 0..MaxFences] /\ made' \in 0..MaxFences
      /\ items' \in [Instances -> Seq(Circle)]
      /\ dead' \subseteq Instances /\ torn' \subseteq Instances
  BY <1>3 DEF Restart, None
<1>5. circle' \in [Instances -> [Keys -> Circle \cup {NoCircle}]]
  BY DEF Restart
<1>6. /\ pos' \in [QueryPoints -> Int] /\ started' \in 0..MaxRequests
      /\ told' \in [QueryPoints \X Instances -> SUBSET Keys]
      /\ missed' \subseteq QueryPoints \X Instances
  BY DEF Restart, TypeOK, Empty
<1>7. TypeOK'
  BY <1>2, <1>4, <1>5, <1>6 DEF TypeOK, Job
<1>8. Referred'
  BY <1>1, <1>2 DEF Referred, IsAt
<1>. QED  BY <1>7, <1>8

\* A handler's step keeps the facts of Referred when it keeps them for itself.
LEMMA ReferredStep ==
  ASSUME Referred, NEW h \in Handlers, Others(h),
         job'[h].pc \in {"delete", "insert", "store", "read", "near", "report"} =>
           job'[h].ref \in Instances,
         job'[h].pc = "put" /\ job'[h].req.op = "search" => job'[h].ref \in Instances
  PROVE  Referred'
BY DEF Referred, Others, IsAt, Asked, Ref

\* A handler on its way from one step of its request to the next.
LEMMA GoesOn ==
  ASSUME TypeOK, NEW h \in Handlers, NEW l, Only(h, [job[h] EXCEPT !.pc = l])
  PROVE  /\ Others(h) /\ job' \in [Handlers -> Job]
         /\ job'[h].pc = l /\ job'[h].req = Asked(h) /\ job'[h].ref = Ref(h)
         /\ job'[h].old = job[h].old /\ job'[h].near = job[h].near
<1>1. job[h] \in Job
  BY AskedType
<1>. QED  BY <1>1 DEF Only, Others, Job, Asked, Ref

LEMMA GoesIdle ==
  ASSUME NEW h \in Handlers, Only(h, Idle)
  PROVE  Others(h) /\ job' \in [Handlers -> Job] /\ job'[h].pc = "idle"
BY IdleType DEF Only, Others

\* What a search that has found the nearest entries takes along.
LEMMA GoesNear ==
  ASSUME TypeOK, NEW h \in Handlers, NEW near,
         Only(h, [job[h] EXCEPT !.pc = "report", !.near = near])
  PROVE  /\ Others(h) /\ job' \in [Handlers -> Job]
         /\ job'[h].pc = "report" /\ job'[h].req = Asked(h) /\ job'[h].ref = Ref(h)
         /\ job'[h].old = job[h].old /\ job'[h].near = near
<1>1. job[h] \in Job
  BY AskedType
<1>. QED  BY <1>1 DEF Only, Others, Job, Asked, Ref

LEMMA TypeStep ==
  ASSUME TypeOK, Referred, [Next]_vars
  PROVE  TypeOK' /\ Referred'
<1>1. CASE UNCHANGED vars
  BY <1>1 DEF vars, index, ghost, TypeOK, Referred, IsAt, Ref, Asked
<1>2. CASE Restart
  BY <1>2, RestartType
<1>3. ASSUME NEW h \in Handlers, Plain(h)
      PROVE  TypeOK' /\ Referred'
  <2>1. Went(h) /\ Stored
    BY <1>3, PlainStep
  <2>2. TypeOK'
    BY <2>1 DEF Went, Stored, TypeOK, Job
  <2>3. Referred'
    BY <2>1, ReferredStep DEF Went
  <2>. QED  BY <2>2, <2>3
<1>4. ASSUME NEW h \in Handlers, DeleteEntry(h)
      PROVE  TypeOK' /\ Referred'
  <2>1. /\ Ref(h) \in Instances
        /\ Only(h, [job[h] EXCEPT !.pc = "insert"])
        /\ items' \in [Instances -> Seq(Circle)]
        /\ dead' \subseteq dead \cup {Ref(h)}
        /\ torn' = IF Changing(Ref(h)) = {} THEN torn ELSE torn \cup {Ref(h)}
    BY <1>4, DeleteTree
  <2>2. Others(h) /\ job' \in [Handlers -> Job] /\ job'[h].pc = "insert" /\ job'[h].ref = Ref(h)
    BY <2>1, GoesOn
  <2>3. TypeOK'
    BY <1>4, <2>1, <2>2 DEF DeleteEntry, TypeOK, Job
  <2>. QED  BY <2>1, <2>2, <2>3, ReferredStep
<1>5. ASSUME NEW h \in Handlers, InsertEntry(h)
      PROVE  TypeOK' /\ Referred'
  <2>1. /\ Ref(h) \in Instances
        /\ items' \in [Instances -> Seq(Circle)] /\ torn' \subseteq torn \cup {Ref(h)}
        /\ Only(h, Idle) \/ Only(h, [job[h] EXCEPT !.pc = "store"])
    BY <1>5, InsertTree
  <2>2. /\ Others(h) /\ job' \in [Handlers -> Job]
        /\ job'[h].pc = "idle" \/ (job'[h].pc = "store" /\ job'[h].ref = Ref(h))
    BY <2>1, GoesOn, GoesIdle
  <2>3. TypeOK'
    BY <1>5, <2>1, <2>2 DEF InsertEntry, TypeOK, Job
  <2>. QED  BY <2>1, <2>2, <2>3, ReferredStep
<1>6. ASSUME NEW h \in Handlers, LoseEntry(h)
      PROVE  TypeOK' /\ Referred'
  <2>1. Ref(h) \in Instances /\ Only(h, [job[h] EXCEPT !.pc = "store"])
    BY <1>6, LoseTree
  <2>2. Others(h) /\ job' \in [Handlers -> Job] /\ job'[h].pc = "store" /\ job'[h].ref = Ref(h)
    BY <2>1, GoesOn
  <2>3. TypeOK'
    BY <1>6, <2>2 DEF LoseEntry, TypeOK, Job, index, ghost
  <2>. QED  BY <2>1, <2>2, <2>3, ReferredStep
<1>7. ASSUME NEW h \in Handlers, StoreCircle(h)
      PROVE  TypeOK' /\ Referred'
  <2>1. /\ Only(h, Idle)
        /\ circle' \in [Instances -> [Keys -> Circle \cup {NoCircle}]]
        /\ missed' \subseteq QueryPoints \X Instances
    BY <1>7, StoreTree
  <2>2. Others(h) /\ job' \in [Handlers -> Job] /\ job'[h].pc = "idle"
    BY <2>1, GoesIdle
  <2>3. TypeOK'
    BY <1>7, <2>1, <2>2 DEF StoreCircle, TypeOK, Job
  <2>. QED  BY <2>2, <2>3, ReferredStep
<1>8. ASSUME NEW h \in Handlers, PutQueryPoint(h)
      PROVE  TypeOK' /\ Referred'
  <2>1. /\ Ref(h) \in Instances
        /\ Only(h, [job[h] EXCEPT !.pc = "near"])
        /\ pos' \in [QueryPoints -> Int] /\ missed' \subseteq QueryPoints \X Instances
    BY <1>8, PutSearch
  <2>2. Others(h) /\ job' \in [Handlers -> Job] /\ job'[h].pc = "near" /\ job'[h].ref = Ref(h)
    BY <2>1, GoesOn
  <2>3. TypeOK'
    BY <1>8, <2>1, <2>2 DEF PutQueryPoint, TypeOK, Job, index
  <2>. QED  BY <2>1, <2>2, <2>3, ReferredStep
<1>9. ASSUME NEW h \in Handlers, FindNearest(h)
      PROVE  TypeOK' /\ Referred'
  <2>1. PICK N \in Nearest(Ref(h), Asked(h).at) :
          Only(h, [job[h] EXCEPT !.pc = "report", !.near = {items[Ref(h)][j].key : j \in N}])
    BY <1>9, NearSearch
  <2>2. Ref(h) \in Instances /\ missed' \subseteq QueryPoints \X Instances
    BY <1>9, NearSearch
  <2>3. Others(h) /\ job' \in [Handlers -> Job] /\ job'[h].pc = "report" /\ job'[h].ref = Ref(h)
    BY <2>1, GoesNear
  <2>4. TypeOK'
    BY <1>9, <2>2, <2>3 DEF FindNearest, TypeOK, Job, index
  <2>. QED  BY <2>2, <2>3, <2>4, ReferredStep
<1>10. ASSUME NEW h \in Handlers, Report(h)
       PROVE  TypeOK' /\ Referred'
  <2>1. Only(h, Idle) /\ told' \in [QueryPoints \X Instances -> SUBSET Keys]
    BY <1>10, ReportSearch
  <2>2. Others(h) /\ job' \in [Handlers -> Job] /\ job'[h].pc = "idle"
    BY <2>1, GoesIdle
  <2>3. TypeOK'
    BY <1>10, <2>1, <2>2 DEF Report, TypeOK, Job, index
  <2>. QED  BY <2>2, <2>3, ReferredStep
<1>. QED
  BY <1>1, <1>2, <1>3, <1>4, <1>5, <1>6, <1>7, <1>8, <1>9, <1>10, NextCases
     DEF TreeStep, SearchStep

LEMMA InitType == Init => TypeOK /\ Referred
<1>. SUFFICES ASSUME Init PROVE TypeOK /\ Referred
  OBVIOUS
<1>1. Idle \in Job /\ Idle.pc = "idle"
  BY IdleType
<1>2. job \in [Handlers -> Job] /\ \A h \in Handlers : job[h] = Idle
  BY <1>1 DEF Init
<1>3. MaxFences \in Nat /\ MaxRequests \in Nat /\ <<>> \in Seq(Circle)
  BY GeofenceAssumption
<1>4. /\ fences \in [Fences -> 0..MaxFences] /\ made \in 0..MaxFences
      /\ items \in [Instances -> Seq(Circle)]
      /\ dead \subseteq Instances /\ torn \subseteq Instances
  BY <1>3 DEF Init, None
<1>5. /\ circle \in [Instances -> [Keys -> Circle \cup {NoCircle}]]
      /\ pos \in [QueryPoints -> Int]
  BY DEF Init, Unknown
<1>6. /\ started \in 0..MaxRequests /\ missed \subseteq QueryPoints \X Instances
      /\ told \in [QueryPoints \X Instances -> SUBSET Keys]
  BY <1>3 DEF Init, Empty
<1>7. TypeOK
  BY <1>2, <1>4, <1>5, <1>6 DEF TypeOK, Job
<1>. QED  BY <1>1, <1>2, <1>7 DEF Referred, IsAt

\* Every variable keeps its type, and a handler uses only RtreeFences it looked up.
THEOREM TypeCorrect == Spec => []TypeOK
<1>1. TypeOK /\ Referred /\ [Next]_vars => TypeOK' /\ Referred'
  BY TypeStep
<1>. QED  BY <1>1, InitType, PTL DEF Spec

-----------------------------------------------------------------------------
(* The tree and the map *)

Places(s, k) == {x \in DOMAIN s : s[x].key = k}

\* t is s without its entry of key k: every other entry is still there once.
IsWithout(t, s, k) ==
  /\ Places(t, k) = {}
  /\ \A m : Places(s, m) = {} => Places(t, m) = {}
  /\ \A m, x : m # k /\ Places(s, m) = {x} =>
       \E y \in DOMAIN t : Places(t, m) = {y} /\ t[y] = s[x]

LEMMA SwapOutPlaces ==
  ASSUME NEW s \in Seq(Circle), NEW j \in 1..Len(s), NEW k, Places(s, k) = {j}
  PROVE  IsWithout(SwapOut(s, j), s, k)
<1>. DEFINE t == SwapOut(s, j)
            n == Len(s)
<1>1. /\ DOMAIN t = 1..(n - 1) /\ DOMAIN s = 1..n /\ n \in Nat \ {0}
      /\ \A x \in 1..(n - 1) : t[x] = IF x = j THEN s[n] ELSE s[x]
  <2>1. Len(s) \in Nat \ {0} /\ DOMAIN s = 1..Len(s)
    OBVIOUS
  <2>. QED  BY <2>1, SwapOutSeq
<1>2. \A x \in 1..n : s[x].key = k <=> x = j
  BY <1>1 DEF Places
<1>3. j \in 1..n
  OBVIOUS
<1>. HIDE DEF t, n
<1>4. Places(t, k) = {}
  BY <1>1, <1>2, <1>3 DEF Places
<1>5. ASSUME NEW m, Places(s, m) = {}
      PROVE  Places(t, m) = {}
  <2>1. \A x \in 1..n : s[x].key # m
    BY <1>1, <1>5 DEF Places
  <2>. QED  BY <2>1, <1>1 DEF Places
<1>6. ASSUME NEW m, NEW x, m # k, Places(s, m) = {x}
      PROVE  \E y \in DOMAIN t : Places(t, m) = {y} /\ t[y] = s[x]
  <2>1. x \in 1..n /\ \A z \in 1..n : s[z].key = m <=> z = x
    BY <1>1, <1>6 DEF Places
  <2>2. x # j
    BY <2>1, <1>2, <1>3, <1>6
  <2>. DEFINE y == IF x = n THEN j ELSE x
  <2>3. y \in 1..(n - 1) /\ t[y] = s[x]
    BY <1>1, <1>3, <2>1, <2>2
  <2>4. \A z \in 1..(n - 1) : t[z].key = m <=> z = y
    BY <1>1, <1>3, <2>1, <2>2
  <2>5. Places(t, m) = {y}
    BY <1>1, <2>3, <2>4 DEF Places
  <2>. QED  BY <1>1, <2>3, <2>5
<1>. QED  BY <1>4, <1>5, <1>6 DEF t, IsWithout

\* t is s with one more entry, c; the others stay where they are.
IsWith(t, s, c) ==
  \E n \in DOMAIN t :
    /\ t[n] = c /\ Places(t, c.key) = Places(s, c.key) \cup {n}
    /\ \A m : m # c.key => Places(t, m) = Places(s, m)
    /\ \A x \in DOMAIN s : x \in DOMAIN t /\ t[x] = s[x]

LEMMA AppendPlaces ==
  ASSUME NEW s \in Seq(Circle), NEW c \in Circle
  PROVE  IsWith(Append(s, c), s, c)
<1>. DEFINE t == Append(s, c)
            n == Len(s)
<1>1. /\ DOMAIN s = 1..n /\ DOMAIN t = 1..(n + 1) /\ n \in Nat
      /\ \A x \in 1..n : t[x] = s[x]
      /\ t[n + 1] = c
  OBVIOUS
<1>. HIDE DEF t, n
<1>2. \A x : x \in 1..(n + 1) <=> x \in 1..n \/ x = n + 1
  BY <1>1
<1>3. \A m : m # c.key => Places(t, m) = Places(s, m)
  BY <1>1, <1>2 DEF Places
<1>4. Places(t, c.key) = Places(s, c.key) \cup {n + 1}
  BY <1>1, <1>2 DEF Places
<1>5. DOMAIN s \subseteq DOMAIN t /\ n + 1 \in DOMAIN t
  BY <1>1, <1>2
<1>. QED  BY <1>1, <1>3, <1>4, <1>5 DEF t, IsWith

\* A fence that a step does not concern.
LEMMA OtherChanging ==
  ASSUME NEW h \in Handlers, Others(h), NEW i \in Instances, h \notin Changing(i),
         ~(job'[h].pc \in {"insert", "store"} /\ job'[h].ref = i)
  PROVE  Changing(i)' = Changing(i) /\ \A g \in Changing(i) : job'[g] = job[g]
BY DEF Others, Changing, Ref

LEMMA OtherAligned ==
  ASSUME NEW i \in Instances, Aligned(i), items'[i] = items[i], circle'[i] = circle[i],
         Changing(i)' = Changing(i), \A g \in Changing(i) : job'[g] = job[g]
  PROVE  Aligned(i)'
<1>1. \A k : EntriesOf(i, k)' = EntriesOf(i, k)
  BY DEF EntriesOf
<1>2. \A g \in Changing(i) : Asked(g)' = Asked(g) /\ Point(g)' = Point(g)
  BY DEF Asked, Point
<1>3. \A k : Matches(i, k)' = Matches(i, k)
  BY <1>1 DEF Matches
<1>4. \A g, h \in Changing(i)' : g = h
  BY DEF Aligned
<1>5. \A k \in Keys : (\A h \in Changing(i)' : Point(h)' # k) => Matches(i, k)'
  BY <1>2, <1>3 DEF Aligned
<1>6. \A h \in Changing(i)' : job'[h].pc = "insert" => EntriesOf(i, Point(h))' = {}
  BY <1>1, <1>2 DEF Aligned, EntriesOf
<1>7. \A h \in Changing(i)' : job'[h].pc = "store" =>
        \E j \in DOMAIN items'[i] :
          EntriesOf(i, Point(h))' = {j} /\ items'[i][j] = Asked(h)'.circle
  BY <1>1, <1>2 DEF Aligned, EntriesOf
<1>. QED  BY <1>4, <1>5, <1>6, <1>7 DEF Aligned

\* In a working fence only one handler is changing anything.
LEMMA SoleChanging ==
  ASSUME NEW h \in Handlers, Others(h), NEW i \in Instances, Changing(i) \subseteq {h}
  PROVE  /\ job'[h].pc \in {"insert", "store"} /\ job'[h].ref = i => Changing(i)' = {h}
         /\ job'[h].pc \notin {"insert", "store"} => Changing(i)' = {}
BY DEF Others, Changing, Ref

LEMMA DeleteAligned ==
  ASSUME TypeOK, Referred, NEW h \in Handlers, DeleteEntry(h),
         NEW i \in Instances, Ref(h) = i, NEW k \in Keys, Point(h) = k,
         Working(i) => Aligned(i), Working(i)'
  PROVE  Aligned(i)'
<1>1. /\ i \in Instances /\ Only(h, [job[h] EXCEPT !.pc = "insert"])
      /\ dead \subseteq dead'
      /\ torn' = IF Changing(i) = {} THEN torn ELSE torn \cup {i}
      /\ \/ EntriesOf(i, k) = {} /\ items'[i] = items[i]
         \/ \E j \in EntriesOf(i, k) : items'[i] = SwapOut(items[i], j)
         \/ i \in dead'
  BY DeleteTree
<1>2. Changing(i) = {} /\ Working(i)
  BY <1>1 DEF Working
<1>3. \A m \in Keys : Matches(i, m)
  BY <1>1, <1>2 DEF Aligned
<1>4. /\ Others(h) /\ job'[h].pc = "insert" /\ job'[h].ref = i /\ job'[h].req = Asked(h)
  BY <1>1, GoesOn
<1>5. Changing(i)' = {h}
  BY <1>1, <1>2, <1>4, SoleChanging
<1>6. circle' = circle
  BY DEF DeleteEntry
<1>7. k \in Keys
  BY AskedType, RequestType DEF Point
<1>8. EntriesOf(i, k)' = {} /\ \A m \in Keys : m # k => Matches(i, m)'
  <2>1. CASE EntriesOf(i, k) = {} /\ items'[i] = items[i]
    <3>1. \A m : EntriesOf(i, m)' = EntriesOf(i, m)
      BY <2>1 DEF EntriesOf
    <3>. QED  BY <1>3, <1>6, <2>1, <3>1 DEF Matches
  <2>2. ASSUME NEW j \in EntriesOf(i, k), items'[i] = SwapOut(items[i], j)
        PROVE  EntriesOf(i, k)' = {} /\ \A m \in Keys : m # k => Matches(i, m)'
    <3>. DEFINE s == items[i]
    <3>1. s \in Seq(Circle) /\ j \in 1..Len(s)
      BY <1>1, ItemsType
    <3>2. \A m : EntriesOf(i, m) = Places(s, m) /\ EntriesOf(i, m)' = Places(items'[i], m)
      BY DEF EntriesOf, Places
    <3>3. Places(s, k) = {j}
      BY <1>3, <1>7, <2>2, <3>2 DEF Matches
    <3>4. IsWithout(SwapOut(s, j), s, k)
      BY <3>1, <3>3, SwapOutPlaces
    <3>. HIDE DEF s
    <3>5. ASSUME NEW m \in Keys, m # k
          PROVE  Matches(i, m)'
      <4>1. CASE circle[i][m] = NoCircle
        BY <1>3, <1>6, <2>2, <3>2, <3>4, <4>1 DEF Matches, s, IsWithout
      <4>2. CASE circle[i][m] # NoCircle
        <5>1. PICK x \in DOMAIN s : Places(s, m) = {x} /\ s[x] = circle[i][m]
          BY <1>3, <3>2, <4>2 DEF Matches, s
        <5>2. PICK y \in DOMAIN SwapOut(s, j) :
                Places(SwapOut(s, j), m) = {y} /\ SwapOut(s, j)[y] = s[x]
          BY <3>4, <3>5, <5>1 DEF IsWithout
        <5>. QED  BY <1>6, <2>2, <3>2, <4>2, <5>1, <5>2 DEF Matches, s
      <4>. QED  BY <4>1, <4>2
    <3>6. EntriesOf(i, k)' = {}
      BY <2>2, <3>2, <3>4 DEF s, IsWithout
    <3>. QED  BY <3>5, <3>6
  <2>3. i \notin dead'
    BY DEF Working
  <2>. QED  BY <1>1, <2>1, <2>2, <2>3
<1>9. Point(h)' = k
  BY <1>4 DEF Point, Asked
<1>. QED  BY <1>4, <1>5, <1>8, <1>9 DEF Aligned, EntriesOf

LEMMA InsertAligned ==
  ASSUME TypeOK, Referred, NEW h \in Handlers, InsertEntry(h),
         NEW i \in Instances, Ref(h) = i, NEW k \in Keys, Point(h) = k,
         Working(i) => Aligned(i), Working(i)'
  PROVE  Aligned(i)'
<1>. DEFINE c == Asked(h).circle
<1>1. dead' = dead /\ circle' = circle /\ torn \subseteq torn'
  BY InsertTree DEF InsertEntry
<1>2. i \notin dead' /\ i \notin torn' /\ Working(i)
  BY <1>1 DEF Working
<1>3. items'[i] = Append(items[i], c) /\ Only(h, [job[h] EXCEPT !.pc = "store"])
  BY <1>1, <1>2, InsertTree
<1>4. Others(h) /\ job'[h].pc = "store" /\ job'[h].ref = i /\ job'[h].req = Asked(h)
  BY <1>3, GoesOn
<1>5. h \in Changing(i) /\ job[h].pc = "insert"
  BY DEF Changing, InsertEntry, IsAt
<1>6. Aligned(i) /\ Changing(i) \subseteq {h}
  BY <1>2, <1>5 DEF Aligned
<1>7. Changing(i)' = {h}
  BY <1>4, <1>6, SoleChanging
<1>8. EntriesOf(i, k) = {} /\ \A m \in Keys : m # k => Matches(i, m)
  BY <1>5, <1>6 DEF Aligned
<1>9. \A m : EntriesOf(i, m) = Places(items[i], m) /\ EntriesOf(i, m)' = Places(items'[i], m)
  BY DEF EntriesOf, Places
<1>10. c \in Circle /\ c.key = k /\ items[i] \in Seq(Circle)
  BY AskedType, RequestType, ItemsType DEF Point
<1>11. IsWith(items'[i], items[i], c)
  BY <1>3, <1>10, AppendPlaces
<1>. HIDE DEF c
<1>12. PICK n \in DOMAIN items'[i] :
         /\ items'[i][n] = c /\ Places(items'[i], k) = Places(items[i], k) \cup {n}
         /\ \A m : m # k => Places(items'[i], m) = Places(items[i], m)
         /\ \A x \in DOMAIN items[i] : x \in DOMAIN items'[i] /\ items'[i][x] = items[i][x]
  BY <1>10, <1>11 DEF IsWith
<1>13. EntriesOf(i, k)' = {n}
  BY <1>8, <1>9, <1>12
<1>14. ASSUME NEW m \in Keys, m # k
       PROVE  Matches(i, m)'
  <2>1. EntriesOf(i, m)' = EntriesOf(i, m)
    BY <1>9, <1>12, <1>14
  <2>2. Matches(i, m)
    BY <1>8, <1>14
  <2>. QED  BY <1>1, <1>12, <2>1, <2>2 DEF Matches
<1>15. Point(h)' = k /\ Asked(h)'.circle = c
  BY <1>4 DEF Point, Asked, c
<1>. QED  BY <1>4, <1>7, <1>12, <1>13, <1>14, <1>15 DEF Aligned, EntriesOf

LEMMA StoreAligned ==
  ASSUME TypeOK, Referred, NEW h \in Handlers, StoreCircle(h),
         NEW i \in Instances, Ref(h) = i, NEW k \in Keys, Point(h) = k,
         Working(i) => Aligned(i), Working(i)'
  PROVE  Aligned(i)'
<1>1. /\ Only(h, Idle) /\ Asked(h).circle # NoCircle
      /\ circle'[i][k] = Asked(h).circle
      /\ \A m \in Keys : m # k => circle'[i][m] = circle[i][m]
  BY StoreTree
<1>2. items' = items /\ dead' = dead /\ torn' = torn
  BY DEF StoreCircle
<1>3. Aligned(i)
  BY <1>2 DEF Working
<1>4. h \in Changing(i) /\ job[h].pc = "store"
  BY DEF Changing, StoreCircle, IsAt
<1>5. Changing(i) \subseteq {h}
  BY <1>3, <1>4 DEF Aligned
<1>6. Changing(i)' = {}
  BY <1>1, <1>5, GoesIdle, SoleChanging
<1>7. \A m : EntriesOf(i, m)' = EntriesOf(i, m)
  BY <1>2 DEF EntriesOf
<1>8. Matches(i, k)'
  BY <1>1, <1>2, <1>3, <1>4, <1>7 DEF Aligned, Matches
<1>9. ASSUME NEW m \in Keys, m # k
      PROVE  Matches(i, m)'
  <2>1. Matches(i, m)
    BY <1>3, <1>5, <1>9 DEF Aligned
  <2>. QED  BY <1>1, <1>2, <1>7, <1>9, <2>1 DEF Matches
<1>. QED  BY <1>6, <1>8, <1>9 DEF Aligned

LEMMA RestartAligned ==
  ASSUME Restart, NEW i \in Instances
  PROVE  Aligned(i)'
<1>1. items'[i] = <<>> /\ \A k \in Keys : circle'[i][k] = NoCircle
  BY DEF Restart
<1>2. \A h \in Handlers : job'[h].pc = "idle"
  BY IdleType DEF Restart
<1>3. Changing(i)' = {}
  BY <1>2 DEF Changing
<1>4. \A k \in Keys : Matches(i, k)'
  BY <1>1 DEF Matches, EntriesOf
<1>. QED  BY <1>3, <1>4 DEF Aligned

LEMMA PointType ==
  ASSUME TypeOK, NEW h \in Handlers
  PROVE  Point(h) \in Keys
BY AskedType, RequestType DEF Point

LEMMA AlignedStep ==
  ASSUME TypeOK, Referred, [Next]_vars, NEW i \in Instances,
         Working(i) => Aligned(i), Working(i)'
  PROVE  Aligned(i)'
<1>1. CASE UNCHANGED vars
  <2>1. Working(i) /\ Changing(i)' = Changing(i)
    BY <1>1 DEF vars, index, ghost, Working, Changing, Ref
  <2>. QED  BY <1>1, <2>1, OtherAligned DEF vars, index
<1>2. CASE Restart
  BY <1>2, RestartAligned
<1>3. ASSUME NEW h \in Handlers, Plain(h)
      PROVE  Aligned(i)'
  <2>1. Went(h) /\ Stored
    BY <1>3, PlainStep
  <2>2. Working(i)
    BY <2>1 DEF Stored, Working
  <2>3. h \notin Changing(i) /\ job'[h].pc \notin {"insert", "store"}
    BY <2>1 DEF Went, Changing, IsAt
  <2>. QED  BY <2>1, <2>2, <2>3, OtherChanging, OtherAligned DEF Went, Stored
<1>4. ASSUME NEW h \in Handlers, DeleteEntry(h)
      PROVE  Aligned(i)'
  <2>1. CASE Ref(h) = i
    BY <1>4, <2>1, PointType, DeleteAligned
  <2>2. CASE Ref(h) # i
    <3>1. /\ Others(h) /\ job'[h].ref # i /\ items'[i] = items[i]
          /\ dead \subseteq dead' /\ torn \subseteq torn' /\ circle' = circle
      BY <1>4, <2>2, DeleteTree, GoesOn DEF DeleteEntry
    <3>2. Working(i) /\ h \notin Changing(i)
      BY <2>2, <3>1 DEF Working, Changing
    <3>. QED  BY <3>1, <3>2, OtherChanging, OtherAligned
  <2>. QED  BY <2>1, <2>2
<1>5. ASSUME NEW h \in Handlers, InsertEntry(h)
      PROVE  Aligned(i)'
  <2>1. CASE Ref(h) = i
    BY <1>5, <2>1, PointType, InsertAligned
  <2>2. CASE Ref(h) # i
    <3>1. /\ items'[i] = items[i] /\ torn \subseteq torn' /\ dead' = dead /\ circle' = circle
          /\ Only(h, Idle) \/ Only(h, [job[h] EXCEPT !.pc = "store"])
      BY <1>5, <2>2, InsertTree DEF InsertEntry
    <3>2. /\ Others(h)
          /\ job'[h].pc = "idle" \/ (job'[h].pc = "store" /\ job'[h].ref = Ref(h))
      BY <3>1, GoesOn, GoesIdle
    <3>3. Working(i) /\ h \notin Changing(i)
      BY <2>2, <3>1 DEF Working, Changing
    <3>. QED  BY <2>2, <3>1, <3>2, <3>3, OtherChanging, OtherAligned
  <2>. QED  BY <2>1, <2>2
<1>6. ASSUME NEW h \in Handlers, LoseEntry(h)
      PROVE  Aligned(i)'
  <2>1. /\ Only(h, [job[h] EXCEPT !.pc = "store"])
        /\ \E g \in Handlers : g # h /\ g \in Changing(Ref(h))
    BY <1>6, LoseTree
  <2>2. /\ items' = items /\ dead' = dead /\ torn' = torn /\ circle' = circle
        /\ h \in Changing(Ref(h))
    BY <1>6 DEF LoseEntry, index, ghost, IsAt, Changing
  <2>3. Working(i) /\ Aligned(i)
    BY <2>2 DEF Working
  <2>4. Ref(h) # i
    BY <2>1, <2>2, <2>3 DEF Aligned
  <2>5. Others(h) /\ job'[h].ref # i /\ h \notin Changing(i)
    BY <2>1, <2>4, GoesOn DEF Changing
  <2>. QED  BY <2>2, <2>3, <2>5, OtherChanging, OtherAligned
<1>7. ASSUME NEW h \in Handlers, StoreCircle(h)
      PROVE  Aligned(i)'
  <2>1. CASE Ref(h) = i
    BY <1>7, <2>1, PointType, StoreAligned
  <2>2. CASE Ref(h) # i
    <3>1. /\ Others(h) /\ job'[h].pc = "idle"
          /\ \A k \in Keys : circle'[i][k] = circle[i][k]
          /\ circle' \in [Instances -> [Keys -> Circle \cup {NoCircle}]]
      BY <1>7, <2>2, StoreTree, GoesIdle
    <3>2. items' = items /\ dead' = dead /\ torn' = torn
      BY <1>7 DEF StoreCircle
    <3>3. circle'[i] = circle[i]
      BY <3>1 DEF TypeOK
    <3>4. Working(i) /\ h \notin Changing(i)
      BY <2>2, <3>2 DEF Working, Changing
    <3>. QED  BY <3>1, <3>2, <3>3, <3>4, OtherChanging, OtherAligned
  <2>. QED  BY <2>1, <2>2
<1>8. ASSUME NEW h \in Handlers, SearchStep(h)
      PROVE  Aligned(i)'
  <2>1. UNCHANGED <<items, dead, torn, circle>> /\ h \notin Changing(i)
    BY <1>8 DEF SearchStep, PutQueryPoint, FindNearest, Report, index, IsAt, Changing
  <2>2. Others(h) /\ job'[h].pc \in {"near", "report", "idle"}
    <3>1. CASE PutQueryPoint(h)
      BY <3>1, PutSearch, GoesOn
    <3>2. CASE FindNearest(h)
      BY <3>2, NearSearch, GoesNear
    <3>3. CASE Report(h)
      BY <3>3, ReportSearch, GoesIdle
    <3>. QED  BY <1>8, <3>1, <3>2, <3>3 DEF SearchStep
  <2>3. Working(i)
    BY <2>1 DEF Working
  <2>. QED  BY <2>1, <2>2, <2>3, OtherChanging, OtherAligned
<1>. QED
  BY <1>1, <1>2, <1>3, <1>4, <1>5, <1>6, <1>7, <1>8, NextCases DEF TreeStep

-----------------------------------------------------------------------------
(* What a search finds and reports *)

\* A search that may look at all entries of an aligned tree finds all circles.
LEMMA NearAll ==
  ASSUME TypeOK, NEW i \in Instances, Aligned(i), Changing(i) = {},
         Len(items[i]) <= NearestK, NEW p, NEW N \in Nearest(i, p)
  PROVE  {items[i][j].key : j \in N} = {k \in Keys : circle[i][k] # NoCircle}
<1>1. /\ items[i] \in Seq(Circle) /\ Len(items[i]) \in Nat
      /\ DOMAIN items[i] = 1..Len(items[i])
      /\ \A j \in DOMAIN items[i] : items[i][j].key \in Keys
  BY ItemsType
<1>2. NearestK \in Nat
  BY GeofenceAssumption
<1>3. /\ N \subseteq DOMAIN items[i]
      /\ Cardinality(N) = IF Len(items[i]) < NearestK THEN Len(items[i]) ELSE NearestK
  BY DEF Nearest
<1>4. Cardinality(N) = Len(items[i])
  BY <1>1, <1>2, <1>3
<1>5. IsFiniteSet(1..Len(items[i])) /\ Cardinality(1..Len(items[i])) = Len(items[i])
  BY <1>1, FS_Interval
<1>6. N = DOMAIN items[i]
  BY <1>1, <1>3, <1>4, <1>5, FS_Subset
<1>7. \A k \in Keys : Matches(i, k)
  BY DEF Aligned
<1>8. \A k \in Keys : circle[i][k] # NoCircle <=> EntriesOf(i, k) # {}
  BY <1>7 DEF Matches
<1>. QED  BY <1>1, <1>6, <1>8 DEF EntriesOf

LEMMA EnterExit ==
  ASSUME NEW c, NEW p, NEW q
  PROVE  /\ "ENTER" \in Statuses(c, p, q) <=>
              Contains(c, q) /\ ~(p # Unknown /\ Contains(c, p))
         /\ "EXIT" \in Statuses(c, p, q) <=>
              p # Unknown /\ Contains(c, p) /\ ~Contains(c, q)
BY DEF Statuses

\* Told what it was inside of, one knows after the report what it is inside of.
LEMMA ReportExact ==
  ASSUME NEW h \in Handlers, Asked(h).at # Unknown,
         job[h].near = {k \in Keys : circle[Ref(h)][k] # NoCircle}
  PROVE  (Inside(Ref(h), job[h].old) \cup Reported(h, "ENTER")) \ Reported(h, "EXIT")
           = Inside(Ref(h), Asked(h).at)
<1>. DEFINE c(k) == circle[Ref(h)][k]
            p == job[h].old
            q == Asked(h).at
            known == {k \in Keys : c(k) # NoCircle}
<1>1. Inside(Ref(h), p) = {k \in known : p # Unknown /\ Contains(c(k), p)}
  BY DEF Inside
<1>2. Inside(Ref(h), q) = {k \in known : Contains(c(k), q)}
  BY DEF Inside
<1>3. Reported(h, "ENTER") = {k \in known : "ENTER" \in Statuses(c(k), p, q)}
  BY DEF Reported
<1>4. Reported(h, "EXIT") = {k \in known : "EXIT" \in Statuses(c(k), p, q)}
  BY DEF Reported
<1>. HIDE DEF c, p, q, known
<1>5. Reported(h, "ENTER") =
        {k \in known : Contains(c(k), q) /\ ~(p # Unknown /\ Contains(c(k), p))}
  BY <1>3, EnterExit
<1>6. Reported(h, "EXIT") =
        {k \in known : p # Unknown /\ Contains(c(k), p) /\ ~Contains(c(k), q)}
  BY <1>4, EnterExit
<1>7. (Inside(Ref(h), p) \cup Reported(h, "ENTER")) \ Reported(h, "EXIT") = Inside(Ref(h), q)
  BY <1>1, <1>2, <1>5, <1>6
<1>. QED  BY <1>7 DEF p, q

-----------------------------------------------------------------------------
(* The position a search has read *)

LEMMA OtherFresh ==
  ASSUME Fresh, NEW h \in Handlers, Others(h), missed \subseteq missed',
         \A g \in Handlers \ {h} : IsAt(g, "search", "put") =>
           \/ pos'[Asked(g).q] = pos[Asked(g).q]
           \/ {Asked(g).q} \X Instances \subseteq missed',
         job'[h].pc = "put" /\ job'[h].req.op = "search" =>
           \/ job'[h].old = pos'[job'[h].req.q]
           \/ {job'[h].req.q} \X Instances \subseteq missed'
  PROVE  Fresh'
<1>. SUFFICES ASSUME NEW g \in Handlers, IsAt(g, "search", "put")'
              PROVE  \/ job'[g].old = pos'[job'[g].req.q]
                     \/ {job'[g].req.q} \X Instances \subseteq missed'
  BY DEF Fresh, Asked
<1>1. CASE g = h
  BY <1>1 DEF IsAt, Asked
<1>2. CASE g # h
  <2>1. job'[g] = job[g] /\ IsAt(g, "search", "put")
    BY <1>2 DEF Others, IsAt, Asked
  <2>2. job[g].old = pos[Asked(g).q] \/ {Asked(g).q} \X Instances \subseteq missed
    BY <2>1 DEF Fresh
  <2>. QED  BY <1>2, <2>1, <2>2 DEF Asked
<1>. QED  BY <1>1, <1>2

LEMMA FreshStep ==
  ASSUME TypeOK, Referred, Fresh, [Next]_vars
  PROVE  Fresh'
<1>1. CASE UNCHANGED vars
  BY <1>1 DEF vars, ghost, Fresh, IsAt, Asked
<1>2. CASE Restart
  <2>1. \A h \in Handlers : job'[h].pc = "idle"
    BY <1>2, IdleType DEF Restart
  <2>. QED  BY <2>1 DEF Fresh, IsAt
<1>3. ASSUME NEW h \in Handlers, Plain(h)
      PROVE  Fresh'
  <2>1. Went(h) /\ Stored
    BY <1>3, PlainStep
  <2>2. \A g \in Handlers : Asked(g).q \in QueryPoints
    BY AskedType, RequestType
  <2>3. job'[h].req.q \in QueryPoints
    <3>1. job'[h].req \in Requests
      BY <2>1 DEF Went, Job
    <3>. QED  BY <3>1, RequestType
  <2>4. job'[h].pc = "put" /\ job'[h].req.op = "search" => job'[h].old = pos[job'[h].req.q]
    BY <2>1 DEF Went
  <2>. QED  BY <2>1, <2>2, <2>3, <2>4, OtherFresh DEF Went, Stored
<1>4. ASSUME NEW h \in Handlers, TreeStep(h)
      PROVE  Fresh'
  <2>1. Others(h) /\ job'[h].pc \in {"insert", "store", "idle"}
    <3>1. CASE DeleteEntry(h)
      BY <3>1, DeleteTree, GoesOn
    <3>2. CASE InsertEntry(h)
      BY <3>2, InsertTree, GoesOn, GoesIdle
    <3>3. CASE LoseEntry(h)
      BY <3>3, LoseTree, GoesOn
    <3>4. CASE StoreCircle(h)
      BY <3>4, StoreTree, GoesIdle
    <3>. QED  BY <1>4, <3>1, <3>2, <3>3, <3>4 DEF TreeStep
  <2>2. pos' = pos /\ missed \subseteq missed'
    BY <1>4 DEF TreeStep, DeleteEntry, InsertEntry, LoseEntry, StoreCircle, ghost
  <2>. QED  BY <2>1, <2>2, OtherFresh
<1>5. ASSUME NEW h \in Handlers, PutQueryPoint(h)
      PROVE  Fresh'
  <2>1. /\ Others(h) /\ job'[h].pc = "near" /\ missed \subseteq missed'
        /\ \A q \in QueryPoints : q # Asked(h).q => pos'[q] = pos[q]
        /\ Searching(Asked(h).q) # {h} => {Asked(h).q} \X Instances \subseteq missed'
    BY <1>5, PutSearch, GoesOn, ZenonT(60)
  <2>2. ASSUME NEW g \in Handlers \ {h}, IsAt(g, "search", "put")
        PROVE  \/ pos'[Asked(g).q] = pos[Asked(g).q]
               \/ {Asked(g).q} \X Instances \subseteq missed'
    <3>1. Asked(g).q \in QueryPoints
      BY AskedType, RequestType
    <3>2. CASE Asked(g).q = Asked(h).q
      <4>1. g \in Searching(Asked(h).q)
        BY <2>2, <3>2 DEF Searching, IsAt
      <4>. QED  BY <2>1, <3>2, <4>1
    <3>. QED  BY <2>1, <3>1, <3>2
  <2>. QED  BY <2>1, <2>2, OtherFresh
<1>6. ASSUME NEW h \in Handlers, FindNearest(h) \/ Report(h)
      PROVE  Fresh'
  <2>1. Others(h) /\ job'[h].pc \in {"report", "idle"}
    <3>1. CASE FindNearest(h)
      BY <3>1, NearSearch, GoesNear
    <3>2. CASE Report(h)
      BY <3>2, ReportSearch, GoesIdle
    <3>. QED  BY <1>6, <3>1, <3>2
  <2>2. pos' = pos /\ missed \subseteq missed'
    BY <1>6, NearSearch DEF FindNearest, Report
  <2>. QED  BY <2>1, <2>2, OtherFresh
<1>. QED
  BY <1>1, <1>2, <1>3, <1>4, <1>5, <1>6, NextCases DEF SearchStep

-----------------------------------------------------------------------------
(* What a follower of the reports knows *)

\* A step that moves neither the point nor a circle, by no search of the point.
LEMMA FollowsKept ==
  ASSUME NEW q \in QueryPoints, NEW i \in Instances, Follows(q, i),
         NEW h \in Handlers, Others(h), ~Moving(h, q),
         ~(job'[h].req.q = q /\ job'[h].pc \in {"near", "report"}),
         circle'[i] = circle[i], pos'[q] = pos[q], told'[q, i] = told[q, i],
         Changing(i) # {} => Changing(i)' # {}
  PROVE  Follows(q, i)'
<1>1. \A p : Inside(i, p)' = Inside(i, p)
  BY DEF Inside
<1>2. \A g \in Handlers : Moving(g, q)' <=> Moving(g, q)
  BY DEF Moving, Others, Asked
<1>3. \A g \in Handlers : Moving(g, q) => job'[g] = job[g]
  BY DEF Others
<1>4. CASE Changing(i) # {} /\ pos[q] # Unknown
  BY <1>4 DEF Follows
<1>5. ASSUME NEW g \in Handlers, Mover(g, q, i)
      PROVE  Mover(g, q, i)'
  <2>1. job'[g] = job[g]
    BY <1>3, <1>5 DEF Mover
  <2>2. Inside(i, job[g].old)' = Inside(i, job[g].old)
    BY <2>1 DEF Inside
  <2>. QED  BY <1>2, <1>5, <2>1, <2>2 DEF Mover, Ref, Asked
<1>6. CASE (\A g \in Handlers : ~Moving(g, q)) /\ told[q, i] = Inside(i, pos[q])
  <2>1. Inside(i, pos[q])' = Inside(i, pos[q])
    BY DEF Inside
  <2>. QED  BY <1>2, <1>6, <2>1 DEF Follows
<1>. QED  BY <1>4, <1>5, <1>6 DEF Follows

\* While another request changes a fence and the point is known, a report may miss.
LEMMA FollowsChanging ==
  ASSUME NEW q \in QueryPoints, NEW i \in Instances,
         Changing(i)' # {}, pos'[q] # Unknown
  PROVE  Follows(q, i)'
BY DEF Follows

LEMMA StoreFollows ==
  ASSUME TypeOK, Referred, NEW h \in Handlers, StoreCircle(h),
         NEW q \in QueryPoints, NEW i \in Instances, Ref(h) = i,
         Follows(q, i), <<q, i>> \notin missed'
  PROVE  Follows(q, i)'
<1>1. Others(h) /\ job'[h].pc = "idle" /\ (pos[q] # Unknown => <<q, i>> \in missed')
  BY StoreTree, GoesIdle
<1>2. pos[q] = Unknown /\ pos' = pos /\ told' = told
  BY <1>1 DEF StoreCircle
<1>3. \A g \in Handlers : ~Mover(g, q, i)
  BY <1>2, AskedType, RequestType DEF Mover
<1>4. (\A g \in Handlers : ~Moving(g, q)) /\ told[q, i] = Inside(i, pos[q])
  BY <1>2, <1>3 DEF Follows
<1>5. \A g \in Handlers : ~Moving(g, q)'
  BY <1>1, <1>4 DEF Moving, Others, Asked
<1>6. Inside(i, pos[q]) = {} /\ Inside(i, pos[q])' = {}
  BY <1>2 DEF Inside
<1>. QED  BY <1>2, <1>4, <1>5, <1>6 DEF Follows

LEMMA PutFollows ==
  ASSUME TypeOK, Referred, Fresh, NEW h \in Handlers, PutQueryPoint(h),
         NEW q \in QueryPoints, NEW i \in Instances, Asked(h).q = q,
         Follows(q, i), <<q, i>> \notin missed, <<q, i>> \notin missed'
  PROVE  Follows(q, i)'
<1>1. /\ Others(h) /\ job'[h].pc = "near" /\ job'[h].req = Asked(h)
      /\ job'[h].ref = Ref(h) /\ job'[h].old = job[h].old
      /\ pos'[q] = Asked(h).at /\ Asked(h).at # Unknown
  BY PutSearch, GoesOn, ZenonT(60)
<1>2. Searching(q) = {h} /\ Ref(h) = i
  BY PutSearch
<1>3. UNCHANGED <<items, circle, told>> /\ IsAt(h, "search", "put")
  BY DEF PutQueryPoint, index
<1>4. \A g \in Handlers : ~Moving(g, q)
  <2>1. \A g \in Handlers : Moving(g, q) => g \in Searching(q)
    BY DEF Moving, Searching
  <2>2. ~Moving(h, q)
    BY <1>3 DEF Moving, IsAt
  <2>. QED  BY <1>2, <2>1, <2>2
<1>5. Changing(i)' = Changing(i)
  BY <1>1, <1>3, OtherChanging DEF Changing, IsAt
<1>6. CASE Changing(i) # {}
  BY <1>1, <1>5, <1>6, FollowsChanging
<1>7. CASE Changing(i) = {}
  <2>1. told[q, i] = Inside(i, pos[q])
    BY <1>4, <1>7 DEF Follows, Mover
  <2>2. job[h].old = pos[q]
    <3>1. ~({q} \X Instances \subseteq missed)
      OBVIOUS
    <3>. QED  BY <1>3, <3>1 DEF Fresh
  <2>3. Inside(i, job[h].old)' = told'[q, i]
    BY <1>1, <1>3, <2>1, <2>2 DEF Inside
  <2>4. Moving(h, q)' /\ \A g \in Handlers : Moving(g, q)' => g = h
    BY <1>1, <1>3, <1>4 DEF Moving, Others, Asked, IsAt
  <2>5. Mover(h, q, i)'
    BY <1>1, <1>2, <2>3, <2>4 DEF Mover, Ref, Asked
  <2>. QED  BY <2>5 DEF Follows
<1>. QED  BY <1>6, <1>7

\* A search that goes on with what is followed is the only one.
LEMMA OnlyMover ==
  ASSUME NEW q \in QueryPoints, NEW i \in Instances, Follows(q, i),
         Changing(i) = {}, NEW h \in Handlers, Moving(h, q)
  PROVE  Mover(h, q, i)
BY DEF Follows, Mover

LEMMA FindFollows ==
  ASSUME TypeOK, Referred, NEW h \in Handlers, FindNearest(h),
         NEW q \in QueryPoints, NEW i \in Instances, Asked(h).q = q,
         Aligned(i), Follows(q, i), <<q, i>> \notin missed'
  PROVE  Follows(q, i)'
<1>1. PICK N \in Nearest(Ref(h), Asked(h).at) :
        Only(h, [job[h] EXCEPT !.pc = "report", !.near = {items[Ref(h)][j].key : j \in N}])
  BY NearSearch
<1>2. /\ Others(h) /\ job'[h].pc = "report" /\ job'[h].req = Asked(h)
      /\ job'[h].ref = Ref(h) /\ job'[h].old = job[h].old
      /\ job'[h].near = {items[Ref(h)][j].key : j \in N}
  BY <1>1, GoesNear
<1>3. UNCHANGED <<items, circle, pos, told>> /\ IsAt(h, "search", "near")
  BY DEF FindNearest, index
<1>4. Changing(i)' = Changing(i)
  BY <1>2, <1>3, OtherChanging DEF Changing, IsAt
<1>5. Moving(h, q)
  BY <1>3 DEF Moving, IsAt
<1>6. CASE Changing(i) # {}
  <2>1. pos[q] # Unknown
    <3>1. ASSUME NEW g \in Handlers, Mover(g, q, i)
          PROVE  pos[q] # Unknown
      BY <3>1, AskedType, RequestType DEF Mover
    <3>. QED  BY <1>5, <3>1 DEF Follows
  <2>. QED  BY <1>3, <1>4, <1>6, <2>1, FollowsChanging
<1>7. CASE Changing(i) = {}
  <2>1. Mover(h, q, i)
    BY <1>5, <1>7, OnlyMover
  <2>2. Ref(h) = i
    BY <2>1 DEF Mover
  <2>3. Len(items[i]) <= NearestK
    <3>1. ~(Len(items[i]) > NearestK)
      BY <2>2, NearSearch
    <3>2. Len(items[i]) \in Nat /\ NearestK \in Nat
      BY ItemsType, GeofenceAssumption
    <3>. QED  BY <3>1, <3>2
  <2>4. job'[h].near = {k \in Keys : circle[i][k] # NoCircle}
    BY <1>2, <1>7, <2>2, <2>3, NearAll
  <2>5. Inside(i, job[h].old)' = Inside(i, job[h].old)
    BY <1>2, <1>3 DEF Inside
  <2>6. Moving(h, q)' /\ \A g \in Handlers : Moving(g, q)' => g = h
    BY <1>2, <1>3, <2>1 DEF Mover, Moving, Others, Asked, IsAt
  <2>7. Mover(h, q, i)'
    BY <1>2, <1>3, <2>1, <2>2, <2>4, <2>5, <2>6 DEF Mover, Ref, Asked
  <2>. QED  BY <2>7 DEF Follows
<1>. QED  BY <1>6, <1>7

LEMMA ReportFollows ==
  ASSUME TypeOK, Referred, NEW h \in Handlers, Report(h),
         NEW q \in QueryPoints, NEW i \in Instances, Asked(h).q = q, Follows(q, i)
  PROVE  Follows(q, i)'
<1>1. /\ Others(h) /\ job'[h].pc = "idle"
      /\ told'[q, Ref(h)] = (told[q, Ref(h)] \cup Reported(h, "ENTER")) \ Reported(h, "EXIT")
  BY ReportSearch, GoesIdle
<1>2. UNCHANGED <<items, circle, pos>> /\ IsAt(h, "search", "report")
  BY DEF Report, index
<1>3. Changing(i)' = Changing(i)
  BY <1>1, <1>2, OtherChanging DEF Changing, IsAt
<1>4. Moving(h, q)
  BY <1>2 DEF Moving, IsAt
<1>5. CASE Changing(i) # {}
  <2>1. pos[q] # Unknown
    <3>1. ASSUME NEW g \in Handlers, Mover(g, q, i)
          PROVE  pos[q] # Unknown
      BY <3>1, AskedType, RequestType DEF Mover
    <3>. QED  BY <1>4, <3>1 DEF Follows
  <2>. QED  BY <1>2, <1>3, <1>5, <2>1, FollowsChanging
<1>6. CASE Changing(i) = {}
  <2>1. Mover(h, q, i)
    BY <1>4, <1>6, OnlyMover
  <2>2. /\ Ref(h) = i /\ pos[q] = Asked(h).at /\ Asked(h).at # Unknown
        /\ told[q, i] = Inside(i, job[h].old)
        /\ job[h].near = {k \in Keys : circle[i][k] # NoCircle}
    BY <1>2, <2>1, AskedType, RequestType DEF Mover, IsAt
  <2>3. told'[q, i] = Inside(i, pos[q])
    BY <1>1, <2>2, ReportExact
  <2>4. \A g \in Handlers : ~Moving(g, q)'
    BY <1>1, <2>1 DEF Mover, Moving, Others, Asked
  <2>5. Inside(i, pos[q])' = Inside(i, pos[q])
    BY <1>2 DEF Inside
  <2>. QED  BY <2>3, <2>4, <2>5 DEF Follows
<1>. QED  BY <1>5, <1>6

LEMMA RestartFollows ==
  ASSUME Restart, NEW q \in QueryPoints, NEW i \in Instances
  PROVE  Follows(q, i)'
<1>1. \A h \in Handlers : job'[h].pc = "idle"
  BY IdleType DEF Restart
<1>2. told'[q, i] = {} /\ \A k \in Keys : circle'[i][k] = NoCircle
  BY DEF Restart, Empty
<1>3. Inside(i, pos[q])' = {}
  BY <1>2 DEF Inside
<1>. QED  BY <1>1, <1>2, <1>3 DEF Follows, Moving

LEMMA FollowsStep ==
  ASSUME TypeOK, Referred, Fresh, [Next]_vars,
         NEW q \in QueryPoints, NEW i \in Instances, Working(i) => Aligned(i),
         Working(i) /\ <<q, i>> \notin missed => Follows(q, i),
         Working(i)', <<q, i>> \notin missed'
  PROVE  Follows(q, i)'
<1>1. CASE UNCHANGED vars
  <2>1. Follows(q, i)
    BY <1>1 DEF vars, index, ghost, Working
  <2>2. /\ Changing(i)' = Changing(i)
        /\ \A p : Inside(i, p)' = Inside(i, p)
        /\ \A g \in Handlers : Moving(g, q)' <=> Moving(g, q)
    BY <1>1 DEF vars, index, Changing, Inside, Moving, Ref, Asked
  <2>3. ASSUME NEW g \in Handlers, Mover(g, q, i)
        PROVE  Mover(g, q, i)'
    <3>1. Inside(i, job[g].old)' = Inside(i, job[g].old)
      BY <1>1 DEF vars, index, Inside
    <3>. QED  BY <1>1, <2>2, <2>3, <3>1 DEF vars, index, ghost, Mover, Ref, Asked
  <2>4. Inside(i, pos[q])' = Inside(i, pos[q])
    BY <1>1 DEF vars, index, Inside
  <2>. QED  BY <1>1, <2>1, <2>2, <2>3, <2>4 DEF vars, ghost, Follows
<1>2. CASE Restart
  BY <1>2, RestartFollows
<1>3. ASSUME NEW h \in Handlers, Plain(h)
      PROVE  Follows(q, i)'
  <2>1. Went(h) /\ Stored
    BY <1>3, PlainStep
  <2>2. Follows(q, i)
    BY <2>1 DEF Stored, Working
  <2>3. pos'[q] = pos[q]
    BY <2>1 DEF Stored
  <2>4. /\ ~Moving(h, q) /\ job'[h].pc \notin {"near", "report"}
        /\ h \notin Changing(i) /\ job'[h].pc \notin {"insert", "store"}
    BY <2>1 DEF Went, Moving, Changing, IsAt
  <2>5. Changing(i)' = Changing(i)
    BY <2>1, <2>4, OtherChanging DEF Went
  <2>. QED  BY <2>1, <2>2, <2>3, <2>4, <2>5, FollowsKept DEF Went, Stored
<1>4. ASSUME NEW h \in Handlers, DeleteEntry(h) \/ InsertEntry(h) \/ LoseEntry(h)
      PROVE  Follows(q, i)'
  <2>1. /\ dead \subseteq dead' /\ torn \subseteq torn'
        /\ UNCHANGED <<circle, pos, told, missed>>
        /\ job[h].pc \in {"delete", "insert"}
    BY <1>4, DeleteTree, InsertTree DEF DeleteEntry, InsertEntry, LoseEntry, index, ghost, IsAt
  <2>2. Follows(q, i)
    BY <2>1 DEF Working
  <2>3. /\ Others(h)
        /\ \/ job'[h].pc \in {"insert", "store"} /\ job'[h].ref = Ref(h)
           \/ job'[h].pc = "idle" /\ Ref(h) \in dead \cup torn'
    <3>1. CASE DeleteEntry(h)
      BY <3>1, DeleteTree, GoesOn
    <3>2. CASE InsertEntry(h)
      BY <3>2, InsertTree, GoesOn, GoesIdle
    <3>3. CASE LoseEntry(h)
      BY <3>3, LoseTree, GoesOn
    <3>. QED  BY <1>4, <3>1, <3>2, <3>3
  <2>4. Changing(i) # {} => Changing(i)' # {}
    <3>1. CASE Ref(h) = i
      <4>1. h \in Changing(i)'
        BY <2>1, <2>3, <3>1 DEF Working, Changing, Ref
      <4>. QED  BY <4>1
    <3>2. CASE Ref(h) # i
      BY <2>3, <3>2 DEF Changing, Others, Ref
    <3>. QED  BY <3>1, <3>2
  <2>5. ~Moving(h, q) /\ job'[h].pc \notin {"near", "report"}
    BY <2>1, <2>3 DEF Moving
  <2>. QED  BY <2>1, <2>2, <2>3, <2>4, <2>5, FollowsKept
<1>5. ASSUME NEW h \in Handlers, StoreCircle(h)
      PROVE  Follows(q, i)'
  <2>1. UNCHANGED <<items, dead, torn, pos, told>> /\ IsAt(h, "addPoint", "store")
    BY <1>5 DEF StoreCircle
  <2>2. Others(h) /\ job'[h].pc = "idle" /\ missed \subseteq missed'
    BY <1>5, StoreTree, GoesIdle
  <2>3. Follows(q, i)
    BY <2>1, <2>2 DEF Working
  <2>4. CASE Ref(h) = i
    BY <1>5, <2>3, <2>4, StoreFollows
  <2>5. CASE Ref(h) # i
    <3>1. /\ circle' \in [Instances -> [Keys -> Circle \cup {NoCircle}]]
          /\ \A k \in Keys : circle'[i][k] = circle[i][k]
      BY <1>5, <2>5, StoreTree
    <3>2. circle'[i] = circle[i]
      BY <3>1 DEF TypeOK
    <3>3. Changing(i)' = Changing(i)
      BY <2>2, <2>5, OtherChanging DEF Changing
    <3>4. ~Moving(h, q)
      BY <2>1 DEF Moving, IsAt
    <3>. QED  BY <2>1, <2>2, <2>3, <3>2, <3>3, <3>4, FollowsKept
  <2>. QED  BY <2>4, <2>5
<1>6. ASSUME NEW h \in Handlers, SearchStep(h)
      PROVE  Follows(q, i)'
  <2>1. UNCHANGED <<items, dead, torn, circle>> /\ h \notin Changing(i)
    BY <1>6 DEF SearchStep, PutQueryPoint, FindNearest, Report, index, IsAt, Changing
  <2>2. /\ Others(h) /\ job'[h].pc \in {"near", "report", "idle"}
        /\ job'[h].pc # "idle" => job'[h].req = Asked(h)
        /\ missed \subseteq missed'
        /\ \A p \in QueryPoints : p # Asked(h).q => pos'[p] = pos[p] /\ told'[p, i] = told[p, i]
    <3>1. CASE PutQueryPoint(h)
      <4>1. told' = told
        BY <3>1 DEF PutQueryPoint
      <4>2. \A p \in QueryPoints : p # Asked(h).q => pos'[p] = pos[p]
        BY <3>1, PutSearch
      <4>3. Only(h, [job[h] EXCEPT !.pc = "near"]) /\ missed \subseteq missed'
        BY <3>1, PutSearch
      <4>4. Others(h) /\ job'[h].pc = "near" /\ job'[h].req = Asked(h)
        BY <4>3, GoesOn
      <4>. QED  BY <4>1, <4>2, <4>3, <4>4
    <3>2. CASE FindNearest(h)
      BY <3>2, NearSearch, GoesNear DEF FindNearest
    <3>3. CASE Report(h)
      BY <3>3, ReportSearch, GoesIdle DEF Report
    <3>. QED  BY <1>6, <3>1, <3>2, <3>3 DEF SearchStep
  <2>3. Working(i) /\ Follows(q, i) /\ <<q, i>> \notin missed
    BY <2>1, <2>2 DEF Working
  <2>4. CASE Asked(h).q = q
    BY <1>6, <2>3, <2>4, PutFollows, FindFollows, ReportFollows DEF SearchStep
  <2>5. CASE Asked(h).q # q
    <3>1. Changing(i)' = Changing(i)
      BY <2>1, <2>2, OtherChanging
    <3>2. ~Moving(h, q) /\ ~(job'[h].req.q = q /\ job'[h].pc \in {"near", "report"})
      BY <2>2, <2>5 DEF Moving
    <3>. QED  BY <2>1, <2>2, <2>3, <2>5, <3>1, <3>2, FollowsKept
  <2>. QED  BY <2>4, <2>5
<1>. QED
  BY <1>1, <1>2, <1>3, <1>4, <1>5, <1>6, NextCases DEF TreeStep

-----------------------------------------------------------------------------
(* The theorems *)

LEMMA InitInv == Init => IInv
<1>. SUFFICES ASSUME Init PROVE IInv
  OBVIOUS
<1>1. TypeOK /\ Referred
  BY InitType
<1>2. \A h \in Handlers : job[h].pc = "idle"
  BY IdleType DEF Init
<1>3. Fresh
  BY <1>2 DEF Fresh, IsAt
<1>4. ASSUME NEW i \in Instances
      PROVE  Aligned(i)
  <2>1. items[i] = <<>> /\ \A k \in Keys : circle[i][k] = NoCircle
    BY DEF Init
  <2>2. Changing(i) = {}
    BY <1>2 DEF Changing
  <2>3. \A k \in Keys : Matches(i, k)
    BY <2>1 DEF Matches, EntriesOf
  <2>. QED  BY <2>2, <2>3 DEF Aligned
<1>5. ASSUME NEW q \in QueryPoints, NEW i \in Instances
      PROVE  Follows(q, i)
  <2>1. told[q, i] = {} /\ Inside(i, pos[q]) = {}
    BY DEF Init, Empty, Inside
  <2>. QED  BY <1>2, <2>1 DEF Follows, Moving
<1>. QED  BY <1>1, <1>3, <1>4, <1>5 DEF IInv

LEMMA NextInv == IInv /\ [Next]_vars => IInv'
<1>. SUFFICES ASSUME IInv, [Next]_vars PROVE IInv'
  OBVIOUS
<1>1. TypeOK /\ Referred /\ Fresh
  BY DEF IInv
<1>2. TypeOK' /\ Referred'
  BY <1>1, TypeStep
<1>3. Fresh'
  BY <1>1, FreshStep
<1>4. ASSUME NEW i \in Instances, Working(i)'
      PROVE  Aligned(i)'
  BY <1>1, <1>4, AlignedStep DEF IInv
<1>5. ASSUME NEW q \in QueryPoints, NEW i \in Instances,
             Working(i)', <<q, i>> \notin missed'
      PROVE  Follows(q, i)'
  BY <1>1, <1>5, FollowsStep DEF IInv
<1>. QED  BY <1>2, <1>3, <1>4, <1>5 DEF IInv

LEMMA AlwaysInv == Spec => []IInv
BY InitInv, NextInv, PTL DEF Spec

\* Between the requests that change a fence its R-tree and its map of circles agree
\* (RtreeFence.Add).
THEOREM TreesMatchMaps == Spec => []TreeMatchesMap
<1>1. IInv => TreeMatchesMap
  <2>. SUFFICES ASSUME IInv, NEW i \in Instances, Working(i), Changing(i) = {},
                       NEW k \in Keys
                PROVE  Matches(i, k)
    BY DEF TreeMatchesMap, Matches
  <2>. QED  BY DEF IInv, Aligned
<1>. QED  BY <1>1, AlwaysInv, PTL

\* The ENTER and EXIT reports of one search after the other add up to where the
\* point is (FenceIndex.Search).
THEOREM ReportsFollowed == Spec => []FollowedReports
<1>1. IInv => FollowedReports
  <2>. SUFFICES ASSUME IInv, NEW q \in QueryPoints, NEW i \in Instances,
                       Working(i), Searching(q) = {}, Changing(i) = {},
                       <<q, i>> \notin missed
                PROVE  told[q, i] = Inside(i, pos[q])
    BY DEF FollowedReports, Inside
  <2>1. \A h \in Handlers : ~Moving(h, q)
    BY DEF Moving, Searching
  <2>2. Follows(q, i)
    BY DEF IInv
  <2>. QED  BY <2>1, <2>2 DEF Follows, Mover
<1>. QED  BY <1>1, AlwaysInv, PTL

\* A search of an unchanged fence with few enough points misses no circle around
\* the position it was given (RtreeFence.Get).
THEOREM ContainingReached == Spec => ContainingFound
<1>. DEFINE Found ==
       \A h \in Handlers, k \in Keys :
         LET i == Ref(h)
             unchanged == Working(i) /\ Changing(i) = {}
             around    == circle[i][k] # NoCircle /\ Contains(circle[i][k], Asked(h).at)
         IN  job[h].pc = "near" /\ job'[h].pc = "report"
               /\ unchanged /\ Len(items[i]) <= NearestK /\ around => k \in job'[h].near
<1>1. IInv /\ [Next]_vars => [Found]_vars
  <2>. SUFFICES ASSUME IInv, [Next]_vars, NEW h \in Handlers, NEW k \in Keys,
                       job[h].pc = "near", job'[h].pc = "report",
                       Working(Ref(h)), Changing(Ref(h)) = {},
                       Len(items[Ref(h)]) <= NearestK,
                       circle[Ref(h)][k] # NoCircle
                PROVE  k \in job'[h].near
    OBVIOUS
  <2>1. TypeOK /\ Referred
    BY DEF IInv
  <2>2. FindNearest(h)
    <3>1. ~ UNCHANGED vars
      BY DEF vars
    <3>2. ~ Restart
      BY IdleType DEF Restart
    <3>3. ASSUME NEW g \in Handlers, Plain(g)
          PROVE  FALSE
      BY <2>1, <3>3, PlainStep DEF Went, Others, IsAt
    <3>4. ASSUME NEW g \in Handlers, TreeStep(g)
          PROVE  FALSE
      <4>1. Others(g) /\ job'[g].pc \in {"insert", "store", "idle"}
        <5>1. CASE DeleteEntry(g)
          BY <2>1, <5>1, DeleteTree, GoesOn
        <5>2. CASE InsertEntry(g)
          BY <2>1, <5>2, InsertTree, GoesOn, GoesIdle
        <5>3. CASE LoseEntry(g)
          BY <2>1, <5>3, LoseTree, GoesOn
        <5>4. CASE StoreCircle(g)
          BY <2>1, <5>4, StoreTree, GoesIdle
        <5>. QED  BY <3>4, <5>1, <5>2, <5>3, <5>4 DEF TreeStep
      <4>. QED  BY <4>1 DEF Others
    <3>5. ASSUME NEW g \in Handlers, PutQueryPoint(g) \/ Report(g)
          PROVE  FALSE
      <4>1. Others(g) /\ job'[g].pc \in {"near", "idle"}
        <5>1. CASE PutQueryPoint(g)
          BY <2>1, <5>1, PutSearch, GoesOn
        <5>2. CASE Report(g)
          BY <2>1, <5>2, ReportSearch, GoesIdle
        <5>. QED  BY <3>5, <5>1, <5>2
      <4>. QED  BY <4>1 DEF Others
    <3>6. ASSUME NEW g \in Handlers, g # h, FindNearest(g)
          PROVE  FALSE
      BY <2>1, <3>6, NearSearch, GoesNear DEF Others
    <3>. QED  BY <3>1, <3>2, <3>3, <3>4, <3>5, <3>6, NextCases DEF SearchStep
  <2>3. PICK N \in Nearest(Ref(h), Asked(h).at) :
          Only(h, [job[h] EXCEPT !.pc = "report", !.near = {items[Ref(h)][j].key : j \in N}])
    BY <2>1, <2>2, NearSearch
  <2>4. job'[h].near = {items[Ref(h)][j].key : j \in N} /\ Ref(h) \in Instances
    BY <2>1, <2>2, <2>3, NearSearch, GoesNear
  <2>5. Aligned(Ref(h))
    BY <2>4 DEF IInv
  <2>. QED  BY <2>1, <2>4, <2>5, NearAll
<1>2. ContainingFound <=> [][Found]_vars
  BY DEF ContainingFound
<1>. QED  BY <1>1, <1>2, AlwaysInv, PTL DEF Spec
=============================================================================
