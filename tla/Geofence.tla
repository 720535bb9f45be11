------------------------------- MODULE Geofence -------------------------------
(***************************************************************************)
(* The geofence requests of the search server: the HTTP handlers           *)
(* (pkg/http/http-router/controllers/searcher.go), FenceIndex and its      *)
(* RtreeFence (pkg/geofence), and the query points of the document store   *)
(* (pkg/kvdb/kv_db.go).                                                    *)
(*                                                                         *)
(* Handlers run concurrently and nothing is locked.  A handler's step is   *)
(* one access to a shared map, to a fence's R-tree or to the store.  The   *)
(* earth is a line: a position is a number, a circle an interval.          *)
(*                                                                         *)
(* The R-tree of a fence never has more than one level: made with 50       *)
(* dimensions for boxes of two, it cannot split (linearPickSeeds panics).  *)
(* So a fence's tree is the list of its root's entries.                    *)
(***************************************************************************)
EXTENDS Integers, Sequences, FiniteSets

CONSTANTS
  Handlers,     \* the goroutines that serve requests
  Requests,     \* what clients may ask
  Fences, Keys, QueryPoints,
  NearestK,     \* how many circles a search looks at (3 in the code)
  MaxItems,     \* MaxChildItems of a fence's R-tree (25 in the code)
  MayRestart,   \* whether the server may be stopped and started again
  MaxFences,    \* bound on the fences created in a behaviour
  MaxRequests   \* bound on the requests of a behaviour

Ops     == {"addFence", "deleteFence", "addPoint", "setPoint", "search"}
Circle  == [key: Keys, at: Int, radius: Nat]
Request == [op: Ops, fence: Fences, q: QueryPoints, at: Int, circle: Circle]

\* A fence point that was never put into the map of circles reads as this.
NoCircle == [key |-> "", at |-> 0, radius |-> 0]

\* The position of a point that was never stored, and south of all others.
Unknown == -999

ASSUME GeofenceAssumption ==
  /\ Requests \subseteq Request /\ Requests # {}
  /\ \A r \in Requests : r.at > Unknown
  /\ NoCircle.key \notin Keys
  /\ NearestK \in Nat \ {0} /\ MaxItems \in Nat \ {0}
  /\ MaxFences \in Nat /\ MaxRequests \in Nat
  /\ MayRestart \in BOOLEAN

None      == 0
Instances == 1..MaxFences

VARIABLES
  fences,   \* FenceIndex.fences: name -> the RtreeFence, or None
  made,     \* number of RtreeFences made since the start
  items,    \* instance -> the entries of the R-tree's root
  dead,     \* the instances whose root is an entry instead of a node
  circle,   \* instance -> RtreeFence.fence
  pos,      \* the stored query points
  job,      \* handler -> where it is in which request, the RtreeFence it looked up,
            \* the position and the fence points a search has read
  started,  \* number of requests begun
  \* History, for the properties only:
  torn,     \* instances whose tree and map were changed by overlapping requests
  told,     \* <<q, instance>> -> what ENTER and EXIT said it is inside of
  missed    \* <<q, instance>> pairs some move of q or of a circle was not reported for

index == <<fences, made, items, dead, circle>>
ghost == <<torn, told, missed>>
vars  == <<index, pos, job, started, ghost>>

-----------------------------------------------------------------------------
(* Geometry *)

Away(x, y)     == IF x < y THEN y - x ELSE x - y
Contains(c, p) == Away(c.at, p) <= c.radius

\* Whether the way from p to q meets the circle's edge; no way, no meeting.
IsLineCircleIntersect(c, p, q) ==
  /\ p # q
  /\ \E e \in {c.at - c.radius, c.at + c.radius} :
       (p <= e /\ e <= q) \/ (q <= e /\ e <= p)

\* appendNewFenceStatus; an unknown old position is outside of everything.
Statuses(c, p, q) ==
  LET was == p # Unknown /\ Contains(c, p)
      is  == Contains(c, q)
  IN  IF was /\ is THEN {"INSIDE"}
      ELSE IF was THEN {"EXIT", "OUTSIDE"}
      ELSE IF is THEN {"ENTER", "INSIDE"}
      ELSE IF IsLineCircleIntersect(c, p, q) THEN {"CROSS"} ELSE {"OUTSIDE"}

-----------------------------------------------------------------------------
(* The tree of a fence *)

EntriesOf(i, k) == {j \in DOMAIN items[i] : items[i][j].key = k}

\* Delete puts the last entry in the place of the one it removes.
SwapOut(s, j) ==
  [x \in 1..(Len(s) - 1) |-> IF x = j THEN s[Len(s)] ELSE s[x]]

\* Mutant of Nearest: any entries, one fewer than asked for.
NearestButOne(i, p) ==
  {N \in SUBSET DOMAIN items[i] : Cardinality(N) = IF Len(items[i]) < NearestK THEN Len(items[i])
                                                                           ELSE NearestK - 1}

\* NearestNeighboursPQ: NearestK of the nearest entries, all if there are fewer.
Nearest(i, p) ==
  LET n == IF Len(items[i]) < NearestK THEN Len(items[i]) ELSE NearestK
      d(j) == Away(items[i][j].at, p)
  IN  {N \in SUBSET DOMAIN items[i] :
         /\ Cardinality(N) = n
         /\ \A j \in N, m \in DOMAIN items[i] \ N : d(j) <= d(m)}

-----------------------------------------------------------------------------
(* Requests *)

Idle == [pc |-> "idle", req |-> CHOOSE r \in Requests : TRUE,
         ref |-> None, old |-> Unknown, near |-> {}]

Asked(h)    == job[h].req
Ref(h)      == job[h].ref
IsAt(h, op, l) == job[h].pc = l /\ Asked(h).op = op

Goto(h, l) == job' = [job EXCEPT ![h].pc = l]
Answer(h)  == job' = [job EXCEPT ![h] = Idle]

Begin(h, r, op, l) ==
  /\ job[h].pc = "idle"
  /\ started < MaxRequests
  /\ r.op = op
  /\ job' = [job EXCEPT ![h].pc = l, ![h].req = r]
  /\ started' = started + 1
  /\ UNCHANGED <<index, pos, ghost>>

AddGeofence(h)    == \E r \in Requests : Begin(h, r, "addFence", "check")
DeleteGeofence(h) == \E r \in Requests : Begin(h, r, "deleteFence", "drop")

\* The validation of a coordinate refuses zero as missing.
SetQueryPoint(h) == \E r \in Requests : r.at # 0 /\ Begin(h, r, "setPoint", "check")
SearchFence(h)   == \E r \in Requests : r.at # 0 /\ Begin(h, r, "search", "check")
AddFencePoint(h) ==
  \E r \in Requests : r.circle.at # 0 /\ r.circle.radius > 0 /\ Begin(h, r, "addPoint", "check")

Fence(h) == fences[Asked(h).fence]

-----------------------------------------------------------------------------
(* FenceIndex.AddFence and DeleteFence *)

FenceExists(h) ==
  /\ IsAt(h, "addFence", "check")
  /\ IF Fence(h) = None THEN Goto(h, "create") ELSE Answer(h)
  /\ UNCHANGED <<index, pos, started, ghost>>

CreateFence(h) ==
  /\ IsAt(h, "addFence", "create")
  /\ made < MaxFences   \* bound
  /\ made' = made + 1
  /\ fences' = [fences EXCEPT ![Asked(h).fence] = made']
  /\ Answer(h)
  /\ UNCHANGED <<items, dead, circle, pos, started, ghost>>

DeleteFence(h) ==
  /\ IsAt(h, "deleteFence", "drop")
  /\ fences' = [fences EXCEPT ![Asked(h).fence] = None]
  /\ Answer(h)
  /\ UNCHANGED <<made, items, dead, circle, pos, started, ghost>>

-----------------------------------------------------------------------------
(* FenceIndex.AddFencePoint and RtreeFence.Add *)

PointFenceExists(h) ==
  /\ IsAt(h, "addPoint", "check")
  /\ IF Fence(h) = None THEN Answer(h) ELSE Goto(h, "lookup")
  /\ UNCHANGED <<index, pos, started, ghost>>

\* The fence is looked up again: without one the call panics.
LookupFence(h) ==
  /\ IsAt(h, "addPoint", "lookup")
  /\ IF Fence(h) = None THEN Answer(h)
     ELSE job' = [job EXCEPT ![h].pc = "delete", ![h].ref = Fence(h)]
  /\ UNCHANGED <<index, pos, started, ghost>>

Changing(i) == {h \in Handlers : job[h].pc \in {"insert", "store"} /\ Ref(h) = i}

\* Mutant of DeleteEntry: a circle that moves leaves its old entry.
KeepEntry(h) ==
  /\ IsAt(h, "addPoint", "delete")
  /\ torn' = IF Changing(Ref(h)) = {} THEN torn ELSE torn \cup {Ref(h)}
  /\ Goto(h, "insert")
  /\ UNCHANGED <<index, pos, started, told, missed>>

\* Add first deletes the entry of a point it has: the entry left alone, if one is,
\* becomes the root, and nothing can be found or inserted any more.
DeleteEntry(h) ==
  LET i == Ref(h)
      k == Asked(h).circle.key
      s == IF EntriesOf(i, k) = {} THEN items[i]
           ELSE SwapOut(items[i], CHOOSE j \in EntriesOf(i, k) :
                                    \A m \in EntriesOf(i, k) : j <= m)
      shortened == EntriesOf(i, k) # {} /\ Len(s) = 1
  IN  /\ IsAt(h, "addPoint", "delete")
      /\ items' = [items EXCEPT ![i] = IF shortened THEN <<>> ELSE s]
      /\ dead' = IF shortened THEN dead \cup {i} ELSE dead
      /\ torn' = IF Changing(i) = {} THEN torn ELSE torn \cup {i}
      /\ Goto(h, "insert")
      /\ UNCHANGED <<fences, made, circle, pos, started, told, missed>>

\* A full root takes the entry and then panics in the split, as a dead one does at
\* once: the circle does not get into the map.
InsertEntry(h) ==
  LET i == Ref(h)
      full == Len(items[i]) >= MaxItems
  IN  /\ IsAt(h, "addPoint", "insert")
      /\ items' = IF i \in dead THEN items
                  ELSE [items EXCEPT ![i] = Append(@, Asked(h).circle)]
      /\ torn' = IF full THEN torn \cup {i} ELSE torn
      /\ IF full \/ i \in dead THEN Answer(h) ELSE Goto(h, "store")
      /\ UNCHANGED <<fences, made, dead, circle, pos, started, told, missed>>

\* Another request that appends at the same time may overwrite the entry.
LoseEntry(h) ==
  /\ IsAt(h, "addPoint", "insert")
  /\ Ref(h) \notin dead /\ Len(items[Ref(h)]) < MaxItems
  /\ \E g \in Handlers \ {h} : IsAt(g, "addPoint", "insert") /\ Ref(g) = Ref(h)
  /\ Goto(h, "store")
  /\ UNCHANGED <<index, pos, started, ghost>>

\* For a point whose position is known, the circle moves without a report.
StoreCircle(h) ==
  /\ IsAt(h, "addPoint", "store")
  /\ circle' = [circle EXCEPT ![Ref(h)][Asked(h).circle.key] = Asked(h).circle]
  /\ missed' = missed \cup {<<q, Ref(h)>> : q \in {x \in QueryPoints : pos[x] # Unknown}}
  /\ Answer(h)
  /\ UNCHANGED <<fences, made, items, dead, pos, started, torn, told>>

-----------------------------------------------------------------------------
(* FenceIndex.UpdateFencePoint and Search, RtreeFence.Get *)

SetFenceExists(h) ==
  /\ IsAt(h, "setPoint", "check")
  /\ IF Fence(h) = None THEN Answer(h) ELSE Goto(h, "put")
  /\ UNCHANGED <<index, pos, started, ghost>>

UpdateFencePoint(h) ==
  /\ IsAt(h, "setPoint", "put")
  /\ pos' = [pos EXCEPT ![Asked(h).q] = Asked(h).at]
  /\ missed' = missed \cup ({Asked(h).q} \X Instances)
  /\ Answer(h)
  /\ UNCHANGED <<index, started, torn, told>>

SearchFenceExists(h) ==
  /\ IsAt(h, "search", "check")
  /\ IF Fence(h) = None THEN Answer(h)
     ELSE job' = [job EXCEPT ![h].pc = "read", ![h].ref = Fence(h)]
  /\ UNCHANGED <<index, pos, started, ghost>>

GetQueryPoint(h) ==
  /\ IsAt(h, "search", "read")
  /\ job' = [job EXCEPT ![h].pc = "put", ![h].old = pos[Asked(h).q]]
  /\ UNCHANGED <<index, pos, started, ghost>>

\* The searches of q that have read its position and not yet answered.
Searching(q) == {h \in Handlers : /\ Asked(h).op = "search" /\ Asked(h).q = q
                                  /\ job[h].pc \in {"put", "near", "report"}}

PutQueryPoint(h) ==
  LET q == Asked(h).q
  IN  /\ IsAt(h, "search", "put")
      /\ pos' = [pos EXCEPT ![q] = Asked(h).at]
      /\ missed' = missed \cup ({q} \X (IF Searching(q) = {h} THEN Instances \ {Ref(h)}
                                                              ELSE Instances))
      /\ Goto(h, "near")
      /\ UNCHANGED <<index, started, torn, told>>

\* Mutant of FindNearest: the places in the tree are taken for the points.
FindRanks(h) ==
  /\ IsAt(h, "search", "near")
  /\ \E N \in Nearest(Ref(h), Asked(h).at) :
       job' = [job EXCEPT ![h].pc = "report", ![h].near = N]
  /\ UNCHANGED <<index, pos, started, ghost>>

\* A circle that is not among the nearest is not reported on.
FindNearest(h) ==
  LET i == Ref(h)
  IN  /\ IsAt(h, "search", "near")
      /\ \E N \in Nearest(i, Asked(h).at) :
           job' = [job EXCEPT ![h].pc = "report", ![h].near = {items[i][j].key : j \in N}]
      /\ missed' = IF Len(items[i]) > NearestK THEN missed \cup {<<Asked(h).q, i>>} ELSE missed
      /\ UNCHANGED <<index, pos, started, torn, told>>

\* Mutant of Reported: the old position is read after the new one is stored.
ReportedByStored(h, status) ==
  {k \in job[h].near : status \in Statuses(circle[Ref(h)][k], pos[Asked(h).q], Asked(h).at)}

Reported(h, status) ==
  {k \in job[h].near : status \in Statuses(circle[Ref(h)][k], job[h].old, Asked(h).at)}

Report(h) ==
  /\ IsAt(h, "search", "report")
  /\ told' = [told EXCEPT ![<<Asked(h).q, Ref(h)>>] =
                (@ \cup Reported(h, "ENTER")) \ Reported(h, "EXIT")]
  /\ Answer(h)
  /\ UNCHANGED <<index, pos, started, torn, missed>>

-----------------------------------------------------------------------------
(* The end of the process *)

ReadsFences(h)  == job[h].pc \in {"check", "lookup"}
WritesFences(h) == job[h].pc \in {"create", "drop"}

\* GetStr reads the names of a fence's points without the lock under which GetID
\* writes the name of a new one.
ReadsCircles(h)  == job[h].pc = "report"
WritesCircles(h) ==
  \/ job[h].pc = "store"
  \/ IsAt(h, "addPoint", "delete") /\ circle[Ref(h)][Asked(h).circle.key] = NoCircle

\* Two accesses to one map, one of them a write: the Go runtime may end the process.
Racing ==
  \E g \in Handlers : \E h \in Handlers \ {g} :
    \/ WritesFences(g) /\ (ReadsFences(h) \/ WritesFences(h))
    \/ job[g].pc = "store" /\ job[h].pc = "store" /\ Ref(g) = Ref(h)
    \/ WritesCircles(g) /\ ReadsCircles(h) /\ Ref(g) = Ref(h)

Empty(S) == [x \in S |-> {}]

\* The fences were in memory only; the query points are in the store.
Restart ==
  /\ MayRestart \/ Racing
  /\ fences' = [f \in Fences |-> None]
  /\ made' = 0
  /\ items' = [i \in Instances |-> <<>>]
  /\ dead' = {}
  /\ circle' = [i \in Instances |-> [k \in Keys |-> NoCircle]]
  /\ job' = [h \in Handlers |-> Idle]
  /\ torn' = {} /\ missed' = {}
  /\ told' = Empty(QueryPoints \X Instances)
  /\ UNCHANGED <<pos, started>>

-----------------------------------------------------------------------------
Init ==
  /\ fences = [f \in Fences |-> None]
  /\ made = 0
  /\ items = [i \in Instances |-> <<>>]
  /\ dead = {}
  /\ circle = [i \in Instances |-> [k \in Keys |-> NoCircle]]
  /\ pos = [q \in QueryPoints |-> Unknown]
  /\ job = [h \in Handlers |-> Idle]
  /\ started = 0
  /\ torn = {} /\ missed = {}
  /\ told = Empty(QueryPoints \X Instances)

Step(h) ==
  \/ FenceExists(h) \/ CreateFence(h) \/ DeleteFence(h)
  \/ PointFenceExists(h) \/ LookupFence(h)
  \/ DeleteEntry(h) \/ InsertEntry(h) \/ LoseEntry(h) \/ StoreCircle(h)
  \/ SetFenceExists(h) \/ UpdateFencePoint(h)
  \/ SearchFenceExists(h) \/ GetQueryPoint(h) \/ PutQueryPoint(h)
  \/ FindNearest(h) \/ Report(h)

Next ==
  \/ \E h \in Handlers :
       \/ AddGeofence(h) \/ DeleteGeofence(h) \/ AddFencePoint(h)
       \/ SetQueryPoint(h) \/ SearchFence(h)
       \/ Step(h)
  \/ Restart

Spec == Init /\ [][Next]_vars

-----------------------------------------------------------------------------
(* Properties *)

TypeOK ==
  /\ fences \in [Fences -> 0..MaxFences] /\ made \in 0..MaxFences
  /\ items \in [Instances -> Seq(Circle)]
  /\ dead \subseteq Instances /\ torn \subseteq Instances
  /\ circle \in [Instances -> [Keys -> Circle \cup {NoCircle}]]
  /\ pos \in [QueryPoints -> Int]
  /\ job \in [Handlers ->
        [pc: {"idle", "check", "create", "drop", "lookup", "delete", "insert",
              "store", "put", "read", "near", "report"},
         req: Requests, ref: 0..MaxFences, old: Int, near: SUBSET Keys]]
  /\ started \in 0..MaxRequests
  /\ told \in [QueryPoints \X Instances -> SUBSET Keys]
  /\ missed \subseteq QueryPoints \X Instances

Working(i) == i \notin dead /\ i \notin torn

\* Between requests that change a fence, its R-tree holds every circle of its map
\* once and nothing else (RtreeFence.Add keeps the two by separate steps), unless
\* two such requests overlapped, the tree overflowed or its root was lost.
TreeMatchesMap ==
  \A i \in Instances : Working(i) /\ Changing(i) = {} =>
    \A k \in Keys :
      IF circle[i][k] = NoCircle THEN EntriesOf(i, k) = {}
      ELSE \E j \in DOMAIN items[i] :
             EntriesOf(i, k) = {j} /\ items[i][j] = circle[i][k]

\* Whoever follows only the ENTER and EXIT of the searches of one fence knows which
\* of its circles a query point is inside of, as long as every move of the point
\* was such a search, one at a time, and no circle moved (FenceIndex.Search reads,
\* stores and compares the position in steps of their own).
FollowedReports ==
  \A q \in QueryPoints, i \in Instances :
    Working(i) /\ Searching(q) = {} /\ Changing(i) = {} /\ <<q, i>> \notin missed =>
      told[q, i] = {k \in Keys : /\ circle[i][k] # NoCircle /\ pos[q] # Unknown
                                 /\ Contains(circle[i][k], pos[q])}

\* A search that finds a working fence of no more than NearestK points unchanged by
\* others looks at every circle around the position it was given.
ContainingFound ==
  [][\A h \in Handlers, k \in Keys :
       LET i == Ref(h)
           unchanged == Working(i) /\ Changing(i) = {}
           around    == circle[i][k] # NoCircle /\ Contains(circle[i][k], Asked(h).at)
       IN  job[h].pc = "near" /\ job'[h].pc = "report"
             /\ unchanged /\ Len(items[i]) <= NearestK /\ around => k \in job'[h].near]_vars

\* What the answer's description says (geofence.go): it has all fences that contain
\* the query point.
AllContaining ==
  \A h \in Handlers, k \in Keys :
    LET c == circle[Ref(h)][k]
    IN  job[h].pc = "report" /\ c # NoCircle /\ Contains(c, Asked(h).at) => k \in job[h].near
=============================================================================
