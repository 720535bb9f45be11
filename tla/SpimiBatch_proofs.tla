------------------------- MODULE SpimiBatch_proofs --------------------------
(***************************************************************************)
(* Theorems about SpimiBatch, for every input, every batch size, every set *)
(* of faults and any cancellation.                                         *)
(*                                                                         *)
(* An object gets at most one ID because batches are disjoint and a batch  *)
(* goroutine has passed every object of its batch that has one (Passed).   *)
(* Segment numbers stay apart because a goroutine between its AllocBlock   *)
(* and the end of its segment holds a number below block, unlike any other *)
(* held, and unlisted until it registers it (Unlisted).                    *)
(*                                                                         *)
(* An object that was dropped was dropped for a reason: what a batch       *)
(* goroutine has passed is indexed or a duplicate (Seen), and the box of a *)
(* name is always that of a way that has been or will be indexed or that   *)
(* the second test has dropped (Boxed).  A document is held at one place:  *)
(* IDs move from the end of nodeIDX into one buffer (AddObject) and from   *)
(* there, saved, into allSearchNodes (Publish): Holding.                   *)
(*                                                                         *)
(* Unless it was cancelled, the pipeline implements IndexBuild, and every  *)
(* document is found in every way the server looks for it.  A document's   *)
(* words reach the merged indexes because the goroutine that inverts them  *)
(* has parsed the whole buffer before it takes a segment number (Whole),   *)
(* writes a segment nobody else has written, which is listed (Writing),    *)
(* and the documents are published only when both goroutines ended without *)
(* an error (Flushed).                                                     *)
(***************************************************************************)
EXTENDS SpimiBatch, TLAPS, FiniteSetTheorems

Segs  == [field: Fields, block: Nat]
Doc   == [ID: Nat, obj: Objects]
InvPc == {"idle", "parse", "register", "write", "send", "done"}
InvState == [pc: InvPc, parsed: Nat, block: Nat, err: BOOLEAN]

\* An object of batch b.
InBatch(b, o) == o.kind = b.kind /\ o.at \in b.start..Last(b)

\* The loop index of a batch goroutine is in its batch or just after it, and in
\* its batch while an object waits to be added.
PosInBatch ==
  \A b \in Batches :
    /\ pos[b] \in b.start..(Last(b) + 1)
    /\ pc[b] = "add" => pos[b] <= Last(b)

\* A batch goroutine has passed the objects of its batch that have IDs.
Passed ==
  \A b \in Batches : \A i \in DOMAIN osmData :
    InBatch(b, osmData[i].obj) => osmData[i].obj.at < pos[b]

\* Buffers hold IDs that were given out.
BufferedIDs ==
  \A b \in Batches : \A i \in DOMAIN searchNodes[b] : searchNodes[b][i] < nodeIDX

\* A segment number that is held was given out; it is not listed before it is
\* registered.
Unlisted ==
  \A b \in Batches, f \in Fields :
    /\ HasBlock(b, f) => inv[b][f].block < block
    /\ inv[b][f].pc = "register" =>
         \A i \in DOMAIN intermediateIndices :
           intermediateIndices[i].block # inv[b][f].block

\* A flush is under way only while its batch goroutine waits for it, or has
\* failed, and it parses only what is in the buffer; a collector that saw no
\* error saw all its batches end.
Flushing ==
  /\ \A b \in Batches : pc[b] \in {"scan", "add"} =>
       \A f \in Fields : inv[b][f].pc = "idle"
  /\ \A b \in Batches, f \in Fields : inv[b][f].parsed <= Len(searchNodes[b])
  /\ \A b \in Batches, f \in Fields : inv[b][f].pc = "idle" => inv[b][f].parsed = 0
  /\ \A b \in Batches : pc[b] = "done" =>
       \/ coll[b.kind] = "err"
       \/ \A f \in Fields : inv[b][f].pc = "idle"
  /\ \A k \in Kinds : coll[k] = "nil" => \A b \in BatchesOf(k) : pc[b] = "done"
  /\ main \notin {"collect", "failed"} => \A k \in Kinds : coll[k] = "nil"

Numbering  == DocIDsDense /\ PosInBatch /\ Passed /\ BufferedIDs
Segmenting == SegmentsDistinct /\ Unlisted

IInv == TypeOK /\ Numbering /\ Segmenting /\ Flushing

-----------------------------------------------------------------------------
(* The input and its batches                                               *)

LEMMA InputType ==
  ASSUME NEW k \in Kinds
  PROVE  Input(k) \in Seq(OSMObject) /\ Len(Input(k)) \in Nat
BY SpimiBatchAssumption DEF Input

LEMMA BatchType ==
  ASSUME NEW b \in Batches
  PROVE  /\ b.kind \in Kinds
         /\ b.start \in 1..Len(Input(b.kind))
         /\ (b.start - 1) % BatchSize = 0
         /\ b = [kind |-> b.kind, start |-> b.start]
         /\ Last(b) \in Nat
         /\ Last(b) <= Len(Input(b.kind))
         /\ Last(b) <= b.start + BatchSize - 1
         /\ b.start <= Last(b)
<1>1. PICK k \in Kinds : b \in [kind: {k}, start: Starts(k)]
  BY DEF Batches
<1>2. /\ b.kind = k /\ b.start \in Starts(k)
      /\ b = [kind |-> b.kind, start |-> b.start]
  BY <1>1
<1>3. b.start \in 1..Len(Input(k)) /\ (b.start - 1) % BatchSize = 0
  BY <1>2 DEF Starts
<1>4. Len(Input(k)) \in Nat /\ BatchSize \in Nat \ {0}
  BY InputType, SpimiBatchAssumption
<1>. QED  BY <1>1, <1>2, <1>3, <1>4 DEF Last

LEMMA Quotient ==
  ASSUME NEW B \in Nat \ {0}, NEW x \in Nat, x % B = 0
  PROVE  \E k \in Nat : x = k * B
<1>1. x \div B \in Nat /\ x = (x \div B) * B
  OBVIOUS
<1>. QED  BY <1>1

LEMMA Product ==
  ASSUME NEW B \in Nat \ {0}, NEW k \in Nat, NEW m \in Nat, k < m
  PROVE  k * B + B <= m * B
<1>1. B \in Nat \ {0} /\ k \in Nat /\ m \in Nat /\ k < m
  OBVIOUS
<1>. QED  BY ONLY <1>1

\* Different multiples of BatchSize are at least BatchSize apart.
LEMMA Multiples ==
  ASSUME NEW B \in Nat \ {0}, NEW x \in Nat, NEW y \in Nat,
         x % B = 0, y % B = 0, x < y
  PROVE  x + B <= y
<1>1. PICK k \in Nat : x = k * B
  BY Quotient
<1>2. PICK m \in Nat : y = m * B
  BY Quotient
<1>3. CASE k < m
  BY <1>1, <1>2, <1>3, Product
<1>4. CASE k = m
  BY <1>1, <1>2, <1>4
<1>5. CASE m < k
  <2>1. m * B + B <= k * B
    BY <1>5, Product
  <2>2. m * B \in Int /\ k * B \in Int
    OBVIOUS
  <2>. QED  BY <1>1, <1>2, <2>1, <2>2
<1>. QED  BY <1>3, <1>4, <1>5

\* Two ranges of at most BatchSize places that start at such multiples and have
\* a place in common start at the same one.
LEMMA RangesDisjoint ==
  ASSUME NEW B \in Nat \ {0}, NEW s \in Nat \ {0}, NEW t \in Nat \ {0}, NEW x \in Nat,
         (s - 1) % B = 0, (t - 1) % B = 0,
         s <= x, x <= s + B - 1, t <= x, x <= t + B - 1
  PROVE  s = t
<1>1. PICK u \in Nat, v \in Nat : u = s - 1 /\ v = t - 1
  OBVIOUS
<1>2. u % B = 0 /\ v % B = 0
  BY <1>1
<1>3. u < v => u + B <= v
  BY <1>2, Multiples
<1>4. v < u => v + B <= u
  BY <1>2, Multiples
<1>. QED  BY <1>1, <1>3, <1>4

\* An object is in one batch.
LEMMA BatchesDisjoint ==
  ASSUME NEW b \in Batches, NEW c \in Batches, NEW o,
         InBatch(b, o), InBatch(c, o)
  PROVE  b = c
<1>1. /\ b.kind = c.kind
      /\ o.at \in b.start..Last(b) /\ o.at \in c.start..Last(c)
  BY DEF InBatch
<1>2. /\ b.start \in Nat \ {0} /\ c.start \in Nat \ {0}
      /\ Last(b) <= b.start + BatchSize - 1 /\ Last(c) <= c.start + BatchSize - 1
      /\ (b.start - 1) % BatchSize = 0 /\ (c.start - 1) % BatchSize = 0
      /\ Last(b) \in Nat /\ Last(c) \in Nat
  BY BatchType, InputType
<1>3. PICK B, s, t, x, lb, lc :
        /\ B = BatchSize /\ s = b.start /\ t = c.start /\ x = o.at
        /\ lb = Last(b) /\ lc = Last(c)
  OBVIOUS
<1>4. /\ B \in Nat \ {0} /\ s \in Nat \ {0} /\ t \in Nat \ {0} /\ lb \in Nat /\ lc \in Nat
      /\ (s - 1) % B = 0 /\ (t - 1) % B = 0
      /\ x \in s..lb /\ x \in t..lc /\ lb <= s + B - 1 /\ lc <= t + B - 1
  BY <1>1, <1>2, <1>3, SpimiBatchAssumption
<1>5. x \in Nat /\ s <= x /\ x <= s + B - 1 /\ t <= x /\ x <= t + B - 1
  BY ONLY <1>4
<1>6. s = t
  BY ONLY <1>4, <1>5, RangesDisjoint
<1>. QED  BY <1>1, <1>3, <1>6, BatchType

\* The object at the loop index.
LEMMA CurrentType ==
  ASSUME NEW b \in Batches, PosInBatch, pos[b] <= Last(b)
  PROVE  /\ Current(b) \in Objects
         /\ InBatch(b, Current(b))
         /\ Current(b).at = pos[b]
         /\ Current(b).kind = b.kind
         /\ Obj(Current(b)) \in OSMObject
<1>1. /\ b.kind \in Kinds /\ b.start \in 1..Len(Input(b.kind))
      /\ Last(b) \in Nat /\ Last(b) <= Len(Input(b.kind))
      /\ Input(b.kind) \in Seq(OSMObject) /\ Len(Input(b.kind)) \in Nat
  BY BatchType, InputType
<1>2. pos[b] \in b.start..Last(b)
  BY <1>1 DEF PosInBatch
<1>3. pos[b] \in 1..Len(Input(b.kind))
  BY <1>1, <1>2
<1>4. Current(b) \in Objects
  BY <1>1, <1>3 DEF Current, Objects
<1>5. Input(b.kind)[pos[b]] \in OSMObject
  BY <1>1, <1>3
<1>. QED  BY <1>2, <1>4, <1>5 DEF Current, InBatch, Obj

LEMMA ObjType ==
  ASSUME NEW o \in Objects
  PROVE  /\ Obj(o) \in OSMObject
         /\ \A f \in Fields : Obj(o).words[f] \in Nat
         /\ Obj(o).box \in Box
<1>1. PICK k \in Kinds : o \in [kind: {k}, at: 1..Len(Input(k))]
  BY DEF Objects
<1>2. o.kind = k /\ o.at \in 1..Len(Input(k)) /\ Input(k) \in Seq(OSMObject)
  BY <1>1, InputType
<1>3. Obj(o) \in OSMObject
  BY <1>2 DEF Obj
<1>. QED  BY <1>3 DEF OSMObject

-----------------------------------------------------------------------------
(* What every step must show                                               *)

\* What the parts of the invariant other than TypeOK are about.
numberVars  == <<nodeIDX, osmData, pc, pos, searchNodes>>
segmentVars == <<block, intermediateIndices, inv>>
flushVars   == <<pc, inv, searchNodes, coll, main>>

LEMMA NumberingUnchanged ==
  ASSUME Numbering, UNCHANGED numberVars  PROVE Numbering'
BY DEF Numbering, numberVars, DocIDsDense, PosInBatch, Passed, BufferedIDs

LEMMA SegmentingUnchanged ==
  ASSUME Segmenting, UNCHANGED segmentVars  PROVE Segmenting'
BY DEF Segmenting, segmentVars, SegmentsDistinct, Unlisted, HasBlock

LEMMA FlushingUnchanged ==
  ASSUME Flushing, UNCHANGED flushVars  PROVE Flushing'
BY DEF Flushing, flushVars

\* A step that moves a batch goroutine without giving out an ID.
LEMMA NumberingMoves ==
  ASSUME IInv, NEW b \in Batches, UNCHANGED <<nodeIDX, osmData, searchNodes, pos>>,
         NEW to \in {"scan", "flush", "save", "publish", "fail", "done"},
         pc' = [pc EXCEPT ![b] = to]
  PROVE  Numbering'
BY DEF IInv, Numbering, DocIDsDense, PosInBatch, Passed, BufferedIDs, TypeOK

\* A batch goroutine that goes on to its next object without giving out an ID.
LEMMA NumberingAdvances ==
  ASSUME IInv, NEW b \in Batches, UNCHANGED <<nodeIDX, osmData, searchNodes, pc>>,
         pc[b] = "scan", pos[b] <= Last(b), pos' = [pos EXCEPT ![b] = @ + 1]
  PROVE  Numbering'
<1>1. pos \in [Batches -> Nat] /\ PosInBatch /\ Passed
  BY DEF IInv, TypeOK, Numbering
<1>2. PosInBatch'
  <2>. SUFFICES ASSUME NEW c \in Batches
                PROVE  /\ pos'[c] \in c.start..(Last(c) + 1)
                       /\ pc[c] = "add" => pos'[c] <= Last(c)
    BY DEF PosInBatch
  <2>1. CASE c = b
    <3>1. pos'[c] = pos[c] + 1 /\ pos[c] \in c.start..(Last(c) + 1)
      BY <2>1, <1>1 DEF PosInBatch
    <3>2. Last(c) \in Nat /\ c.start \in Nat
      BY BatchType, InputType
    <3>. QED  BY <3>1, <3>2, <2>1
  <2>2. CASE c # b
    BY <2>2, <1>1 DEF PosInBatch
  <2>. QED  BY <2>1, <2>2
<1>3. Passed'
  <2>. SUFFICES ASSUME NEW c \in Batches, NEW i \in DOMAIN osmData, InBatch(c, osmData[i].obj)
                PROVE  osmData[i].obj.at < pos'[c]
    BY DEF Passed
  <2>1. osmData[i].obj.at < pos[c]
    BY <1>1 DEF Passed
  <2>2. osmData[i].obj.at \in Int
    BY BatchType, InputType DEF InBatch
  <2>3. pos'[c] = pos[c] \/ pos'[c] = pos[c] + 1
    BY <1>1
  <2>. QED  BY <2>1, <2>2, <2>3, <1>1
<1>. QED  BY <1>2, <1>3 DEF IInv, Numbering, DocIDsDense, BufferedIDs

\* A step in which every goroutine that still holds a segment number held it.
LEMMA SegmentingReleases ==
  ASSUME IInv, UNCHANGED <<block, intermediateIndices>>,
         \A c \in Batches, g \in Fields : inv'[c][g].pc \in {"register", "write"} =>
           inv'[c][g].pc = inv[c][g].pc /\ inv'[c][g].block = inv[c][g].block
  PROVE  Segmenting'
BY DEF IInv, Segmenting, SegmentsDistinct, Unlisted, HasBlock

\* Starting or forgetting the two goroutines of a flush.
LEMMA AllInverting ==
  ASSUME IInv, NEW b \in Batches, NEW w \in {NotStarted, Started},
         inv' = [inv EXCEPT ![b] = [f \in Fields |-> w]]
  PROVE  /\ inv' \in [Batches -> [Fields -> InvState]]
         /\ \A c \in Batches, g \in Fields : IF c = b THEN inv'[c][g] = w
                                             ELSE inv'[c][g] = inv[c][g]
         /\ UNCHANGED <<block, intermediateIndices>> => Segmenting'
<1>1. w \in InvState /\ w.pc \in {"idle", "parse"}
  <2>1. NotStarted = [pc |-> "idle", parsed |-> 0, block |-> 0, err |-> FALSE]
    BY DEF NotStarted
  <2>2. NotStarted \in InvState /\ NotStarted.pc = "idle"
    BY <2>1 DEF InvState, InvPc
  <2>3. "parse" \in InvPc
    BY DEF InvPc
  <2>4. Started \in InvState /\ Started.pc = "parse"
    BY <2>2, <2>3 DEF Started, InvState
  <2>5. CASE w = NotStarted
    BY <2>2, <2>5
  <2>6. CASE w = Started
    BY <2>4, <2>6
  <2>. QED  BY <2>5, <2>6
<1>2. [f \in Fields |-> w] \in [Fields -> InvState]
  BY <1>1
<1>3. inv \in [Batches -> [Fields -> InvState]]
  BY DEF IInv, TypeOK, InvState, InvPc
<1>4. inv' \in [Batches -> [Fields -> InvState]]
  BY <1>2, <1>3
<1>5. \A c \in Batches, g \in Fields : IF c = b THEN inv'[c][g] = w
                                       ELSE inv'[c][g] = inv[c][g]
  BY <1>3
<1>. QED  BY <1>1, <1>4, <1>5, SegmentingReleases

\* A step of one inverting goroutine.
LEMMA OneInverting ==
  ASSUME IInv, NEW b \in Batches, NEW f \in Fields, NEW w \in InvState,
         inv' = [inv EXCEPT ![b][f] = w]
  PROVE  /\ inv' \in [Batches -> [Fields -> InvState]]
         /\ inv'[b][f] = w
         /\ \A c \in Batches, g \in Fields : ~(c = b /\ g = f) => inv'[c][g] = inv[c][g]
<1>1. inv \in [Batches -> [Fields -> InvState]]
  BY DEF IInv, TypeOK, InvState, InvPc
<1>2. [inv[b] EXCEPT ![f] = w] \in [Fields -> InvState]
  BY <1>1
<1>3. inv' = [inv EXCEPT ![b] = [inv[b] EXCEPT ![f] = w]]
  OBVIOUS
<1>. QED  BY <1>1, <1>2, <1>3

\* Moving one batch goroutine keeps pc typed.
LEMMA MovesType ==
  ASSUME TypeOK, NEW b \in Batches,
         NEW to \in {"scan", "flush", "save", "publish", "fail", "done"},
         pc' = [pc EXCEPT ![b] = to]
  PROVE  /\ pc' \in [Batches -> {"scan", "add", "flush", "save", "publish", "fail", "done"}]
         /\ pc'[b] = to
         /\ \A c \in Batches : c # b => pc'[c] = pc[c]
BY DEF TypeOK

\* A batch goroutine that is not at its end goes on with its flush, or fails.
LEMMA FlushingGoesOn ==
  ASSUME IInv, NEW b \in Batches, pc[b] # "done", pc'[b] \notin {"scan", "add", "done"},
         \A c \in Batches : c # b =>
           pc'[c] = pc[c] /\ \A g \in Fields : inv'[c][g] = inv[c][g],
         \A g \in Fields : /\ inv'[b][g].parsed <= Len(searchNodes[b])
                           /\ inv'[b][g].pc = "idle" => inv'[b][g].parsed = 0,
         UNCHANGED <<searchNodes, coll, main>>
  PROVE  Flushing'
BY DEF IInv, Flushing, BatchesOf

-----------------------------------------------------------------------------
(* The batch goroutines                                                    *)

LEMMA SeeCancelKeeps ==
  ASSUME IInv, NEW b \in Batches, SeeCancel(b)  PROVE IInv'
<1>1. TypeOK'
  BY DEF IInv, TypeOK, SeeCancel, InLoop, lockVars, diskVars, mainVars
<1>2. Numbering'
  BY NumberingMoves DEF SeeCancel, lockVars
<1>3. Segmenting'
  BY SegmentingUnchanged DEF IInv, SeeCancel, lockVars, segmentVars
<1>4. Flushing'
  BY DEF IInv, TypeOK, Flushing, SeeCancel, InLoop, mainVars, BatchesOf
<1>. QED  BY <1>1, <1>2, <1>3, <1>4 DEF IInv

LEMMA SkipKeeps ==
  ASSUME IInv, NEW b \in Batches, Skip(b)  PROVE IInv'
<1>1. TypeOK'
  BY DEF IInv, TypeOK, Skip, InLoop, lockVars, diskVars, mainVars
<1>2. Numbering'
  BY NumberingAdvances DEF Skip, InLoop, lockVars
<1>3. Segmenting'
  BY SegmentingUnchanged DEF IInv, Skip, lockVars, segmentVars
<1>4. Flushing'
  BY FlushingUnchanged DEF IInv, Skip, mainVars, flushVars
<1>. QED  BY <1>1, <1>2, <1>3, <1>4 DEF IInv

\* Setting a box keeps the boxes boxes.
LEMMA SetBoxType ==
  ASSUME NEW o \in Objects,
         \A n \in DOMAIN nodeBoundingBox : nodeBoundingBox[n] \in Box
  PROVE  \A n \in DOMAIN SetBox(o) : SetBox(o)[n] \in Box
BY ObjType DEF SetBox

LEMMA CheckDuplicateKeeps ==
  ASSUME IInv, NEW b \in Batches, CheckDuplicate(b)  PROVE IInv'
<1>0. pos[b] <= Last(b) /\ Current(b) \in Objects
  BY CurrentType DEF IInv, Numbering, CheckDuplicate, InLoop
<1>1. TypeOK'
  <2>1. \A n \in DOMAIN nodeBoundingBox' : nodeBoundingBox'[n] \in Box
    BY <1>0, SetBoxType DEF IInv, TypeOK, CheckDuplicate, BoxAfterCheck
  <2>2. /\ pc' \in [Batches -> {"scan", "add", "flush", "save", "publish", "fail", "done"}]
        /\ pos' \in [Batches -> Nat]
    <3>1. CASE pc' = [pc EXCEPT ![b] = "add"] /\ UNCHANGED pos
      BY <3>1 DEF IInv, TypeOK
    <3>2. CASE pos' = [pos EXCEPT ![b] = @ + 1] /\ UNCHANGED pc
      BY <3>2 DEF IInv, TypeOK
    <3>. QED  BY <3>1, <3>2 DEF CheckDuplicate
  <2>. QED  BY <2>1, <2>2 DEF IInv, TypeOK, CheckDuplicate, diskVars, mainVars
<1>2. Numbering'
  <2>1. CASE pc' = [pc EXCEPT ![b] = "add"] /\ UNCHANGED pos
    <3>1. PosInBatch'
      BY <1>0, <2>1 DEF IInv, TypeOK, Numbering, PosInBatch
    <3>. QED  BY <2>1, <3>1
         DEF IInv, Numbering, CheckDuplicate, DocIDsDense, Passed, BufferedIDs
  <2>2. CASE pos' = [pos EXCEPT ![b] = @ + 1] /\ UNCHANGED pc
    BY <2>2, NumberingAdvances DEF CheckDuplicate, InLoop
  <2>. QED  BY <2>1, <2>2 DEF CheckDuplicate
<1>3. Segmenting'
  BY SegmentingUnchanged DEF IInv, CheckDuplicate, segmentVars
<1>4. Flushing'
  <2>1. \A c \in Batches : pc'[c] = pc[c] \/ (c = b /\ pc[c] = "scan" /\ pc'[c] = "add")
    BY DEF IInv, TypeOK, CheckDuplicate, InLoop
  <2>. QED  BY <2>1 DEF IInv, Flushing, CheckDuplicate, mainVars, BatchesOf
<1>. QED  BY <1>1, <1>2, <1>3, <1>4 DEF IInv

\* The buffers and the numbering after an object got its ID.
LEMMA AddObjectNumbers ==
  ASSUME IInv, NEW b \in Batches, AddObject(b)
  PROVE  /\ osmData' \in Seq(Doc)
         /\ nodeIDX' \in Nat
         /\ searchNodes' \in [Batches -> Seq(Nat)]
         /\ Numbering'
<1>1. /\ osmData \in Seq(Doc) /\ nodeIDX \in Nat /\ nodeIDX = Len(osmData)
      /\ searchNodes \in [Batches -> Seq(Nat)] /\ pos \in [Batches -> Nat]
      /\ pc \in [Batches -> {"scan", "add", "flush", "save", "publish", "fail", "done"}]
      /\ DocIDsDense /\ PosInBatch /\ Passed /\ BufferedIDs
  BY DEF IInv, TypeOK, Numbering, DocIDsDense, Doc
<1>2. /\ pos[b] <= Last(b) /\ Current(b) \in Objects /\ InBatch(b, Current(b))
      /\ Current(b).at = pos[b]
  BY <1>1, CurrentType DEF AddObject, PosInBatch
<1>3. PICK d \in Doc : d = [ID |-> nodeIDX, obj |-> Current(b)]
  BY <1>1, <1>2 DEF Doc
<1>4. /\ osmData' = Append(osmData, d) /\ nodeIDX' = nodeIDX + 1
      /\ searchNodes' = [searchNodes EXCEPT ![b] = Append(@, nodeIDX)]
      /\ pos' = [pos EXCEPT ![b] = @ + 1]
      /\ \E to \in {"flush", "scan"} : pc' = [pc EXCEPT ![b] = to]
  BY <1>3 DEF AddObject, TakeID
<1>5. /\ osmData' \in Seq(Doc) /\ Len(osmData') = nodeIDX + 1
      /\ DOMAIN osmData' = 1..(nodeIDX + 1) /\ DOMAIN osmData = 1..nodeIDX
      /\ \A i \in 1..nodeIDX : osmData'[i] = osmData[i]
      /\ osmData'[nodeIDX + 1] = d
  BY <1>1, <1>4
<1>6. searchNodes' \in [Batches -> Seq(Nat)]
  BY <1>1, <1>4
<1>7. \A i \in 1..nodeIDX : osmData[i].obj # d.obj
  <2>. SUFFICES ASSUME NEW i \in 1..nodeIDX, osmData[i].obj = Current(b)  PROVE FALSE
    BY <1>3
  <2>1. Current(b).at < pos[b]
    BY <1>1, <1>2, <1>5 DEF Passed
  <2>. QED  BY <2>1, <1>1, <1>2
<1>8. DocIDsDense'
  BY <1>1, <1>3, <1>4, <1>5, <1>7 DEF DocIDsDense
<1>9. PosInBatch'
  <2>. SUFFICES ASSUME NEW c \in Batches
                PROVE  /\ pos'[c] \in c.start..(Last(c) + 1)
                       /\ pc'[c] = "add" => pos'[c] <= Last(c)
    BY DEF PosInBatch
  <2>1. CASE c = b
    <3>1. pos'[c] = pos[c] + 1 /\ pos[c] \in c.start..(Last(c) + 1) /\ pc'[c] # "add"
      BY <2>1, <1>1, <1>4 DEF PosInBatch
    <3>2. Last(c) \in Nat /\ c.start \in Nat
      BY BatchType, InputType
    <3>. QED  BY <3>1, <3>2, <2>1, <1>2
  <2>2. CASE c # b
    BY <2>2, <1>1, <1>4 DEF PosInBatch
  <2>. QED  BY <2>1, <2>2
<1>10. Passed'
  <2>. SUFFICES ASSUME NEW c \in Batches, NEW i \in 1..(nodeIDX + 1),
                       InBatch(c, osmData'[i].obj)
                PROVE  osmData'[i].obj.at < pos'[c]
    BY <1>5 DEF Passed
  <2>1. pos'[c] = (IF c = b THEN pos[c] + 1 ELSE pos[c]) /\ pos[c] \in Nat
    BY <1>1, <1>4
  <2>2. CASE i = nodeIDX + 1
    <3>1. osmData'[i].obj = Current(b)
      BY <2>2, <1>3, <1>5
    <3>2. c = b
      BY <3>1, <1>2, BatchesDisjoint
    <3>. QED  BY <3>1, <3>2, <2>1, <1>2
  <2>3. CASE i \in 1..nodeIDX
    <3>1. osmData'[i].obj = osmData[i].obj /\ osmData[i].obj.at < pos[c]
      BY <2>3, <1>1, <1>5 DEF Passed
    <3>2. osmData'[i].obj.at \in Int
      BY BatchType, InputType DEF InBatch
    <3>. QED  BY <3>1, <3>2, <2>1
  <2>. QED  BY <2>2, <2>3, <1>1
<1>11. BufferedIDs'
  <2>. SUFFICES ASSUME NEW c \in Batches, NEW i \in DOMAIN searchNodes'[c]
                PROVE  searchNodes'[c][i] < nodeIDX + 1
    BY <1>4 DEF BufferedIDs
  <2>1. CASE c # b
    <3>1. searchNodes'[c] = searchNodes[c] /\ searchNodes[c] \in Seq(Nat)
      BY <2>1, <1>1, <1>4
    <3>2. searchNodes[c][i] < nodeIDX /\ searchNodes[c][i] \in Nat
      BY <3>1, <1>1 DEF BufferedIDs
    <3>. QED  BY <3>1, <3>2, <1>1
  <2>2. CASE c = b
    <3>1. searchNodes'[c] = Append(searchNodes[c], nodeIDX) /\ searchNodes[c] \in Seq(Nat)
      BY <2>2, <1>1, <1>4
    <3>2. \A k \in 1..Len(searchNodes[c]) :
            searchNodes[c][k] < nodeIDX /\ searchNodes[c][k] \in Nat
      BY <3>1, <1>1 DEF BufferedIDs
    <3>. QED  BY <3>1, <3>2, <1>1
  <2>. QED  BY <2>1, <2>2
<1>. QED  BY <1>1, <1>4, <1>5, <1>6, <1>8, <1>9, <1>10, <1>11 DEF Numbering

LEMMA AddObjectKeeps ==
  ASSUME IInv, NEW b \in Batches, AddObject(b)  PROVE IInv'
<1>1. inv' = [inv EXCEPT ![b] = [f \in Fields |-> Started]] \/ UNCHANGED inv
  BY DEF AddObject, StartInverting
<1>2. /\ inv' \in [Batches -> [Fields -> InvState]]
      /\ \A c \in Batches, g \in Fields : c # b => inv'[c][g] = inv[c][g]
      /\ Segmenting'
  <2>1. CASE inv' = [inv EXCEPT ![b] = [f \in Fields |-> Started]]
    BY <2>1, AllInverting DEF AddObject
  <2>2. CASE UNCHANGED inv
    BY <2>2, SegmentingUnchanged
    DEF AddObject, segmentVars, IInv, TypeOK, InvState, InvPc
  <2>. QED  BY <1>1, <2>1, <2>2
<1>3. \A n \in DOMAIN nodeBoundingBox' : nodeBoundingBox'[n] \in Box
  BY CurrentType, SetBoxType DEF AddObject, IInv, TypeOK, Numbering, PosInBatch
<1>4. /\ pc' \in [Batches -> {"scan", "add", "flush", "save", "publish", "fail", "done"}]
      /\ pos' \in [Batches -> Nat]
  <2>1. \E to \in {"flush", "scan"} : pc' = [pc EXCEPT ![b] = to]
    BY DEF AddObject
  <2>. QED  BY <2>1 DEF IInv, TypeOK, AddObject
<1>5. TypeOK'
  BY <1>2, <1>3, <1>4, AddObjectNumbers
  DEF IInv, TypeOK, AddObject, Doc, InvState, InvPc, diskVars, mainVars
<1>6. Flushing'
  <2>1. /\ \A c \in Batches : c # b => pc'[c] = pc[c]
        /\ pc[b] = "add" /\ pc'[b] \in {"scan", "flush"}
        /\ pc'[b] = "scan" => UNCHANGED inv
    BY DEF IInv, TypeOK, AddObject
  <2>2. UNCHANGED <<coll, main>>
    BY DEF AddObject, mainVars
  <2>3. \A g \in Fields : inv'[b][g].parsed = 0
    <3>1. CASE inv' = [inv EXCEPT ![b] = [f \in Fields |-> Started]]
      BY <3>1, AllInverting DEF Started, NotStarted
    <3>2. CASE UNCHANGED inv
      BY <2>1, <3>2 DEF IInv, Flushing
    <3>. QED  BY <1>1, <3>1, <3>2
  <2>4. \A c \in Batches : /\ searchNodes'[c] \in Seq(Nat)
                           /\ c # b => searchNodes'[c] = searchNodes[c]
    BY AddObjectNumbers DEF AddObject, IInv, TypeOK
  <2>5. \A c \in Batches, g \in Fields : inv'[c][g].parsed <= Len(searchNodes'[c])
    <3>. SUFFICES ASSUME NEW c \in Batches, NEW g \in Fields
                  PROVE  inv'[c][g].parsed <= Len(searchNodes'[c])
      OBVIOUS
    <3>1. CASE c = b
      BY <2>3, <2>4, <3>1
    <3>2. CASE c # b
      <4>1. inv[c][g].parsed <= Len(searchNodes[c])
        BY DEF IInv, Flushing
      <4>2. inv'[c][g] = inv[c][g]
        BY <1>2, <3>2
      <4>3. searchNodes'[c] = searchNodes[c]
        BY <2>4, <3>2
      <4>. QED  BY <4>1, <4>2, <4>3
    <3>. QED  BY <3>1, <3>2
  <2>6. \A c \in Batches, g \in Fields :
          /\ pc'[c] \in {"scan", "add"} => inv'[c][g].pc = "idle"
          /\ inv'[c][g].pc = "idle" => inv'[c][g].parsed = 0
    BY <1>2, <2>1, <2>3 DEF IInv, Flushing
  <2>. QED  BY <1>2, <2>1, <2>2, <2>5, <2>6 DEF IInv, Flushing, BatchesOf
<1>. QED  BY <1>2, <1>5, <1>6, AddObjectNumbers DEF IInv

LEMMA EndBatchKeeps ==
  ASSUME IInv, NEW b \in Batches, EndBatch(b)  PROVE IInv'
<1>1. CASE pc' = [pc EXCEPT ![b] = "done"] /\ UNCHANGED inv
  <2>1. TypeOK'
    BY <1>1, MovesType DEF IInv, TypeOK, EndBatch, lockVars, diskVars, mainVars
  <2>2. Numbering'
    BY <1>1, NumberingMoves DEF EndBatch, lockVars
  <2>3. Segmenting'
    BY <1>1, SegmentingUnchanged DEF IInv, EndBatch, lockVars, segmentVars
  <2>4. Flushing'
    BY <1>1, MovesType DEF IInv, Flushing, EndBatch, mainVars, BatchesOf
  <2>. QED  BY <2>1, <2>2, <2>3, <2>4 DEF IInv
<1>2. CASE pc' = [pc EXCEPT ![b] = "flush"] /\ StartInverting(b)
  <2>1. /\ inv' \in [Batches -> [Fields -> InvState]]
        /\ \A c \in Batches, g \in Fields : c # b => inv'[c][g] = inv[c][g]
        /\ Segmenting'
    BY <1>2, AllInverting DEF StartInverting, EndBatch, lockVars
  <2>2. TypeOK'
    BY <1>2, <2>1, MovesType
    DEF IInv, TypeOK, EndBatch, InvState, InvPc, lockVars, diskVars, mainVars
  <2>3. Numbering'
    BY <1>2, NumberingMoves DEF EndBatch, lockVars
  <2>4. Flushing'
    <3>1. pc'[b] = "flush" /\ \A c \in Batches : c # b => pc'[c] = pc[c]
      BY <1>2, MovesType DEF IInv
    <3>2. \A g \in Fields : inv'[b][g].parsed = 0
      BY <1>2, AllInverting DEF StartInverting, Started, NotStarted
    <3>3. Len(searchNodes[b]) >= 0
      BY DEF IInv, TypeOK
    <3>. QED  BY <2>1, <3>1, <3>2, <3>3, FlushingGoesOn DEF EndBatch, mainVars
  <2>. QED  BY <2>1, <2>2, <2>3, <2>4 DEF IInv
<1>. QED  BY <1>1, <1>2 DEF EndBatch

LEMMA ReceiveInvertedKeeps ==
  ASSUME IInv, NEW b \in Batches, NEW f \in Fields, ReceiveInverted(b, f)  PROVE IInv'
<1>1. PICK w \in InvState : /\ w = [inv[b][f] EXCEPT !.pc = "done"]
                            /\ w.pc = "done" /\ w.parsed = inv[b][f].parsed
                            /\ inv' = [inv EXCEPT ![b][f] = w]
  <2>1. inv[b][f] \in InvState /\ "done" \in InvPc
    BY DEF IInv, TypeOK, InvState, InvPc
  <2>2. [inv[b][f] EXCEPT !.pc = "done"] \in InvState
    BY <2>1 DEF InvState
  <2>. QED  BY <2>1, <2>2 DEF ReceiveInverted, InvState
<1>2. /\ inv' \in [Batches -> [Fields -> InvState]]
      /\ inv'[b][f] = w
      /\ \A c \in Batches, g \in Fields : ~(c = b /\ g = f) => inv'[c][g] = inv[c][g]
  <2>1. inv' = [inv EXCEPT ![b][f] = w]
    BY <1>1
  <2>2. IInv /\ w \in InvState /\ b \in Batches /\ f \in Fields
    OBVIOUS
  <2>. QED  BY ONLY <2>1, <2>2, OneInverting, ZenonT(60)
<1>3. PICK to \in {"flush", "save", "fail"} : pc' = [pc EXCEPT ![b] = to]
  BY DEF ReceiveInverted, AfterResult
<1>4. /\ pc' \in [Batches -> {"scan", "add", "flush", "save", "publish", "fail", "done"}]
      /\ pc'[b] = to
      /\ \A c \in Batches : c # b => pc'[c] = pc[c]
  BY <1>3, MovesType DEF IInv
<1>5. TypeOK'
  BY <1>2, <1>4
  DEF IInv, TypeOK, ReceiveInverted, InvState, InvPc, lockVars, diskVars, mainVars
<1>6. Numbering'
  BY <1>3, NumberingMoves DEF ReceiveInverted, lockVars
<1>7. Segmenting'
  BY <1>1, <1>2, SegmentingReleases DEF ReceiveInverted, lockVars
<1>8. Flushing'
  <2>1. \A g \in Fields : /\ inv'[b][g].parsed <= Len(searchNodes[b])
                          /\ inv'[b][g].pc = "idle" => inv'[b][g].parsed = 0
    BY <1>1, <1>2 DEF IInv, Flushing
  <2>2. /\ pc[b] # "done" /\ pc'[b] \notin {"scan", "add", "done"}
        /\ \A c \in Batches : c # b =>
             pc'[c] = pc[c] /\ \A g \in Fields : inv'[c][g] = inv[c][g]
        /\ UNCHANGED <<searchNodes, coll, main>>
    BY <1>2, <1>4 DEF ReceiveInverted, mainVars
  <2>3. IInv /\ b \in Batches
    OBVIOUS
  <2>. QED  BY ONLY <2>1, <2>2, <2>3, FlushingGoesOn
<1>. QED  BY <1>5, <1>6, <1>7, <1>8 DEF IInv

LEMMA SaveDocsKeeps ==
  ASSUME IInv, NEW b \in Batches, SaveDocs(b)  PROVE IInv'
<1>1. PICK to \in {"publish", "fail"} : pc' = [pc EXCEPT ![b] = to]
  BY DEF SaveDocs
<1>2. docStore' \subseteq Nat
  <2>1. searchNodes[b] \in Seq(Nat) /\ docStore \subseteq Nat
    BY DEF IInv, TypeOK
  <2>2. Saved(b) \subseteq Nat
    BY <2>1 DEF Saved
  <2>. QED  BY <2>1, <2>2 DEF SaveDocs
<1>3. TypeOK'
  BY <1>1, <1>2, MovesType DEF IInv, TypeOK, SaveDocs, lockVars, mainVars
<1>4. Numbering'
  BY <1>1, NumberingMoves DEF SaveDocs, lockVars
<1>5. Segmenting'
  BY SegmentingUnchanged DEF IInv, SaveDocs, lockVars, segmentVars
<1>6. Flushing'
  <2>1. pc'[b] = to /\ \A c \in Batches : c # b => pc'[c] = pc[c]
    BY <1>1, MovesType DEF IInv
  <2>. QED  BY <2>1, FlushingGoesOn DEF SaveDocs, mainVars, IInv, Flushing
<1>. QED  BY <1>3, <1>4, <1>5, <1>6 DEF IInv

LEMMA PublishKeeps ==
  ASSUME IInv, NEW b \in Batches, Publish(b)  PROVE IInv'
<1>1. /\ inv' \in [Batches -> [Fields -> InvState]]
      /\ \A c \in Batches, g \in Fields : IF c = b THEN inv'[c][g] = NotStarted
                                          ELSE inv'[c][g] = inv[c][g]
      /\ Segmenting'
  BY AllInverting DEF Publish
<1>2. pc' = [pc EXCEPT ![b] = "scan"]
  BY DEF Publish
<1>3. /\ searchNodes' \in [Batches -> Seq(Nat)]
      /\ allSearchNodes' \in Seq(Nat)
      /\ \A c \in Batches : searchNodes'[c] = searchNodes[c] \/ searchNodes'[c] = <<>>
  BY DEF IInv, TypeOK, Publish, ResetBuffer
<1>4. TypeOK'
  BY <1>1, <1>2, <1>3, MovesType
  DEF IInv, TypeOK, Publish, InvState, InvPc, diskVars, mainVars
<1>5. Numbering'
  <2>1. BufferedIDs'
    <3>. SUFFICES ASSUME NEW c \in Batches, NEW i \in DOMAIN searchNodes'[c]
                  PROVE  searchNodes'[c][i] < nodeIDX'
      BY DEF BufferedIDs
    <3>1. searchNodes'[c] # <<>>
      OBVIOUS
    <3>. QED  BY <1>3, <3>1 DEF IInv, Numbering, BufferedIDs, Publish
  <2>2. PosInBatch'
    BY <1>2, MovesType DEF IInv, Numbering, PosInBatch, Publish
  <2>. QED  BY <2>1, <2>2 DEF IInv, Numbering, DocIDsDense, Passed, Publish
<1>6. Flushing'
  <2>1. /\ searchNodes'[b] = <<>>
        /\ \A c \in Batches : c # b => searchNodes'[c] = searchNodes[c]
    BY DEF IInv, TypeOK, Publish, ResetBuffer
  <2>2. \A c \in Batches, g \in Fields : /\ inv'[c][g].parsed <= Len(searchNodes'[c])
                                         /\ inv'[c][g].pc = "idle" => inv'[c][g].parsed = 0
    BY <1>1, <2>1 DEF IInv, Flushing, NotStarted
  <2>3. /\ pc[b] = "publish" /\ pc'[b] = "scan"
        /\ \A c \in Batches : c # b => pc'[c] = pc[c]
        /\ \A g \in Fields : inv'[b][g].pc = "idle"
        /\ UNCHANGED <<coll, main>>
    BY <1>1, <1>2, MovesType DEF IInv, Publish, mainVars, NotStarted
  <2>4. \A c \in Batches :
          pc'[c] \in {"scan", "add"} => \A g \in Fields : inv'[c][g].pc = "idle"
    BY <1>1, <2>3 DEF IInv, Flushing
  <2>5. \A c \in Batches : pc'[c] = "done" =>
          coll[c.kind] = "err" \/ \A g \in Fields : inv'[c][g].pc = "idle"
    BY <1>1, <2>3 DEF IInv, Flushing
  <2>6. \A k \in Kinds : coll[k] = "nil" => \A c \in BatchesOf(k) : pc'[c] = "done"
    BY <2>3 DEF IInv, Flushing, BatchesOf
  <2>. QED  BY <2>2, <2>3, <2>4, <2>5, <2>6 DEF IInv, Flushing, BatchesOf
<1>. QED  BY <1>1, <1>4, <1>5, <1>6 DEF IInv

LEMMA CollectErrorKeeps ==
  ASSUME IInv, NEW b \in Batches, CollectError(b)  PROVE IInv'
<1>1. pc' = [pc EXCEPT ![b] = "done"] /\ coll' = [coll EXCEPT ![b.kind] = "err"]
  BY DEF CollectError
<1>2. b.kind \in Kinds
  BY BatchType
<1>3. TypeOK'
  BY <1>1, <1>2, MovesType DEF IInv, TypeOK, CollectError, lockVars, diskVars
<1>4. Numbering'
  BY <1>1, NumberingMoves DEF CollectError, lockVars
<1>5. Segmenting'
  BY SegmentingUnchanged DEF IInv, CollectError, lockVars, segmentVars
<1>6. Flushing'
  <2>1. /\ coll \in [Kinds -> {"range", "nil", "err"}] /\ coll[b.kind] = "range"
        /\ coll'[b.kind] = "err"
        /\ \A k \in Kinds : k # b.kind => coll'[k] = coll[k]
    BY <1>1, <1>2 DEF IInv, TypeOK, CollectError
  <2>. QED  BY <1>1, <1>2, <2>1, MovesType, BatchType
       DEF IInv, Flushing, CollectError, BatchesOf
<1>. QED  BY <1>3, <1>4, <1>5, <1>6 DEF IInv

-----------------------------------------------------------------------------
(* The inverting goroutines                                                *)

LEMMA InvertingMoves ==
  ASSUME IInv, NEW b \in Batches, NEW f \in Fields, NEW w \in InvState,
         inv[b][f].pc # "idle", w.pc # "idle", w.parsed <= Len(searchNodes[b]),
         inv' = [inv EXCEPT ![b][f] = w],
         UNCHANGED <<numberVars, coll, main>>
  PROVE  /\ inv' \in [Batches -> [Fields -> InvState]]
         /\ inv'[b][f] = w
         /\ \A c \in Batches, g \in Fields : ~(c = b /\ g = f) => inv'[c][g] = inv[c][g]
         /\ Numbering'
         /\ Flushing'
<1>1. /\ inv' \in [Batches -> [Fields -> InvState]]
      /\ inv'[b][f] = w
      /\ \A c \in Batches, g \in Fields : ~(c = b /\ g = f) => inv'[c][g] = inv[c][g]
  BY OneInverting, ZenonT(60)
<1>2. Numbering'
  BY NumberingUnchanged DEF IInv
<1>3. Flushing'
  BY <1>1 DEF IInv, Flushing, numberVars, BatchesOf
<1>. QED  BY <1>1, <1>2, <1>3

LEMMA InvStateOf ==
  ASSUME IInv, NEW b \in Batches, NEW f \in Fields
  PROVE  inv[b][f] \in InvState
BY DEF IInv, TypeOK, InvState, InvPc

\* A goroutine goes to send or on with the parse: it holds no number it did not.
LEMMA InvertingReleases ==
  ASSUME IInv, NEW b \in Batches, NEW f \in Fields, NEW w \in InvState,
         inv[b][f].pc # "idle", inv' = [inv EXCEPT ![b][f] = w],
         w.pc \in {"parse", "send"}, w.parsed <= Len(searchNodes[b]),
         UNCHANGED <<numberVars, coll, main, block, intermediateIndices>>
  PROVE  /\ inv' \in [Batches -> [Fields -> InvState]]
         /\ Numbering' /\ Flushing' /\ Segmenting'
<1>1. /\ inv' \in [Batches -> [Fields -> InvState]]
      /\ inv'[b][f] = w
      /\ \A c \in Batches, g \in Fields : ~(c = b /\ g = f) => inv'[c][g] = inv[c][g]
      /\ Numbering' /\ Flushing'
  BY InvertingMoves
<1>2. Segmenting'
  BY <1>1, SegmentingReleases
<1>. QED  BY <1>1, <1>2

LEMMA ParseNodeKeeps ==
  ASSUME IInv, NEW b \in Batches, NEW f \in Fields, ParseNode(b, f)  PROVE IInv'
<1>1. PICK w \in InvState : w = [inv[b][f] EXCEPT !.parsed = inv[b][f].parsed + 1]
  <2>1. inv[b][f] \in InvState
    BY InvStateOf
  <2>2. inv[b][f].parsed + 1 \in Nat
    BY <2>1 DEF InvState
  <2>. QED  BY <2>1, <2>2 DEF InvState
<1>2. w.pc = "parse" /\ inv[b][f].pc = "parse" /\ w.parsed <= Len(searchNodes[b])
  <2>1. searchNodes[b] \in Seq(Nat) /\ inv[b][f] \in InvState
    BY InvStateOf DEF IInv, TypeOK
  <2>. QED  BY <1>1, <2>1 DEF InvState, ParseNode, Inverting
<1>3. inv' = [inv EXCEPT ![b][f] = w]
  BY <1>1 DEF ParseNode
<1>4. /\ inv' \in [Batches -> [Fields -> InvState]]
      /\ Numbering' /\ Flushing' /\ Segmenting'
  BY <1>2, <1>3, InvertingReleases DEF ParseNode, numberVars, mainVars
<1>5. docWordCount' \in [DocIDs -> Nat]
  <2>1. PICK d : /\ d = searchNodes[b][inv[b][f].parsed + 1]
                 /\ docWordCount' = [docWordCount EXCEPT ![d] = @ + Words(d, f)]
    BY DEF ParseNode
  <2>2. /\ searchNodes[b] \in Seq(Nat) /\ inv[b][f].parsed \in Nat
        /\ inv[b][f].parsed < Len(searchNodes[b])
    BY DEF IInv, TypeOK, ParseNode
  <2>3. inv[b][f].parsed + 1 \in DOMAIN searchNodes[b]
    BY <2>2
  <2>4. d \in Nat /\ d < nodeIDX
    BY <2>1, <2>2, <2>3 DEF IInv, Numbering, BufferedIDs
  <2>5. /\ osmData \in Seq([ID: Nat, obj: Objects]) /\ nodeIDX = Len(osmData)
        /\ docWordCount \in [DocIDs -> Nat]
    BY DEF IInv, TypeOK, Numbering, DocIDsDense
  <2>6. osmData[d + 1].obj \in Objects
    <3>1. d + 1 \in 1..Len(osmData)
      BY <2>4, <2>5
    <3>2. osmData \in Seq(Doc)
      BY <2>5 DEF Doc
    <3>3. osmData[d + 1] \in Doc
      BY <3>1, <3>2
    <3>. QED  BY <3>3 DEF Doc
  <2>7. PICK n \in Nat : n = Words(d, f)
    BY <2>6, ObjType DEF Words
  <2>8. docWordCount' = [docWordCount EXCEPT ![d] = @ + n]
    BY <2>1, <2>7
  <2>9. docWordCount \in [DocIDs -> Nat] /\ n \in Nat
    BY <2>5
  <2>10. CASE d \in DocIDs
    BY ONLY <2>8, <2>9, <2>10
  <2>11. CASE d \notin DocIDs
    BY ONLY <2>8, <2>9, <2>11
  <2>. QED  BY <2>10, <2>11
<1>6. TypeOK'
  BY <1>4, <1>5
  DEF IInv, TypeOK, ParseNode, InvState, InvPc, diskVars, mainVars
<1>. QED  BY <1>4, <1>6 DEF IInv

LEMMA InvertCancelledKeeps ==
  ASSUME IInv, NEW b \in Batches, NEW f \in Fields, InvertCancelled(b, f)  PROVE IInv'
<1>1. PICK w \in InvState : w = [inv[b][f] EXCEPT !.pc = "send", !.err = TRUE]
  BY InvStateOf DEF InvState, InvPc
<1>2. w.pc = "send" /\ inv[b][f].pc = "parse" /\ w.parsed <= Len(searchNodes[b])
  BY <1>1, InvStateOf DEF InvState, InvertCancelled, Inverting, IInv, Flushing
<1>3. inv' = [inv EXCEPT ![b][f] = w]
  BY <1>1 DEF InvertCancelled
<1>4. /\ inv' \in [Batches -> [Fields -> InvState]]
      /\ Numbering' /\ Flushing' /\ Segmenting'
  BY <1>2, <1>3, InvertingReleases DEF InvertCancelled, numberVars, lockVars, mainVars
<1>5. TypeOK'
  BY <1>4 DEF IInv, TypeOK, InvertCancelled, InvState, InvPc, lockVars, diskVars, mainVars
<1>. QED  BY <1>4, <1>5 DEF IInv

\* The number a goroutine takes is larger than all held and listed ones.
LEMMA AllocBlockKeeps ==
  ASSUME IInv, NEW b \in Batches, NEW f \in Fields, AllocBlock(b, f)  PROVE IInv'
<1>1. PICK w \in InvState : /\ w = [inv[b][f] EXCEPT !.pc = "register", !.block = block]
                            /\ w.pc = "register" /\ w.block = block
                            /\ w.parsed <= Len(searchNodes[b])
  <2>1. block \in Nat /\ "register" \in InvPc
    BY DEF IInv, TypeOK, InvPc
  <2>2. inv[b][f] \in InvState
    BY InvStateOf
  <2>3. [inv[b][f] EXCEPT !.pc = "register", !.block = block] \in InvState
    BY <2>1, <2>2 DEF InvState
  <2>4. /\ [inv[b][f] EXCEPT !.pc = "register", !.block = block].pc = "register"
        /\ [inv[b][f] EXCEPT !.pc = "register", !.block = block].block = block
        /\ [inv[b][f] EXCEPT !.pc = "register", !.block = block].parsed = inv[b][f].parsed
        /\ inv[b][f].parsed <= Len(searchNodes[b])
    BY <2>2 DEF InvState, IInv, Flushing
  <2>. QED  BY <2>3, <2>4
<1>2. inv[b][f].pc = "parse" /\ inv' = [inv EXCEPT ![b][f] = w]
  BY <1>1 DEF AllocBlock, Inverting
<1>3. /\ inv' \in [Batches -> [Fields -> InvState]]
      /\ inv'[b][f] = w
      /\ \A c \in Batches, g \in Fields : ~(c = b /\ g = f) => inv'[c][g] = inv[c][g]
      /\ Numbering' /\ Flushing'
  <2>1. UNCHANGED <<numberVars, coll, main>>
    BY DEF AllocBlock, numberVars, mainVars
  <2>2. /\ IInv /\ b \in Batches /\ f \in Fields /\ w \in InvState
        /\ inv[b][f].pc # "idle" /\ w.pc # "idle"
        /\ inv' = [inv EXCEPT ![b][f] = w]
    BY <1>1, <1>2
  <2>3. w.parsed <= Len(searchNodes[b])
    BY <1>1
  <2>. QED  BY ONLY <2>1, <2>2, <2>3, InvertingMoves
<1>4. /\ block \in Nat /\ block' = block + 1 /\ UNCHANGED intermediateIndices
      /\ intermediateIndices \in Seq(Segs)
  BY DEF IInv, TypeOK, AllocBlock, TakeBlock, Segs
<1>5. \A i \in DOMAIN intermediateIndices :
        intermediateIndices[i].block \in Nat /\ intermediateIndices[i].block < block
  <2>1. \A i \in DOMAIN intermediateIndices : intermediateIndices[i] \in Segs
    BY <1>4
  <2>. QED  BY <2>1 DEF IInv, Segmenting, SegmentsDistinct, Segs
<1>6. \A c \in Batches, g \in Fields :
        /\ inv[c][g].block \in Nat
        /\ HasBlock(c, g) => inv[c][g].block < block
  BY InvStateOf DEF IInv, Segmenting, Unlisted, InvState
<1>7. /\ inv'[b][f].pc = "register" /\ inv'[b][f].block = block
      /\ \A c \in Batches, g \in Fields : ~(c = b /\ g = f) =>
           /\ inv'[c][g].pc = inv[c][g].pc
           /\ inv'[c][g].block = inv[c][g].block
           /\ HasBlock(c, g)' <=> HasBlock(c, g)
  BY <1>1, <1>3 DEF HasBlock
<1>8. SegmentsDistinct'
  <2>1. \A i \in DOMAIN intermediateIndices' : intermediateIndices'[i].block < block'
    BY <1>4, <1>5
  <2>2. \A i, j \in DOMAIN intermediateIndices' :
          intermediateIndices'[i].block = intermediateIndices'[j].block => i = j
    BY <1>4 DEF IInv, Segmenting, SegmentsDistinct
  <2>3. ASSUME NEW b1 \in Batches, NEW b2 \in Batches, NEW f1 \in Fields, NEW f2 \in Fields,
               HasBlock(b1, f1)', HasBlock(b2, f2)', inv'[b1][f1].block = inv'[b2][f2].block
        PROVE  <<b1, f1>> = <<b2, f2>>
    <3>1. CASE b1 = b /\ f1 = f
      <4>. SUFFICES ASSUME ~(b2 = b /\ f2 = f)  PROVE FALSE
        BY <3>1
      <4>. QED  BY <2>3, <3>1, <1>4, <1>6, <1>7
    <3>2. CASE b2 = b /\ f2 = f
      <4>. SUFFICES ASSUME ~(b1 = b /\ f1 = f)  PROVE FALSE
        BY <3>2
      <4>. QED  BY <2>3, <3>2, <1>4, <1>6, <1>7
    <3>3. CASE ~(b1 = b /\ f1 = f) /\ ~(b2 = b /\ f2 = f)
      BY <2>3, <3>3, <1>7 DEF IInv, Segmenting, SegmentsDistinct
    <3>. QED  BY <3>1, <3>2, <3>3
  <2>. QED  BY <2>1, <2>2, <2>3 DEF SegmentsDistinct
<1>10. Unlisted'
  <2>. SUFFICES ASSUME NEW c \in Batches, NEW g \in Fields
                PROVE  /\ HasBlock(c, g)' => inv'[c][g].block < block'
                       /\ inv'[c][g].pc = "register" =>
                            \A i \in DOMAIN intermediateIndices' :
                              intermediateIndices'[i].block # inv'[c][g].block
    BY DEF Unlisted
  <2>1. CASE c = b /\ g = f
    BY <2>1, <1>4, <1>5, <1>7
  <2>2. CASE ~(c = b /\ g = f)
    <3>1. HasBlock(c, g)' => inv'[c][g].block < block'
      BY <2>2, <1>4, <1>6, <1>7
    <3>2. inv'[c][g].pc = "register" =>
            \A i \in DOMAIN intermediateIndices :
              intermediateIndices[i].block # inv'[c][g].block
      BY <2>2, <1>7 DEF IInv, Segmenting, Unlisted
    <3>. QED  BY <3>1, <3>2, <1>4
  <2>. QED  BY <2>1, <2>2
<1>11. TypeOK'
  <2>1. block' \in Nat
    BY <1>4
  <2>. QED  BY <1>3, <2>1
       DEF IInv, TypeOK, AllocBlock, InvState, InvPc, diskVars, mainVars
<1>. QED  BY <1>3, <1>8, <1>10, <1>11 DEF IInv, Segmenting

\* A goroutine whose segment could not be opened or written.
LEMMA InvertFailsKeeps ==
  ASSUME IInv, NEW b \in Batches, NEW f \in Fields, InvertFails(b, f),
         inv[b][f].pc # "idle",
         UNCHANGED <<lockVars, diskVars, mainVars, pc, pos, searchNodes>>
  PROVE  IInv'
<1>1. PICK w \in InvState : w = [inv[b][f] EXCEPT !.pc = "send", !.err = TRUE]
  BY InvStateOf DEF InvState, InvPc
<1>2. w.pc = "send" /\ w.parsed <= Len(searchNodes[b])
  BY <1>1, InvStateOf DEF InvState, IInv, Flushing
<1>3. inv' = [inv EXCEPT ![b][f] = w]
  BY <1>1 DEF InvertFails
<1>4. /\ inv' \in [Batches -> [Fields -> InvState]]
      /\ Numbering' /\ Flushing' /\ Segmenting'
  BY <1>2, <1>3, InvertingReleases DEF numberVars, lockVars, mainVars
<1>5. TypeOK'
  BY <1>4 DEF IInv, TypeOK, InvState, InvPc, lockVars, diskVars, mainVars
<1>. QED  BY <1>4, <1>5 DEF IInv

\* A registered segment has a number no other listed segment has.
LEMMA RegisterSegmentKeeps ==
  ASSUME IInv, NEW b \in Batches, NEW f \in Fields, RegisterSegment(b, f)  PROVE IInv'
<1>1. CASE InvertFails(b, f) /\ UNCHANGED intermediateIndices
  BY <1>1, InvertFailsKeeps DEF RegisterSegment, Inverting, lockVars
<1>2. CASE /\ inv' = [inv EXCEPT ![b][f].pc = "write"]
           /\ intermediateIndices' = Append(intermediateIndices, Segment(b, f))
  <2>0. inv[b][f].pc = "register" /\ inv[b][f] \in InvState
    BY InvStateOf DEF RegisterSegment, Inverting
  <2>1. PICK w \in InvState : /\ w = [inv[b][f] EXCEPT !.pc = "write"]
                              /\ w.pc = "write" /\ w.block = inv[b][f].block
                              /\ w.parsed <= Len(searchNodes[b])
    <3>1. "write" \in InvPc
      BY DEF InvPc
    <3>2. [inv[b][f] EXCEPT !.pc = "write"] \in InvState
      BY <2>0, <3>1 DEF InvState
    <3>. QED  BY <2>0, <3>2 DEF InvState, IInv, Flushing
  <2>2. inv' = [inv EXCEPT ![b][f] = w]
    BY <1>2, <2>1
  <2>3. /\ inv' \in [Batches -> [Fields -> InvState]]
        /\ inv'[b][f] = w
        /\ \A c \in Batches, g \in Fields : ~(c = b /\ g = f) => inv'[c][g] = inv[c][g]
        /\ Numbering' /\ Flushing'
    <3>1. UNCHANGED <<numberVars, coll, main>>
      BY DEF RegisterSegment, numberVars, mainVars
    <3>2. /\ IInv /\ b \in Batches /\ f \in Fields /\ w \in InvState
          /\ inv[b][f].pc # "idle" /\ w.pc # "idle"
      BY <2>0, <2>1
    <3>3. w.parsed <= Len(searchNodes[b])
      BY <2>1
    <3>. QED  BY ONLY <3>1, <3>2, <3>3, <2>2, InvertingMoves
  <2>4. PICK s \in Segs : s = Segment(b, f) /\ s.block = inv[b][f].block
    <3>1. inv[b][f].block \in Nat
      BY <2>0 DEF InvState
    <3>2. Segment(b, f) \in Segs /\ Segment(b, f).block = inv[b][f].block
      BY <3>1 DEF Segment, Segs
    <3>. QED  BY <3>2
  <2>5. /\ intermediateIndices \in Seq(Segs)
        /\ intermediateIndices' = Append(intermediateIndices, s)
        /\ UNCHANGED block
    BY <1>2, <2>4 DEF IInv, TypeOK, Segs, RegisterSegment
  <2>6. PICK n \in Nat : n = Len(intermediateIndices)
    BY <2>5
  <2>7. /\ intermediateIndices' \in Seq(Segs)
        /\ DOMAIN intermediateIndices = 1..n
        /\ DOMAIN intermediateIndices' = 1..(n + 1)
        /\ \A i \in 1..n : intermediateIndices'[i] = intermediateIndices[i]
        /\ intermediateIndices'[n + 1] = s
    BY <2>5, <2>6
  <2>8. /\ \A i \in 1..n : /\ intermediateIndices[i].block < block
                           /\ intermediateIndices[i].block # s.block
        /\ \A i, j \in 1..n :
             intermediateIndices[i].block = intermediateIndices[j].block => i = j
        /\ s.block < block
    BY <2>0, <2>4, <2>7 DEF IInv, Segmenting, SegmentsDistinct, Unlisted, HasBlock
  <2>9. \A c \in Batches, g \in Fields :
          /\ HasBlock(c, g)' <=> HasBlock(c, g)
          /\ inv'[c][g].block = inv[c][g].block
          /\ inv'[c][g].pc = "register" => inv[c][g].pc = "register" /\ ~(c = b /\ g = f)
    BY <2>0, <2>1, <2>3 DEF HasBlock
  <2>10. SegmentsDistinct'
    <3>1. \A i \in 1..(n + 1) : i = n + 1 \/ i \in 1..n
      OBVIOUS
    <3>2. \A i \in DOMAIN intermediateIndices' : intermediateIndices'[i].block < block'
      BY <2>5, <2>7, <2>8, <3>1
    <3>3. \A i, j \in DOMAIN intermediateIndices' :
            intermediateIndices'[i].block = intermediateIndices'[j].block => i = j
      BY <2>7, <2>8, <3>1
    <3>. QED  BY <2>9, <3>2, <3>3 DEF IInv, Segmenting, SegmentsDistinct
  <2>11. Unlisted'
    <3>. SUFFICES ASSUME NEW c \in Batches, NEW g \in Fields
                  PROVE  /\ HasBlock(c, g)' => inv'[c][g].block < block'
                         /\ inv'[c][g].pc = "register" =>
                              \A i \in DOMAIN intermediateIndices' :
                                intermediateIndices'[i].block # inv'[c][g].block
      BY DEF Unlisted
    <3>1. HasBlock(c, g)' => inv'[c][g].block < block'
      BY <2>5, <2>9 DEF IInv, Segmenting, Unlisted
    <3>2. ASSUME inv'[c][g].pc = "register", NEW i \in 1..(n + 1)
          PROVE  intermediateIndices'[i].block # inv'[c][g].block
      <4>1. inv[c][g].pc = "register" /\ ~(c = b /\ g = f)
        BY <2>9, <3>2
      <4>2. CASE i = n + 1
        <5>1. HasBlock(c, g) /\ HasBlock(b, f)
          BY <2>0, <4>1 DEF HasBlock
        <5>2. inv[c][g].block # inv[b][f].block
          BY <4>1, <5>1 DEF IInv, Segmenting, SegmentsDistinct
        <5>. QED  BY <4>2, <5>2, <2>4, <2>7, <2>9
      <4>3. CASE i \in 1..n
        BY <4>1, <4>3, <2>7, <2>9 DEF IInv, Segmenting, Unlisted
      <4>. QED  BY <4>2, <4>3
    <3>. QED  BY <2>7, <3>1, <3>2
  <2>12. TypeOK'
    BY <2>3, <2>7
    DEF IInv, TypeOK, RegisterSegment, InvState, InvPc, Segs, diskVars, mainVars
  <2>. QED  BY <2>3, <2>10, <2>11, <2>12 DEF IInv, Segmenting
<1>. QED  BY <1>1, <1>2 DEF RegisterSegment

LEMMA WriteSegmentKeeps ==
  ASSUME IInv, NEW b \in Batches, NEW f \in Fields, WriteSegment(b, f)  PROVE IInv'
<1>1. CASE InvertFails(b, f) /\ UNCHANGED <<files, lost>>
  BY <1>1, InvertFailsKeeps DEF WriteSegment, Inverting, diskVars
<1>2. ASSUME NEW dropped \in SUBSET Tokenized(b, f),
             files' = SegmentWithout(b, f, dropped), lost' = lost \cup ({f} \X dropped),
             inv' = [inv EXCEPT ![b][f].pc = "send"]
      PROVE  IInv'
  <2>1. inv[b][f].pc = "write" /\ inv[b][f] \in InvState
    BY InvStateOf DEF WriteSegment, Inverting
  <2>2. PICK w \in InvState : /\ w = [inv[b][f] EXCEPT !.pc = "send"]
                              /\ w.pc = "send" /\ w.parsed <= Len(searchNodes[b])
    <3>1. "send" \in InvPc
      BY DEF InvPc
    <3>2. [inv[b][f] EXCEPT !.pc = "send"] \in InvState
      BY <2>1, <3>1 DEF InvState
    <3>. QED  BY <2>1, <3>2 DEF InvState, IInv, Flushing
  <2>3. inv' = [inv EXCEPT ![b][f] = w]
    BY <1>2, <2>2
  <2>4. /\ inv' \in [Batches -> [Fields -> InvState]]
        /\ Numbering' /\ Flushing' /\ Segmenting'
    BY <2>1, <2>2, <2>3, InvertingReleases DEF WriteSegment, numberVars, lockVars, mainVars
  <2>5. Tokenized(b, f) \subseteq Nat
    <3>1. searchNodes[b] \in Seq(Nat) /\ inv[b][f].parsed \in Nat
      BY <2>1 DEF IInv, TypeOK, InvState
    <3>2. inv[b][f].parsed <= Len(searchNodes[b])
      BY DEF IInv, Flushing
    <3>3. \A i \in 1..inv[b][f].parsed : searchNodes[b][i] \in Nat
      BY <3>1, <3>2
    <3>. QED  BY <3>3 DEF Tokenized
  <2>6. Segment(b, f) \in Segs
    BY <2>1 DEF Segment, Segs, InvState
  <2>7. DOMAIN files' \subseteq Segs /\ \A s \in DOMAIN files' : files'[s] \subseteq Nat
    BY <1>2, <2>5, <2>6 DEF IInv, TypeOK, Segs, SegmentWithout
  <2>8. lost' \subseteq Fields \X Nat
    BY <1>2, <2>5 DEF IInv, TypeOK
  <2>9. TypeOK'
    BY <2>4, <2>7, <2>8
    DEF IInv, TypeOK, WriteSegment, InvState, InvPc, Segs, lockVars, mainVars
  <2>. QED  BY <2>4, <2>9 DEF IInv
<1>. QED  BY <1>1, <1>2 DEF WriteSegment

-----------------------------------------------------------------------------
(* The collectors and the main goroutine                                   *)

LEMMA CollectAllKeeps ==
  ASSUME IInv, NEW k \in Kinds, CollectAll(k)  PROVE IInv'
<1>1. TypeOK'
  BY DEF IInv, TypeOK, CollectAll, lockVars, diskVars
<1>2. Numbering'
  BY NumberingUnchanged DEF IInv, CollectAll, lockVars, numberVars
<1>3. Segmenting'
  BY SegmentingUnchanged DEF IInv, CollectAll, lockVars, segmentVars
<1>4. Flushing'
  <2>1. /\ coll[k] = "range" /\ coll'[k] = "nil"
        /\ \A x \in Kinds : x # k => coll'[x] = coll[x]
    BY DEF IInv, TypeOK, CollectAll
  <2>2. \A b \in BatchesOf(k) : pc[b] = "done"
    BY DEF CollectAll
  <2>. QED  BY <2>1, <2>2, BatchType DEF IInv, Flushing, CollectAll, BatchesOf
<1>. QED  BY <1>1, <1>2, <1>3, <1>4 DEF IInv

\* main reports success only on a way that starts when no batch is left.
LEMMA MainStepKeeps ==
  ASSUME IInv, MainStep  PROVE IInv'
<1>1. /\ UNCHANGED <<lockVars, files, lost, docStore, coll, cancelled, pc, pos, searchNodes, inv>>
      /\ main \in {"collect", "merge_name", "merge_address", "ok", "ngram"}
      /\ main = "collect" /\ main' # "failed" => \A k \in Kinds : coll[k] = "nil"
      /\ main' \in {"failed", "merge_name", "merge_address", "ok", "ngram", "saved"}
  BY DEF MainStep, ReturnError, WriteRtree, MergeName, MergeAddress, MergeField,
         BuildNgram, SaveMeta, MayFail, diskVars
<1>2. /\ rtreeFile' \in Seq([ID: Nat, obj: Objects])
      /\ docsCount' \in Nat
      /\ meta' \in Nat \cup {-1}
      /\ merged' \in [Fields -> SUBSET Nat]
  <2>1. CASE ReturnError
    BY <2>1 DEF IInv, TypeOK, ReturnError, diskVars
  <2>2. CASE WriteRtree
    BY <2>2 DEF IInv, TypeOK, WriteRtree
  <2>3. ASSUME NEW f \in Fields, NEW at, NEW next, MergeField(f, at, next)
        PROVE  /\ UNCHANGED <<rtreeFile, docsCount, meta>>
               /\ merged' \in [Fields -> SUBSET Nat]
    <3>1. CASE merged' = [merged EXCEPT ![f] = UNION {files[s] : s \in Segments(f)}]
      <4>1. Segments(f) \subseteq DOMAIN files =>
              UNION {files[s] : s \in Segments(f)} \subseteq Nat
        BY DEF IInv, TypeOK
      <4>. QED  BY <2>3, <3>1, <4>1 DEF IInv, TypeOK, MergeField
    <3>2. CASE UNCHANGED merged
      BY <2>3, <3>2 DEF IInv, TypeOK, MergeField
    <3>. QED  BY <2>3, <3>1, <3>2 DEF MergeField
  <2>4. CASE MergeName \/ MergeAddress
    BY <2>3, <2>4 DEF MergeName, MergeAddress, Fields, IInv, TypeOK
  <2>5. CASE BuildNgram
    BY <2>5 DEF IInv, TypeOK, BuildNgram, diskVars
  <2>6. CASE SaveMeta
    BY <2>6 DEF IInv, TypeOK, SaveMeta
  <2>. QED  BY <2>1, <2>2, <2>4, <2>5, <2>6 DEF MainStep
<1>3. TypeOK'
  BY <1>1, <1>2 DEF IInv, TypeOK, lockVars
<1>4. Numbering'
  BY <1>1, NumberingUnchanged DEF IInv, lockVars, numberVars
<1>5. Segmenting'
  BY <1>1, SegmentingUnchanged DEF IInv, lockVars, segmentVars
<1>6. Flushing'
  BY <1>1 DEF IInv, Flushing, BatchesOf
<1>. QED  BY <1>3, <1>4, <1>5, <1>6 DEF IInv

-----------------------------------------------------------------------------
(* The theorems                                                            *)

LEMMA InitInv == Init => IInv
<1>. SUFFICES ASSUME Init  PROVE IInv
  OBVIOUS
<1>0. NotStarted \in InvState /\ NotStarted.pc = "idle"
  BY DEF NotStarted, InvState, InvPc
<1>1. inv \in [Batches -> [Fields -> InvState]] /\
      \A b \in Batches, f \in Fields : inv[b][f].pc = "idle"
  BY <1>0 DEF Init
<1>2. \A b \in Batches : /\ b.start \in Nat /\ Last(b) \in Nat
                         /\ b.start <= Last(b) /\ pos[b] = b.start
  BY BatchType, InputType DEF Init
<1>3. TypeOK
  <2>1. /\ osmData \in Seq([ID: Nat, obj: Objects])
        /\ rtreeFile \in Seq([ID: Nat, obj: Objects])
        /\ allSearchNodes \in Seq(Nat)
        /\ intermediateIndices \in Seq([field: Fields, block: Nat])
        /\ searchNodes \in [Batches -> Seq(Nat)]
    BY DEF Init
  <2>2. /\ pos \in [Batches -> Nat]
        /\ docWordCount \in [DocIDs -> Nat]
        /\ merged \in [Fields -> SUBSET Nat]
        /\ DOMAIN files = {} /\ DOMAIN nodeBoundingBox = {}
    BY <1>2 DEF Init
  <2>. QED  BY <1>1, <2>1, <2>2 DEF Init, TypeOK, InvState, InvPc
<1>4. Numbering
  BY <1>2 DEF Init, Numbering, DocIDsDense, PosInBatch, Passed, BufferedIDs
<1>5. Segmenting
  BY <1>1 DEF Init, Segmenting, SegmentsDistinct, Unlisted, HasBlock
<1>6. Flushing
  <2>1. \A b \in Batches, f \in Fields : inv[b][f].parsed = 0 /\ Len(searchNodes[b]) = 0
    BY DEF Init, NotStarted
  <2>. QED  BY <1>1, <2>1 DEF Init, Flushing
<1>. QED  BY <1>3, <1>4, <1>5, <1>6 DEF IInv

LEMMA StepInv == IInv /\ [Next]_vars => IInv'
<1>. SUFFICES ASSUME IInv, [Next]_vars  PROVE IInv'
  OBVIOUS
<1>1. ASSUME NEW b \in Batches, BatchStep(b)  PROVE IInv'
  BY <1>1, SeeCancelKeeps, SkipKeeps, CheckDuplicateKeeps, AddObjectKeeps,
     EndBatchKeeps, ReceiveInvertedKeeps, SaveDocsKeeps, PublishKeeps, CollectErrorKeeps
  DEF BatchStep
<1>2. ASSUME NEW b \in Batches, NEW f \in Fields, InvertStep(b, f)  PROVE IInv'
  BY <1>2, ParseNodeKeeps, InvertCancelledKeeps, AllocBlockKeeps,
     RegisterSegmentKeeps, WriteSegmentKeeps
  DEF InvertStep
<1>3. ASSUME NEW k \in Kinds, CollectAll(k)  PROVE IInv'
  BY <1>3, CollectAllKeeps
<1>4. CASE Cancel \/ UNCHANGED vars
  <2>1. /\ UNCHANGED <<lockVars, diskVars, coll, main, docsCount, pc, pos, searchNodes, inv>>
        /\ cancelled' \in BOOLEAN
    BY <1>4 DEF Cancel, vars, mainVars, IInv, TypeOK
  <2>2. TypeOK'
    BY <2>1 DEF IInv, TypeOK, lockVars, diskVars
  <2>3. Numbering'
    BY <2>1, NumberingUnchanged DEF IInv, lockVars, numberVars
  <2>4. Segmenting'
    BY <2>1, SegmentingUnchanged DEF IInv, lockVars, segmentVars
  <2>5. Flushing'
    BY <2>1, FlushingUnchanged DEF IInv, flushVars
  <2>. QED  BY <2>2, <2>3, <2>4, <2>5 DEF IInv
<1>. QED  BY <1>1, <1>2, <1>3, <1>4, MainStepKeeps DEF Next, Returned

\* The state stays within its types.
THEOREM TypeCorrect == Spec => []TypeOK
<1>1. IInv => TypeOK
  BY DEF IInv
<1>. QED  BY <1>1, InitInv, StepInv, PTL DEF Spec

\* Document IDs are given out densely and no object gets two (the critical
\* section of processOSMWaysBatch and processOSMNodesBatch), for any number of
\* batches of any size.
THEOREM IDsAreDense == Spec => []DocIDsDense
<1>1. IInv => DocIDsDense
  BY DEF IInv, Numbering
<1>. QED  BY <1>1, InitInv, StepInv, PTL DEF Spec

\* No two inverting goroutines ever write to one segment file, and no segment
\* is listed for the merge twice (SpimiInvert), whatever fails.
THEOREM SegmentsAreDistinct == Spec => []SegmentsDistinct
<1>1. IInv => SegmentsDistinct
  BY DEF IInv, Segmenting
<1>. QED  BY <1>1, InitInv, StepInv, PTL DEF Spec

\* SpimiBatchIndex writes the R-tree data and merges only when all goroutines
\* it started have ended, whatever failed or was cancelled before.
THEOREM MergeIsQuiescent == Spec => []QuiescentMerge
<1>1. IInv => QuiescentMerge
  BY BatchType DEF IInv, Flushing, QuiescentMerge, BatchesOf
<1>. QED  BY <1>1, InitInv, StepInv, PTL DEF Spec

-----------------------------------------------------------------------------
(* Where objects and documents are *)

\* A batch that ended without an error went past all its objects and has nothing
\* left in its buffer.
Ended ==
  \A b \in Batches : pc[b] = "done" =>
    \/ coll[b.kind] = "err"
    \/ pos[b] > Last(b) /\ searchNodes[b] = <<>>

LEMMA EndedStep ==
  ASSUME IInv, Ended, [Next]_vars  PROVE Ended'
<1>1. ASSUME \A b \in Batches :
               \/ pc'[b] # "done"
               \/ pc[b] = "done" /\ pos'[b] = pos[b] /\ searchNodes'[b] = searchNodes[b]
               \/ coll'[b.kind] = "err"
               \/ pos'[b] > Last(b) /\ searchNodes'[b] = <<>>,
             \A k \in Kinds : coll[k] = "err" => coll'[k] = "err"
      PROVE  Ended'
  BY <1>1, BatchType DEF Ended
<1>2. ASSUME NEW b \in Batches, BatchStep(b)  PROVE Ended'
  <2>. USE DEF IInv, TypeOK, mainVars
  <2>1. CASE SeeCancel(b)
    BY <1>1, <2>1 DEF SeeCancel
  <2>2. CASE Skip(b)
    BY <1>1, <2>2 DEF Skip, InLoop
  <2>3. CASE CheckDuplicate(b)
    BY <1>1, <2>3 DEF CheckDuplicate, InLoop
  <2>4. CASE AddObject(b)
    BY <1>1, <2>4 DEF AddObject
  <2>5. CASE EndBatch(b)
    BY <1>1, <2>5 DEF EndBatch
  <2>6. ASSUME NEW f \in Fields, ReceiveInverted(b, f)  PROVE Ended'
    BY <1>1, <2>6 DEF ReceiveInverted, AfterResult
  <2>7. CASE SaveDocs(b)
    BY <1>1, <2>7 DEF SaveDocs
  <2>8. CASE Publish(b)
    BY <1>1, <2>8 DEF Publish, ResetBuffer
  <2>9. CASE CollectError(b)
    <3>1. b.kind \in Kinds
      BY BatchType
    <3>2. \A c \in Batches : pc'[c] = pc[c] \/ c = b
      BY <2>9 DEF CollectError
    <3>3. coll'[b.kind] = "err" /\ UNCHANGED <<pos, searchNodes>>
      BY <2>9, <3>1 DEF CollectError
    <3>4. \A k \in Kinds : coll[k] = "err" => coll'[k] = "err"
      BY <2>9, <3>1 DEF CollectError
    <3>. QED  BY <1>1, <3>2, <3>3, <3>4
  <2>. QED  BY <1>2, <2>1, <2>2, <2>3, <2>4, <2>5, <2>6, <2>7, <2>8, <2>9 DEF BatchStep
<1>3. ASSUME NEW b \in Batches, NEW f \in Fields, InvertStep(b, f)  PROVE Ended'
  <2>1. UNCHANGED <<pc, pos, searchNodes, coll>>
    BY <1>3 DEF InvertStep, ParseNode, InvertCancelled, AllocBlock, RegisterSegment,
                WriteSegment, mainVars
  <2>. QED  BY <1>1, <2>1
<1>4. ASSUME NEW k \in Kinds, CollectAll(k)  PROVE Ended'
  <2>1. UNCHANGED <<pc, pos, searchNodes>> /\ coll[k] = "range"
        /\ \A x \in Kinds : x # k => coll'[x] = coll[x]
    BY <1>4 DEF CollectAll, IInv, TypeOK
  <2>. QED  BY <1>1, <2>1
<1>5. CASE MainStep \/ Cancel \/ UNCHANGED vars
  <2>1. UNCHANGED <<pc, pos, searchNodes, coll>>
    BY <1>5 DEF MainStep, ReturnError, WriteRtree, MergeName, MergeAddress, MergeField,
                BuildNgram, SaveMeta, Cancel, vars, mainVars
  <2>. QED  BY <1>1, <2>1
<1>. QED  BY <1>2, <1>3, <1>4, <1>5 DEF Next, Returned

LEMMA EndedInit == Init => Ended
BY DEF Init, Ended

\* Once main is past the collectors all batches have ended, with empty buffers.
LEMMA AllEnded ==
  ASSUME IInv, Ended, main \notin {"collect", "failed"}, NEW b \in Batches
  PROVE  /\ pc[b] = "done" /\ pos[b] > Last(b) /\ searchNodes[b] = <<>>
         /\ \A f \in Fields : inv[b][f].pc = "idle"
<1>1. b.kind \in Kinds /\ coll[b.kind] = "nil"
  BY BatchType DEF IInv, Flushing
<1>. QED  BY <1>1 DEF IInv, Flushing, BatchesOf, Ended

\* So the goroutines do nothing any more.
LEMMA Quiet ==
  ASSUME IInv, Ended, main \notin {"collect", "failed"}, [Next]_vars
  PROVE  /\ MainStep \/ UNCHANGED vars
         /\ UNCHANGED <<lockVars, files, lost, docStore, pc, pos, searchNodes, inv, cancelled>>
<1>1. ASSUME NEW b \in Batches, BatchStep(b)  PROVE FALSE
  BY <1>1, AllEnded DEF BatchStep, SeeCancel, Skip, CheckDuplicate, InLoop, AddObject,
     EndBatch, ReceiveInverted, SaveDocs, Publish, CollectError
<1>2. ASSUME NEW b \in Batches, NEW f \in Fields, InvertStep(b, f)  PROVE FALSE
  BY <1>2, AllEnded DEF InvertStep, ParseNode, InvertCancelled, AllocBlock,
     RegisterSegment, WriteSegment, Inverting
<1>3. ASSUME NEW k \in Kinds, CollectAll(k)  PROVE FALSE
  BY <1>3 DEF CollectAll, IInv, Flushing
<1>4. ~ Cancel
  BY DEF Cancel
<1>5. MainStep \/ UNCHANGED vars
  BY <1>1, <1>2, <1>3, <1>4 DEF Next, Returned
<1>6. UNCHANGED <<lockVars, files, lost, docStore, pc, pos, searchNodes, inv, cancelled>>
  BY <1>5 DEF MainStep, ReturnError, WriteRtree, MergeName, MergeAddress, MergeField,
              BuildNgram, SaveMeta, vars, mainVars, diskVars
<1>. QED  BY <1>5, <1>6

-----------------------------------------------------------------------------
(* Dropped objects                                                         *)

\* The objects that have been or will be indexed.
Waiting == {Current(b) : b \in {c \in Batches : pc[c] = "add"}}
Marked  == Indexed \cup Waiting

\* The ways that are over and that the second test may have dropped.
GonePast(b, o) == InBatch(b, o) /\ o.at < pos[b]
Gone == {o \in Objects : Turned(o) /\ \E b \in Batches : GonePast(b, o)}

\* A name has a box when a way of the name was indexed; the box is that of a way
\* of the name that is indexed, that will be, or that the second test dropped.
Boxed ==
  \A n \in DOMAIN nodeBoundingBox :
    /\ \E w \in Indexed : w.kind = "ways" /\ Obj(w).name = n
    /\ \E w \in Marked \cup Gone :
         w.kind = "ways" /\ Obj(w).name = n /\ Obj(w).box = nodeBoundingBox[n]

\* An object a batch goroutine has passed is indexed, or was dropped for a reason.
CoveredBy(w, o) == SameRoad(w, o) /\ PointsContains(Obj(w).box, Obj(o).box)

Duplicate(o) ==
  /\ \E w \in Indexed : SameRoad(w, o)
  /\ Turned(o) \/ \E w \in Marked \cup Gone : CoveredBy(w, o)

Dropped(o) == IsSkipped(o) \/ Duplicate(o)

Seen ==
  \A b \in Batches, o \in Objects :
    GonePast(b, o) => o \in Indexed \/ Dropped(o)

Covering == Boxed /\ Seen

LEMMA BlockStart ==
  ASSUME NEW B \in Nat \ {0}, NEW y \in Nat
  PROVE  \E z \in Nat : z % B = 0 /\ z <= y /\ y <= z + B - 1
<1>1. y \div B \in Nat
  OBVIOUS
<1>2. y % B \in 0..(B - 1)
  OBVIOUS
<1>3. y = B * (y \div B) + (y % B)
  OBVIOUS
<1>4. PICK q \in Nat, r \in 0..(B - 1) : y = B * q + r
  BY <1>1, <1>2, <1>3
<1>5. (B * q) % B = 0
  OBVIOUS
<1>6. PICK z \in Nat : z = B * q
  OBVIOUS
<1>. QED  BY <1>4, <1>5, <1>6

\* Every object is in a batch.
LEMMA InSomeBatch ==
  ASSUME NEW o \in Objects
  PROVE  \E b \in Batches : InBatch(b, o)
<1>1. PICK k \in Kinds : o \in [kind: {k}, at: 1..Len(Input(k))]
  BY DEF Objects
<1>2. /\ o.kind = k /\ o.at \in 1..Len(Input(k)) /\ Len(Input(k)) \in Nat
      /\ BatchSize \in Nat \ {0} /\ o.at - 1 \in Nat
  BY <1>1, InputType, SpimiBatchAssumption
<1>3. PICK z \in Nat : /\ z % BatchSize = 0 /\ z <= o.at - 1
                       /\ o.at - 1 <= z + BatchSize - 1
  BY <1>2, BlockStart
<1>. DEFINE s == z + 1
            b == [kind |-> k, start |-> s]
<1>4. s \in 1..Len(Input(k)) /\ s <= o.at /\ o.at <= s + BatchSize - 1 /\ s - 1 = z
  BY <1>2, <1>3
<1>5. b \in Batches /\ b.kind = k /\ b.start = s
  BY <1>3, <1>4 DEF Batches, Starts
<1>6. o.at <= Last(b)
  BY <1>2, <1>4, <1>5 DEF Last
<1>7. Last(b) \in Nat /\ s \in Nat /\ o.at \in Nat
  BY <1>2, <1>5, BatchType
<1>8. o.at \in s..Last(b)
  BY <1>4, <1>6, <1>7
<1>. QED  BY <1>2, <1>5, <1>8 DEF InBatch

LEMMA MarkedType ==
  ASSUME IInv
  PROVE  Marked \subseteq Objects /\ Indexed \subseteq Objects /\ Gone \subseteq Objects
<1>1. osmData \in Seq(Doc)
  BY DEF IInv, TypeOK, Doc
<1>2. Indexed \subseteq Objects
  <2>1. \A i \in DOMAIN osmData : osmData[i] \in Doc
    BY <1>1
  <2>. QED  BY <2>1 DEF Indexed, Doc
<1>3. Waiting \subseteq Objects
  BY CurrentType DEF Waiting, IInv, Numbering, PosInBatch
<1>. QED  BY <1>2, <1>3 DEF Marked, Gone

\* The reasons to drop an object stay.
LEMMA DroppedStays ==
  ASSUME Indexed \subseteq Indexed', Marked \subseteq Marked', Gone \subseteq Gone', NEW o,
         Dropped(o)
  PROVE  Dropped(o)'
BY DEF Dropped, Duplicate

\* A batch goroutine goes past objects only.
LEMMA GoneStays ==
  ASSUME \A b \in Batches : pos[b] \in Nat /\ pos'[b] \in Nat /\ pos[b] <= pos'[b]
  PROVE  Gone \subseteq Gone'
<1>. SUFFICES ASSUME NEW o \in Objects, NEW b \in Batches, GonePast(b, o)
              PROVE  GonePast(b, o)'
  BY DEF Gone
<1>1. o.at \in Nat
  <2>1. PICK k \in Kinds : o \in [kind: {k}, at: 1..Len(Input(k))]
    BY DEF Objects
  <2>. QED  BY <2>1, InputType
<1>. QED  BY <1>1 DEF GonePast

\* A step that neither adds nor drops an object.
LEMMA CoveringKept ==
  ASSUME Covering, UNCHANGED <<nodeBoundingBox, osmData, pos>>,
         \A b \in Batches : pc'[b] = "add" <=> pc[b] = "add"
  PROVE  Covering'
<1>1. UNCHANGED Indexed /\ \A b \in Batches : UNCHANGED Current(b)
  BY DEF Indexed, Current
<1>2. UNCHANGED Waiting
  BY <1>1 DEF Waiting
<1>3. UNCHANGED <<Marked, Gone>>
  BY <1>1, <1>2 DEF Marked, Gone, GonePast
<1>4. Boxed'
  BY <1>1, <1>3 DEF Covering, Boxed
<1>5. Seen'
  BY <1>1, <1>3 DEF Covering, Seen, GonePast, Dropped, Duplicate
<1>. QED  BY <1>4, <1>5 DEF Covering

\* A batch goroutine goes past its object, which is indexed or dropped.
LEMMA SeenPasses ==
  ASSUME IInv, Seen, NEW b \in Batches, NEW v, v = Current(b),
         pos' = [pos EXCEPT ![b] = @ + 1],
         Indexed \subseteq Indexed', Marked \subseteq Marked', Gone \subseteq Gone',
         v \in Indexed' \/ Dropped(v)'
  PROVE  Seen'
<1>. SUFFICES ASSUME NEW c \in Batches, NEW o \in Objects, InBatch(c, o), o.at < pos'[c]
              PROVE  o \in Indexed' \/ Dropped(o)'
  BY DEF Seen, GonePast
<1>1. pos \in [Batches -> Nat] /\ o.at \in Nat
  <2>1. PICK k \in Kinds : o \in [kind: {k}, at: 1..Len(Input(k))]
    BY DEF Objects
  <2>. QED  BY <2>1, InputType DEF IInv, TypeOK
<1>2. CASE o.at < pos[c]
  <2>1. o \in Indexed \/ Dropped(o)
    BY <1>2 DEF Seen, GonePast
  <2>. QED  BY <2>1, DroppedStays
<1>3. CASE ~(o.at < pos[c])
  <2>1. c = b /\ o.at = pos[b]
    BY <1>1, <1>3
  <2>2. PICK k \in Kinds : o \in [kind: {k}, at: 1..Len(Input(k))]
    BY DEF Objects
  <2>3. o = [kind |-> b.kind, at |-> pos[b]]
    BY <2>1, <2>2 DEF InBatch
  <2>. QED  BY <2>3 DEF Current
<1>. QED  BY <1>2, <1>3

\* The other goroutines' objects.
LEMMA WaitingStays ==
  ASSUME IInv, NEW b \in Batches,
         \A c \in Batches : c # b => pc'[c] = pc[c] /\ pos'[c] = pos[c]
  PROVE  Waiting \subseteq Waiting' \cup {Current(b)}
<1>. SUFFICES ASSUME NEW c \in Batches, pc[c] = "add", c # b
              PROVE  Current(c) \in Waiting'
  BY DEF Waiting
<1>1. Current(c) = Current(c)' /\ pc'[c] = "add"
  BY DEF Current
<1>. QED  BY <1>1 DEF Waiting

\* The current object is new to everyone.
LEMMA CurrentIsNew ==
  ASSUME IInv, NEW b \in Batches, pc[b] = "scan", pos[b] <= Last(b)
  PROVE  Current(b) \notin Marked \cup Gone
<1>. DEFINE o == Current(b)
<1>1. o \in Objects /\ o.kind = b.kind /\ o.at = pos[b] /\ InBatch(b, o) /\ pos[b] \in Nat
  BY CurrentType, BatchType DEF InBatch, Current, IInv, TypeOK, Numbering, PosInBatch
<1>2. ASSUME NEW c \in Batches, InBatch(c, o)  PROVE c = b
  BY <1>1, <1>2, BatchesDisjoint DEF InBatch
<1>3. o \notin Indexed
  <2>. SUFFICES ASSUME NEW i \in DOMAIN osmData, osmData[i].obj = o  PROVE FALSE
    BY DEF Indexed
  <2>. QED  BY <1>1 DEF IInv, Numbering, Passed
<1>4. o \notin Waiting
  <2>. SUFFICES ASSUME NEW c \in Batches, pc[c] = "add", Current(c) = o  PROVE FALSE
    BY DEF Waiting
  <2>1. InBatch(c, Current(c))
    BY CurrentType, BatchType DEF InBatch, Current, IInv, TypeOK, Numbering, PosInBatch
  <2>. QED  BY <1>2, <2>1
<1>5. o \notin Gone
  BY <1>1, <1>2 DEF Gone, GonePast
<1>. QED  BY <1>3, <1>4, <1>5 DEF Marked

LEMMA BoxedSets ==
  ASSUME Boxed, NEW o \in Marked' \cup Gone', o.kind = "ways",
         Indexed \subseteq Indexed', Marked \subseteq Marked', Gone \subseteq Gone',
         nodeBoundingBox' \in {nodeBoundingBox, SetBox(o)},
         Known(o) \/ o \in Indexed'
  PROVE  Boxed'
<1>. SUFFICES ASSUME NEW n \in DOMAIN nodeBoundingBox'
              PROVE  /\ \E w \in Indexed' : w.kind = "ways" /\ Obj(w).name = n
                     /\ \E w \in Marked' \cup Gone' :
                          /\ w.kind = "ways" /\ Obj(w).name = n
                          /\ Obj(w).box = nodeBoundingBox'[n]
  BY DEF Boxed
<1>1. CASE nodeBoundingBox' = nodeBoundingBox
  BY <1>1 DEF Boxed
<1>2. CASE nodeBoundingBox' = SetBox(o)
  <2>1. \E w \in Indexed' : w.kind = "ways" /\ Obj(w).name = n
    BY <1>2 DEF Boxed, SetBox, Known
  <2>2. \E w \in Marked' \cup Gone' : /\ w.kind = "ways" /\ Obj(w).name = n
                                      /\ Obj(w).box = nodeBoundingBox'[n]
    BY <1>2 DEF Boxed, SetBox
  <2>. QED  BY <2>1, <2>2
<1>. QED  BY <1>1, <1>2

\* What the two checks say and do.
LEMMA DuplicateSays ==
  ASSUME NEW o, IsDuplicate(o)
  PROVE  /\ Known(o)
         /\ IF o.kind = "ways"
            THEN PointsContains(PrevBB(o), Obj(o).box) \/ InverseContain(Obj(o).box, PrevBB(o))
            ELSE Contains(PrevBB(o), Obj(o).box.latLo, Obj(o).box.lonLo)
BY Zenon DEF IsDuplicate, IsWayDuplicate, IsNodeDuplicate

LEMMA BoxAfter ==
  ASSUME NEW o, BoxAfterCheck(o) # nodeBoundingBox
  PROVE  /\ o.kind = "ways" /\ Known(o) /\ BoxAfterCheck(o) = SetBox(o)
         /\ ~ PointsContains(PrevBB(o), Obj(o).box)
BY Zenon DEF BoxAfterCheck

\* An object is dropped as a duplicate because the box of its name has it, or
\* because the second test passes.
LEMMA DuplicateFound ==
  ASSUME IInv, Boxed, NEW b \in Batches, pc[b] = "scan", pos[b] <= Last(b),
         NEW o, o = Current(b), IsDuplicate(o)
  PROVE  Duplicate(o) /\ (BoxAfterCheck(o) = nodeBoundingBox \/ Turned(o))
<1>1. o \in Objects /\ Known(o)
  BY CurrentType, DuplicateSays DEF IInv, Numbering
<1>2. PICK w \in Marked \cup Gone : /\ w.kind = "ways" /\ Obj(w).name = Obj(o).name
                                   /\ Obj(w).box = PrevBB(o)
  BY <1>1 DEF Boxed, Known, PrevBB
<1>3. w \in Objects \ {o}
  BY <1>2, CurrentIsNew, MarkedType
<1>4. \E v \in Indexed : SameRoad(v, o)
  BY <1>1 DEF Boxed, Known, SameRoad
<1>5. PICK k \in Kinds : o \in [kind: {k}, at: 1..Len(Input(k))]
  BY <1>1 DEF Objects
<1>6. CASE PointsContains(PrevBB(o), Obj(o).box)
  BY <1>2, <1>4, <1>6, BoxAfter DEF Duplicate, CoveredBy, SameRoad
<1>7. CASE ~ PointsContains(PrevBB(o), Obj(o).box)
  <2>1. CASE o.kind = "ways"
    <3>1. InverseContain(Obj(o).box, PrevBB(o))
      BY <1>7, <2>1, DuplicateSays
    <3>2. Turned(o)
      BY <1>2, <1>3, <2>1, <3>1 DEF Turned, SameRoad
    <3>. QED  BY <1>4, <3>2 DEF Duplicate
  <2>2. CASE o.kind # "ways"
    <3>1. Contains(PrevBB(o), Obj(o).box.latLo, Obj(o).box.lonLo)
      BY <2>2, DuplicateSays
    <3>2. o.kind = "nodes" /\ o.at \in DOMAIN Nodes /\ Obj(o) = Nodes[o.at]
      BY <1>5, <2>2, SpimiBatchAssumption DEF Kinds, Input, Obj
    <3>3. IsPoint(Obj(o).box)
      BY <3>2, SpimiBatchAssumption
    <3>. QED  BY <1>7, <3>1, <3>3 DEF IsPoint, PointsContains
  <2>. QED  BY <2>1, <2>2
<1>. QED  BY <1>6, <1>7

LEMMA CheckCovering ==
  ASSUME IInv, Covering, NEW b \in Batches, CheckDuplicate(b)
  PROVE  Covering'
<1>. DEFINE o == Current(b)
<1>1. /\ pc[b] = "scan" /\ pos[b] <= Last(b) /\ o \in Objects /\ o.kind = b.kind
      /\ UNCHANGED osmData /\ nodeBoundingBox' = BoxAfterCheck(o)
  BY CurrentType DEF CheckDuplicate, InLoop, IInv, Numbering
<1>2. UNCHANGED Indexed
  BY <1>1 DEF Indexed
<1>3. CASE IsDuplicate(o)
  <2>1. pos' = [pos EXCEPT ![b] = @ + 1] /\ UNCHANGED pc
    BY <1>1, <1>3 DEF CheckDuplicate
  <2>2. Waiting \subseteq Waiting'
    <3>. SUFFICES ASSUME NEW c \in Batches, pc[c] = "add"  PROVE Current(c) \in Waiting'
      BY DEF Waiting
    <3>1. pos'[c] = pos[c] /\ pc'[c] = "add"
      BY <1>1, <2>1 DEF IInv, TypeOK
    <3>2. Current(c) = Current(c)'
      BY <3>1 DEF Current
    <3>. QED  BY <3>1, <3>2 DEF Waiting
  <2>3. Marked \subseteq Marked' /\ Indexed \subseteq Indexed'
    BY <1>2, <2>2 DEF Marked
  <2>4. Gone \subseteq Gone'
    <3>1. \A c \in Batches : pos[c] \in Nat /\ pos'[c] \in Nat /\ pos[c] <= pos'[c]
      BY <2>1 DEF IInv, TypeOK
    <3>. QED  BY <3>1, GoneStays
  <2>5. PICK v \in Objects : v = o
    BY <1>1
  <2>6. Duplicate(v) /\ (BoxAfterCheck(v) = nodeBoundingBox \/ Turned(v))
    BY <1>1, <1>3, <2>5, DuplicateFound DEF Covering
  <2>7. Dropped(v)'
    BY <2>3, <2>4, <2>6, DroppedStays DEF Dropped
  <2>8. Seen'
    BY <2>1, <2>3, <2>4, <2>5, <2>7, SeenPasses DEF Covering
  <2>9. Boxed'
    <3>1. CASE UNCHANGED nodeBoundingBox
      BY <2>3, <2>4, <3>1 DEF Covering, Boxed
    <3>2. CASE nodeBoundingBox' # nodeBoundingBox
      <4>1. v.kind = "ways" /\ Known(v) /\ nodeBoundingBox' = SetBox(v) /\ Turned(v)
        BY <1>1, <2>5, <2>6, <3>2, BoxAfter
      <4>2. GonePast(b, v)'
        <5>1. InBatch(b, v) /\ v.at = pos[b] /\ pos[b] \in Nat /\ pos'[b] = pos[b] + 1
          BY <1>1, <2>1, <2>5, BatchType
          DEF InBatch, Current, IInv, TypeOK, Numbering, PosInBatch
        <5>. QED  BY <5>1 DEF GonePast
      <4>3. v \in Gone'
        BY <4>1, <4>2 DEF Gone
      <4>. QED  BY <2>3, <2>4, <4>1, <4>3, BoxedSets DEF Covering
    <3>. QED  BY <3>1, <3>2
  <2>. QED  BY <2>8, <2>9 DEF Covering
<1>4. CASE ~ IsDuplicate(o)
  <2>1. pc' = [pc EXCEPT ![b] = "add"] /\ UNCHANGED pos
    BY <1>4 DEF CheckDuplicate
  <2>2. Waiting \subseteq Waiting' /\ o \in Waiting'
    <3>1. pc'[b] = "add" /\ \A c \in Batches : pc[c] = "add" => pc'[c] = "add"
      BY <2>1 DEF IInv, TypeOK
    <3>2. \A c \in Batches : Current(c)' = Current(c)
      BY <2>1 DEF Current
    <3>. QED  BY <3>1, <3>2 DEF Waiting
  <2>3. Marked \subseteq Marked' /\ o \in Marked' /\ UNCHANGED <<Indexed, Gone>>
    BY <1>2, <2>1, <2>2 DEF Marked, Gone, GonePast
  <2>4. Boxed'
    <3>1. CASE UNCHANGED nodeBoundingBox
      BY <2>3, <3>1 DEF Boxed, Covering
    <3>2. CASE nodeBoundingBox' # nodeBoundingBox
      <4>1. PICK v \in Marked' : v = o
        BY <2>3
      <4>2. v.kind = "ways" /\ Known(v) /\ nodeBoundingBox' = SetBox(v)
        BY <1>1, <3>2, <4>1, BoxAfter
      <4>. QED  BY <2>3, <4>1, <4>2, BoxedSets DEF Covering
    <3>. QED  BY <3>1, <3>2
  <2>5. Seen'
    <3>. SUFFICES ASSUME NEW c \in Batches, NEW v \in Objects, InBatch(c, v), v.at < pos[c]
                  PROVE  v \in Indexed' \/ Dropped(v)'
      BY <2>1 DEF Seen, GonePast
    <3>1. v \in Indexed \/ Dropped(v)
      BY DEF Covering, Seen, GonePast
    <3>. QED  BY <2>3, <3>1, DroppedStays
  <2>. QED  BY <2>4, <2>5 DEF Covering
<1>. QED  BY <1>3, <1>4

LEMMA AddCovering ==
  ASSUME IInv, Covering, NEW b \in Batches, AddObject(b)
  PROVE  Covering'
<1>. DEFINE o == Current(b)
<1>1. /\ pc[b] = "add" /\ pos[b] <= Last(b) /\ o \in Objects /\ o.kind = b.kind
      /\ pos' = [pos EXCEPT ![b] = @ + 1]
      /\ \A c \in Batches : c # b => pc'[c] = pc[c] /\ pos'[c] = pos[c]
  BY CurrentType DEF AddObject, IInv, TypeOK, Numbering, PosInBatch
<1>2. Indexed' = Indexed \cup {o}
  <2>1. osmData \in Seq(Doc) /\ nodeIDX \in Nat
    BY DEF IInv, TypeOK, Doc
  <2>2. PICK d \in Doc : d = [ID |-> nodeIDX, obj |-> o] /\ d.obj = o
    <3>1. [ID |-> nodeIDX, obj |-> o] \in Doc
      BY <1>1, <2>1 DEF Doc
    <3>. QED  BY <3>1
  <2>3. osmData' = Append(osmData, d)
    BY <2>2 DEF AddObject
  <2>4. /\ DOMAIN osmData' = DOMAIN osmData \cup {Len(osmData) + 1}
        /\ \A i \in DOMAIN osmData : osmData'[i] = osmData[i]
        /\ osmData'[Len(osmData) + 1] = d
    BY <2>1, <2>3
  <2>. HIDE DEF o
  <2>. QED  BY <2>2, <2>4 DEF Indexed
<1>3. /\ Marked \subseteq Marked' /\ o \in Marked'
      /\ Indexed \subseteq Indexed' /\ Gone \subseteq Gone'
  <2>1. \A c \in Batches : pos[c] \in Nat /\ pos'[c] \in Nat /\ pos[c] <= pos'[c]
    BY <1>1 DEF IInv, TypeOK
  <2>2. Gone \subseteq Gone'
    BY <2>1, GoneStays
  <2>. QED  BY <1>1, <1>2, <2>2, WaitingStays DEF Marked
<1>4. Boxed'
  <2>1. CASE o.kind = "ways"
    <3>1. PICK v \in Marked' : v = o /\ v \in Indexed'
      BY <1>2, <1>3
    <3>2. nodeBoundingBox' = SetBox(v) /\ v.kind = "ways"
      BY <1>1, <2>1, <3>1 DEF AddObject
    <3>. QED  BY <1>3, <3>1, <3>2, BoxedSets DEF Covering
  <2>2. CASE o.kind # "ways"
    <3>1. UNCHANGED nodeBoundingBox
      BY <1>1, <2>2 DEF AddObject
    <3>. QED  BY <1>3, <3>1 DEF Boxed, Covering
  <2>. QED  BY <2>1, <2>2
<1>5. Seen'
  <2>1. PICK v : v = o
    OBVIOUS
  <2>2. v \in Indexed' /\ Indexed \subseteq Indexed'
    BY <1>2, <2>1
  <2>. QED  BY <1>1, <1>3, <2>1, <2>2, SeenPasses DEF Covering
<1>. QED  BY <1>4, <1>5 DEF Covering

LEMMA SkipCovering ==
  ASSUME IInv, Covering, NEW b \in Batches, Skip(b)
  PROVE  Covering'
<1>1. /\ pc[b] = "scan" /\ pos[b] <= Last(b) /\ IsSkipped(Current(b))
      /\ pos' = [pos EXCEPT ![b] = @ + 1]
      /\ UNCHANGED <<osmData, pc, nodeBoundingBox>>
  BY DEF Skip, InLoop, lockVars
<1>2. \A c \in Batches : pc[c] = "add" => pos'[c] = pos[c]
  BY <1>1 DEF IInv, TypeOK
<1>3. \A c \in Batches : pc[c] = "add" => Current(c)' = Current(c)
  BY <1>2 DEF Current
<1>4. UNCHANGED <<Indexed, Waiting>>
  BY <1>1, <1>3 DEF Indexed, Waiting
<1>5. Gone \subseteq Gone' /\ UNCHANGED Marked
  <2>1. \A c \in Batches : pos[c] \in Nat /\ pos'[c] \in Nat /\ pos[c] <= pos'[c]
    BY <1>1 DEF IInv, TypeOK
  <2>. QED  BY <1>4, <2>1, GoneStays DEF Marked
<1>6. Boxed'
  BY <1>1, <1>4, <1>5 DEF Covering, Boxed
<1>7. PICK v : v = Current(b)
  OBVIOUS
<1>8. Dropped(v)'
  BY <1>1, <1>7 DEF Dropped
<1>. QED  BY <1>1, <1>4, <1>5, <1>6, <1>7, <1>8, SeenPasses DEF Covering

LEMMA CoveringStep ==
  ASSUME IInv, Covering, [Next]_vars  PROVE Covering'
<1>1. ASSUME NEW b \in Batches, BatchStep(b)  PROVE Covering'
  <2>1. ASSUME NEW to \in {"scan", "flush", "save", "publish", "fail", "done"},
               pc' = [pc EXCEPT ![b] = to], pc[b] # "add",
               UNCHANGED <<nodeBoundingBox, osmData, pos>>
        PROVE  Covering'
    <3>1. \A c \in Batches : pc'[c] = "add" <=> pc[c] = "add"
      BY <2>1 DEF IInv, TypeOK
    <3>. QED  BY <2>1, <3>1, CoveringKept
  <2>2. CASE SeeCancel(b)
    BY <2>1, <2>2 DEF SeeCancel, InLoop, lockVars
  <2>3. CASE EndBatch(b)
    BY <2>1, <2>3 DEF EndBatch, lockVars
  <2>4. ASSUME NEW f \in Fields, ReceiveInverted(b, f)  PROVE Covering'
    <3>1. PICK to \in {"flush", "save", "fail"} : pc' = [pc EXCEPT ![b] = to]
      BY <2>4 DEF ReceiveInverted, AfterResult
    <3>. QED  BY <2>1, <2>4, <3>1 DEF ReceiveInverted, lockVars
  <2>5. CASE SaveDocs(b)
    BY <2>1, <2>5 DEF SaveDocs, lockVars
  <2>6. CASE Publish(b)
    BY <2>1, <2>6 DEF Publish
  <2>7. CASE CollectError(b)
    BY <2>1, <2>7 DEF CollectError, lockVars
  <2>. QED  BY <1>1, <2>2, <2>3, <2>4, <2>5, <2>6, <2>7, SkipCovering, CheckCovering, AddCovering
       DEF BatchStep
<1>2. ASSUME UNCHANGED <<nodeBoundingBox, osmData, pos, pc>>  PROVE Covering'
  BY <1>2, CoveringKept
<1>3. ASSUME NEW b \in Batches, NEW f \in Fields, InvertStep(b, f)  PROVE Covering'
  BY <1>2, <1>3 DEF InvertStep, ParseNode, InvertCancelled, AllocBlock, RegisterSegment,
                    WriteSegment, lockVars
<1>4. CASE (\E k \in Kinds : CollectAll(k)) \/ MainStep \/ Cancel \/ UNCHANGED vars
  BY <1>2, <1>4 DEF CollectAll, MainStep, ReturnError, WriteRtree, MergeName, MergeAddress,
                    MergeField, BuildNgram, SaveMeta, Cancel, vars, lockVars
<1>. QED  BY <1>1, <1>3, <1>4 DEF Next, Returned

LEMMA CoveringInit == Init => Covering
<1>. SUFFICES ASSUME Init  PROVE Covering
  OBVIOUS
<1>1. DOMAIN nodeBoundingBox = {}
  BY DEF Init
<1>2. \A b \in Batches, o \in Objects : InBatch(b, o) => ~(o.at < pos[b])
  BY BatchType, InputType DEF Init, InBatch
<1>. QED  BY <1>1, <1>2 DEF Covering, Boxed, Seen, GonePast

\* An object that was dropped as a duplicate has the name of an indexed way, and
\* lies in the box of a way of that name or passed the second test of
\* isWayDuplicateCheck (processOSMWaysBatch, processOSMNodesBatch), whatever the
\* interleaving of the critical sections; for any input.
THEOREM DroppedAreDuplicates == Spec => []DroppedIsDuplicate
<1>1. IInv /\ Ended /\ Covering => DroppedIsDuplicate
  <2>. SUFFICES ASSUME IInv, Ended, Covering, Succeeded,
                       NEW o \in Objects \ Indexed, ~ IsSkipped(o)
                PROVE  /\ \E w \in Indexed : SameRoad(w, o)
                       /\ \/ Turned(o)
                          \/ \E w \in Objects :
                               /\ SameRoad(w, o) /\ PointsContains(Obj(w).box, Obj(o).box)
                               /\ w \in Indexed \/ Turned(w)
    BY DEF DroppedIsDuplicate
  <2>1. main \notin {"collect", "failed"}
    BY DEF Succeeded
  <2>2. Waiting = {}
    BY <2>1, AllEnded DEF Waiting
  <2>3. PICK b \in Batches : InBatch(b, o)
    BY InSomeBatch
  <2>4. pos[b] > Last(b) /\ pos[b] \in Nat
    BY <2>1, AllEnded DEF IInv, TypeOK
  <2>5. o.at \in b.start..Last(b) /\ b.start \in Nat /\ Last(b) \in Nat
    BY <2>3, BatchType, InputType DEF InBatch
  <2>6. o.at < pos[b]
    BY <2>4, <2>5
  <2>7. Duplicate(o)
    BY <2>3, <2>6 DEF Covering, Seen, GonePast, Dropped
  <2>8. \A w \in Marked \cup Gone : w \in Objects /\ (w \in Indexed \/ Turned(w))
    BY <2>2, MarkedType DEF Marked, Gone
  <2>. QED  BY <2>7, <2>8 DEF Duplicate, CoveredBy
<1>. QED  BY <1>1, InitInv, StepInv, EndedInit, EndedStep, CoveringInit, CoveringStep, PTL DEF Spec

-----------------------------------------------------------------------------
(* Where the documents are                                                 *)

Indices == DOMAIN allSearchNodes

\* Every ID is held, at one place only.
HeldSomewhere ==
  \A d \in IDs :
    \/ \E i \in Indices : allSearchNodes[i] = d
    \/ \E b \in Batches : \E k \in DOMAIN searchNodes[b] : searchNodes[b][k] = d

HeldAtOnePlace ==
  /\ \A i, j \in Indices : allSearchNodes[i] = allSearchNodes[j] => i = j
  /\ \A i \in Indices, b \in Batches : \A k \in DOMAIN searchNodes[b] :
       searchNodes[b][k] # allSearchNodes[i]
  /\ \A b, c \in Batches :
       \A j \in DOMAIN searchNodes[b], k \in DOMAIN searchNodes[c] :
         searchNodes[b][j] = searchNodes[c][k] => b = c /\ j = k

\* Published documents were saved.
Published ==
  /\ \A i \in Indices : allSearchNodes[i] \in IDs /\ allSearchNodes[i] \in docStore
  /\ \A b \in Batches : pc[b] = "publish" => Saved(b) \subseteq docStore

\* A buffer that is full is flushed before the next object.
BufferSize ==
  \A b \in Batches :
    /\ Len(searchNodes[b]) <= BatchSize
    /\ pc[b] \in {"scan", "add"} => Len(searchNodes[b]) < BatchSize

Holding == HeldSomewhere /\ HeldAtOnePlace /\ Published /\ BufferSize

\* A step that gives out no ID and moves none.
LEMMA HoldingKept ==
  ASSUME Holding, UNCHANGED <<nodeIDX, allSearchNodes, searchNodes>>,
         docStore \subseteq docStore',
         \A b \in Batches : pc'[b] \in {"scan", "add"} => pc[b] \in {"scan", "add"},
         \A b \in Batches : pc'[b] = "publish" => pc[b] = "publish" \/ Saved(b) \subseteq docStore'
  PROVE  Holding'
<1>1. UNCHANGED <<IDs, Indices>> /\ \A b \in Batches : UNCHANGED Saved(b)
  BY DEF IDs, Indices, Saved
<1>2. HeldSomewhere' /\ HeldAtOnePlace'
  BY <1>1 DEF Holding, HeldSomewhere, HeldAtOnePlace
<1>3. Published'
  BY <1>1 DEF Holding, Published
<1>4. BufferSize'
  BY DEF Holding, BufferSize
<1>. QED  BY <1>2, <1>3, <1>4 DEF Holding

LEMMA HoldingTypes ==
  ASSUME IInv
  PROVE  /\ allSearchNodes \in Seq(Nat) /\ nodeIDX \in Nat /\ docStore \subseteq Nat
         /\ searchNodes \in [Batches -> Seq(Nat)]
         /\ \A b \in Batches : \A k \in DOMAIN searchNodes[b] :
              /\ searchNodes[b][k] \in IDs
              /\ searchNodes[b][k] \in Nat /\ searchNodes[b][k] < nodeIDX
<1>1. /\ allSearchNodes \in Seq(Nat) /\ nodeIDX \in Nat /\ docStore \subseteq Nat
      /\ searchNodes \in [Batches -> Seq(Nat)]
  BY DEF IInv, TypeOK
<1>2. ASSUME NEW b \in Batches, NEW k \in DOMAIN searchNodes[b]
      PROVE  searchNodes[b][k] \in Nat /\ searchNodes[b][k] < nodeIDX
  BY <1>1 DEF IInv, Numbering, BufferedIDs
<1>. QED  BY <1>1, <1>2 DEF IDs

\* The new ID is one nobody holds.
LEMMA AddHolding ==
  ASSUME IInv, Holding, NEW b \in Batches, AddObject(b)  PROVE Holding'
<1>1. /\ nodeIDX' = nodeIDX + 1 /\ pc[b] = "add"
      /\ UNCHANGED <<allSearchNodes, docStore>>
      /\ searchNodes' = [searchNodes EXCEPT ![b] = Append(@, nodeIDX)]
      /\ pc' = [pc EXCEPT ![b] = IF Len(searchNodes[b]) + 1 = BatchSize
                                 THEN "flush" ELSE "scan"]
  BY DEF AddObject, TakeID, diskVars
<1>2. /\ nodeIDX \in Nat /\ BatchSize \in Nat \ {0} /\ searchNodes[b] \in Seq(Nat)
      /\ \A c \in Batches : c # b => pc'[c] = pc[c] /\ searchNodes'[c] = searchNodes[c]
      /\ searchNodes'[b] = Append(searchNodes[b], nodeIDX)
      /\ pc'[b] = (IF Len(searchNodes[b]) + 1 = BatchSize THEN "flush" ELSE "scan")
  BY <1>1, HoldingTypes, SpimiBatchAssumption DEF IInv, TypeOK
<1>3. PICK n \in Nat : n = Len(searchNodes[b])
  BY <1>2
<1>4. /\ DOMAIN searchNodes[b] = 1..n /\ DOMAIN searchNodes'[b] = 1..(n + 1)
      /\ \A k \in 1..n : searchNodes'[b][k] = searchNodes[b][k]
      /\ searchNodes'[b][n + 1] = nodeIDX /\ Len(searchNodes'[b]) = n + 1
  BY <1>2, <1>3
<1>5. IDs' = IDs \cup {nodeIDX} /\ nodeIDX \notin IDs /\ UNCHANGED Indices
  BY <1>1, <1>2 DEF IDs, Indices
<1>6. \A c \in Batches : \A k \in DOMAIN searchNodes'[c] :
        \/ k \in DOMAIN searchNodes[c] /\ searchNodes'[c][k] = searchNodes[c][k]
                                       /\ searchNodes[c][k] \in IDs
        \/ c = b /\ k = n + 1 /\ searchNodes'[c][k] = nodeIDX
  <2>. SUFFICES ASSUME NEW c \in Batches, NEW k \in DOMAIN searchNodes'[c]
                PROVE  \/ /\ k \in DOMAIN searchNodes[c]
                          /\ searchNodes'[c][k] = searchNodes[c][k]
                          /\ searchNodes[c][k] \in IDs
                       \/ c = b /\ k = n + 1 /\ searchNodes'[c][k] = nodeIDX
    OBVIOUS
  <2>1. CASE c # b
    BY <1>2, <2>1, HoldingTypes
  <2>2. CASE c = b /\ k \in 1..n
    BY <1>4, <2>2, HoldingTypes
  <2>3. CASE c = b /\ k = n + 1
    BY <1>4, <2>3
  <2>. QED  BY <1>3, <1>4, <2>1, <2>2, <2>3
<1>7. HeldSomewhere'
  <2>. SUFFICES ASSUME NEW d \in IDs'
                PROVE  \/ \E i \in Indices : allSearchNodes[i] = d
                       \/ \E c \in Batches : \E k \in DOMAIN searchNodes'[c] :
                            searchNodes'[c][k] = d
    BY <1>1, <1>5 DEF HeldSomewhere
  <2>1. CASE d = nodeIDX
    BY <1>4, <2>1
  <2>2. ASSUME NEW c \in Batches, NEW k \in DOMAIN searchNodes[c]
        PROVE  k \in DOMAIN searchNodes'[c] /\ searchNodes'[c][k] = searchNodes[c][k]
    <3>1. CASE c = b
      BY <1>4, <2>2, <3>1
    <3>2. CASE c # b
      BY <1>2, <3>2
    <3>. QED  BY <3>1, <3>2
  <2>3. CASE d \in IDs
    BY <2>2, <2>3 DEF Holding, HeldSomewhere
  <2>. QED  BY <1>5, <2>1, <2>3
<1>8. HeldAtOnePlace'
  <2>1. \A i \in Indices : allSearchNodes[i] \in IDs
    BY DEF Holding, Published
  <2>2. \A i \in Indices, c \in Batches : \A k \in DOMAIN searchNodes'[c] :
          searchNodes'[c][k] # allSearchNodes[i]
    BY <1>5, <1>6, <2>1 DEF Holding, HeldAtOnePlace
  <2>3. ASSUME NEW x \in Batches, NEW c \in Batches,
               NEW j \in DOMAIN searchNodes'[x], NEW k \in DOMAIN searchNodes'[c],
               searchNodes'[x][j] = searchNodes'[c][k]
        PROVE  x = c /\ j = k
    BY <1>5, <1>6, <2>3 DEF Holding, HeldAtOnePlace
  <2>. QED  BY <1>1, <1>5, <2>2, <2>3 DEF Holding, HeldAtOnePlace
<1>9. Published'
  <2>1. \A c \in Batches : pc'[c] = "publish" => Saved(c)' = Saved(c) /\ pc[c] = "publish"
    BY <1>2 DEF Saved
  <2>. QED  BY <1>1, <1>5, <2>1 DEF Holding, Published
<1>10. BufferSize'
  <2>. SUFFICES ASSUME NEW c \in Batches
                PROVE  /\ Len(searchNodes'[c]) <= BatchSize
                       /\ pc'[c] \in {"scan", "add"} => Len(searchNodes'[c]) < BatchSize
    BY DEF BufferSize
  <2>1. CASE c # b
    BY <1>2, <2>1 DEF Holding, BufferSize
  <2>2. CASE c = b
    <3>1. n < BatchSize
      BY <1>1, <1>3 DEF Holding, BufferSize
    <3>. QED  BY <1>2, <1>3, <1>4, <2>2, <3>1
  <2>. QED  BY <2>1, <2>2
<1>. QED  BY <1>7, <1>8, <1>9, <1>10 DEF Holding

\* Publishing moves what is in the buffer, and was saved, to the end of the list.
Moved(b, n, m) ==
  /\ Indices = 1..n /\ Indices' = 1..(n + m) /\ DOMAIN searchNodes[b] = 1..m
  /\ \A i \in 1..n : allSearchNodes'[i] = allSearchNodes[i]
  /\ \A k \in 1..m : n + k \in 1..(n + m) /\ allSearchNodes'[n + k] = searchNodes[b][k]
  /\ \A i \in 1..(n + m) : i \notin 1..n => i - n \in 1..m /\ i = n + (i - n)
  /\ DOMAIN searchNodes'[b] = {} /\ searchNodes'[b] = <<>>
  /\ \A c \in Batches : c # b => searchNodes'[c] = searchNodes[c]
  /\ UNCHANGED <<nodeIDX, docStore>>
  /\ pc[b] = "publish" /\ pc' = [pc EXCEPT ![b] = "scan"]

LEMMA PublishMoves ==
  ASSUME IInv, NEW b \in Batches, Publish(b),
         NEW n \in Nat, n = Len(allSearchNodes), NEW m \in Nat, m = Len(searchNodes[b])
  PROVE  Moved(b, n, m)
<1>1. /\ allSearchNodes \in Seq(Nat) /\ searchNodes[b] \in Seq(Nat)
      /\ searchNodes \in [Batches -> Seq(Nat)]
      /\ allSearchNodes' = allSearchNodes \o searchNodes[b]
      /\ searchNodes' = [searchNodes EXCEPT ![b] = <<>>]
  BY HoldingTypes DEF Publish, ResetBuffer
<1>2. /\ Len(allSearchNodes \o searchNodes[b]) = n + m
      /\ DOMAIN (allSearchNodes \o searchNodes[b]) = 1..(n + m)
      /\ \A i \in 1..(n + m) : (allSearchNodes \o searchNodes[b])[i] =
           IF i <= n THEN allSearchNodes[i] ELSE searchNodes[b][i - n]
  BY <1>1
<1>3. \A i \in 1..n : allSearchNodes'[i] = allSearchNodes[i]
  BY <1>1, <1>2
<1>4. ASSUME NEW k \in 1..m
      PROVE  n + k \in 1..(n + m) /\ allSearchNodes'[n + k] = searchNodes[b][k]
  <2>1. n + k \in 1..(n + m) /\ ~(n + k <= n) /\ n + k - n = k
    OBVIOUS
  <2>. QED  BY <1>1, <1>2, <2>1
<1>5. \A i \in 1..(n + m) : i \notin 1..n => i - n \in 1..m /\ i = n + (i - n)
  OBVIOUS
<1>6. searchNodes'[b] = <<>> /\ \A c \in Batches : c # b => searchNodes'[c] = searchNodes[c]
  BY <1>1
<1>. QED  BY <1>1, <1>2, <1>3, <1>4, <1>5, <1>6 DEF Moved, Indices, Publish, diskVars

LEMMA PublishHolding ==
  ASSUME IInv, Holding, NEW b \in Batches, Publish(b)  PROVE Holding'
<1>1. Len(allSearchNodes) \in Nat /\ Len(searchNodes[b]) \in Nat
  BY HoldingTypes
<1>2. PICK n \in Nat, m \in Nat : Moved(b, n, m)
  BY <1>1, PublishMoves
<1>3. UNCHANGED IDs
  BY <1>2 DEF Moved, IDs
\* Every place of the list is an old one or one of the buffer.
<1>4. \A i \in Indices' :
        \/ i \in Indices /\ allSearchNodes'[i] = allSearchNodes[i]
        \/ \E k \in DOMAIN searchNodes[b] : i = n + k /\ allSearchNodes'[i] = searchNodes[b][k]
  <2>. SUFFICES ASSUME NEW i \in 1..(n + m)
                PROVE  \/ i \in 1..n /\ allSearchNodes'[i] = allSearchNodes[i]
                       \/ \E k \in 1..m : i = n + k /\ allSearchNodes'[i] = searchNodes[b][k]
    BY <1>2 DEF Moved
  <2>1. CASE i \in 1..n
    BY <1>2, <2>1 DEF Moved
  <2>2. CASE i \notin 1..n
    <3>1. i - n \in 1..m /\ i = n + (i - n)
      BY <2>2
    <3>2. allSearchNodes'[n + (i - n)] = searchNodes[b][i - n]
      BY <1>2, <3>1 DEF Moved
    <3>. QED  BY <3>1, <3>2
  <2>. QED  BY <2>1, <2>2
<1>5. HeldSomewhere'
  <2>. SUFFICES ASSUME NEW d \in IDs
                PROVE  \/ \E i \in Indices' : allSearchNodes'[i] = d
                       \/ \E c \in Batches : \E k \in DOMAIN searchNodes'[c] :
                            searchNodes'[c][k] = d
    BY <1>3 DEF HeldSomewhere
  <2>1. CASE \E i \in Indices : allSearchNodes[i] = d
    <3>1. PICK i \in 1..n : allSearchNodes[i] = d
      BY <1>2, <2>1 DEF Moved
    <3>2. i \in 1..(n + m)
      OBVIOUS
    <3>. QED  BY <1>2, <3>1, <3>2 DEF Moved
  <2>2. ASSUME NEW c \in Batches, NEW k \in DOMAIN searchNodes[c], searchNodes[c][k] = d
        PROVE  \/ \E i \in Indices' : allSearchNodes'[i] = d
               \/ \E x \in Batches : \E j \in DOMAIN searchNodes'[x] : searchNodes'[x][j] = d
    <3>1. CASE c = b
      BY <1>2, <2>2, <3>1 DEF Moved
    <3>2. CASE c # b
      BY <1>2, <2>2, <3>2 DEF Moved
    <3>. QED  BY <3>1, <3>2
  <2>. QED  BY <2>1, <2>2 DEF Holding, HeldSomewhere
<1>6. HeldAtOnePlace'
  <2>1. \A c \in Batches : \A k \in DOMAIN searchNodes'[c] :
          c # b /\ k \in DOMAIN searchNodes[c] /\ searchNodes'[c][k] = searchNodes[c][k]
    BY <1>2 DEF Moved
  <2>2. \A i, j \in Indices' : allSearchNodes'[i] = allSearchNodes'[j] => i = j
    BY <1>4 DEF Holding, HeldAtOnePlace
  <2>3. \A i \in Indices', c \in Batches : \A k \in DOMAIN searchNodes'[c] :
          searchNodes'[c][k] # allSearchNodes'[i]
    BY <1>4, <2>1 DEF Holding, HeldAtOnePlace
  <2>4. \A x, c \in Batches :
          \A j \in DOMAIN searchNodes'[x], k \in DOMAIN searchNodes'[c] :
            searchNodes'[x][j] = searchNodes'[c][k] => x = c /\ j = k
    BY <2>1 DEF Holding, HeldAtOnePlace
  <2>. QED  BY <2>2, <2>3, <2>4 DEF HeldAtOnePlace
<1>7. Published'
  <2>1. \A k \in DOMAIN searchNodes[b] :
          searchNodes[b][k] \in IDs /\ searchNodes[b][k] \in docStore
    BY <1>2, HoldingTypes DEF Moved, Holding, Published, Saved
  <2>2. \A c \in Batches : pc'[c] = "publish" => pc[c] = "publish" /\ Saved(c)' = Saved(c)
    <3>1. \A c \in Batches : pc'[c] = "publish" => pc[c] = "publish" /\ c # b
      BY <1>2 DEF Moved, IInv, TypeOK
    <3>. QED  BY <1>2, <3>1 DEF Moved, Saved
  <2>. QED  BY <1>2, <1>3, <1>4, <2>1, <2>2 DEF Moved, Holding, Published
<1>8. BufferSize'
  <2>1. BatchSize \in Nat \ {0} /\ Len(searchNodes'[b]) = 0
    BY <1>2, SpimiBatchAssumption DEF Moved
  <2>2. \A c \in Batches : c # b => pc'[c] = pc[c]
    BY <1>2 DEF Moved, IInv, TypeOK
  <2>. QED  BY <1>2, <2>1, <2>2 DEF Moved, Holding, BufferSize
<1>. QED  BY <1>5, <1>6, <1>7, <1>8 DEF Holding

LEMMA HoldingStep ==
  ASSUME IInv, Holding, [Next]_vars  PROVE Holding'
<1>1. ASSUME NEW b \in Batches, BatchStep(b)  PROVE Holding'
  <2>1. ASSUME NEW to \in {"scan", "add", "flush", "save", "publish", "fail", "done"},
               pc' = [pc EXCEPT ![b] = to],
               to \in {"scan", "add"} => pc[b] = "scan",
               to = "publish" => Saved(b) \subseteq docStore',
               UNCHANGED <<nodeIDX, allSearchNodes, searchNodes>>,
               docStore \subseteq docStore'
        PROVE  Holding'
    <3>1. pc'[b] = to /\ \A c \in Batches : c # b => pc'[c] = pc[c]
      BY <2>1 DEF IInv, TypeOK
    <3>. QED  BY <2>1, <3>1, HoldingKept
  <2>2. CASE SeeCancel(b)
    BY <2>1, <2>2 DEF SeeCancel, lockVars, diskVars
  <2>3. CASE Skip(b)
    BY <2>3, HoldingKept DEF Skip, lockVars, diskVars
  <2>4. CASE CheckDuplicate(b)
    <3>1. CASE pc' = [pc EXCEPT ![b] = "add"]
      BY <2>1, <2>4, <3>1 DEF CheckDuplicate, InLoop, diskVars
    <3>2. CASE UNCHANGED pc
      BY <2>4, <3>2, HoldingKept DEF CheckDuplicate, diskVars
    <3>. QED  BY <2>4, <3>1, <3>2 DEF CheckDuplicate
  <2>5. CASE EndBatch(b)
    BY <2>1, <2>5 DEF EndBatch, lockVars, diskVars
  <2>6. ASSUME NEW f \in Fields, ReceiveInverted(b, f)  PROVE Holding'
    <3>1. PICK to \in {"flush", "save", "fail"} : pc' = [pc EXCEPT ![b] = to]
      BY <2>6 DEF ReceiveInverted, AfterResult
    <3>. QED  BY <2>1, <2>6, <3>1 DEF ReceiveInverted, lockVars, diskVars
  <2>7. CASE SaveDocs(b)
    BY <2>1, <2>7 DEF SaveDocs, lockVars
  <2>8. CASE CollectError(b)
    BY <2>1, <2>8 DEF CollectError, lockVars, diskVars
  <2>. QED  BY <1>1, <2>2, <2>3, <2>4, <2>5, <2>6, <2>7, <2>8, AddHolding, PublishHolding
       DEF BatchStep
<1>2. ASSUME UNCHANGED <<nodeIDX, allSearchNodes, searchNodes, docStore, pc>>  PROVE Holding'
  BY <1>2, HoldingKept
<1>3. ASSUME NEW b \in Batches, NEW f \in Fields, InvertStep(b, f)  PROVE Holding'
  BY <1>2, <1>3 DEF InvertStep, ParseNode, InvertCancelled, AllocBlock, RegisterSegment,
                    WriteSegment, lockVars, diskVars
<1>4. CASE (\E k \in Kinds : CollectAll(k)) \/ MainStep \/ Cancel \/ UNCHANGED vars
  BY <1>2, <1>4 DEF CollectAll, MainStep, ReturnError, WriteRtree, MergeName, MergeAddress,
                    MergeField, BuildNgram, SaveMeta, Cancel, vars, lockVars, diskVars
<1>. QED  BY <1>1, <1>3, <1>4 DEF Next, Returned

LEMMA HoldingInit == Init => Holding
<1>. SUFFICES ASSUME Init  PROVE Holding
  OBVIOUS
<1>1. IDs = {} /\ Indices = {} /\ BatchSize \in Nat \ {0}
  BY SpimiBatchAssumption DEF Init, IDs, Indices
<1>2. \A b \in Batches : /\ searchNodes[b] = <<>> /\ Len(searchNodes[b]) = 0
                         /\ DOMAIN searchNodes[b] = {} /\ pc[b] = "scan"
  BY DEF Init
<1>. QED  BY <1>1, <1>2 DEF Holding, HeldSomewhere, HeldAtOnePlace, Published, BufferSize

\* A document is in one buffer until its flush is over, and then once in the list of
\* published documents, saved (processOSMWaysBatch, processOSMNodesBatch), however
\* the batches interleave and whatever fails.
THEOREM DocsAreHeldOnce == Spec => []DocsHeldOnce
<1>1. IInv /\ Holding => DocsHeldOnce
  <2>. SUFFICES ASSUME IInv, Holding, NEW d \in IDs
                PROVE  Cardinality({i \in DOMAIN allSearchNodes : allSearchNodes[i] = d})
                       + Cardinality({x \in Batches \X (1..BatchSize) :
                            /\ x[2] \in DOMAIN searchNodes[x[1]]
                            /\ searchNodes[x[1]][x[2]] = d}) = 1
    BY DEF DocsHeldOnce, Holding, Published, Indices
  <2>. DEFINE P == {i \in DOMAIN allSearchNodes : allSearchNodes[i] = d}
              Q == {x \in Batches \X (1..BatchSize) :
                      /\ x[2] \in DOMAIN searchNodes[x[1]]
                      /\ searchNodes[x[1]][x[2]] = d}
  <2>1. ASSUME NEW i \in Indices, allSearchNodes[i] = d
        PROVE  P = {i} /\ Q = {}
    <3>1. P = {i}
      BY <2>1 DEF Holding, HeldAtOnePlace, Indices
    <3>2. Q = {}
      BY <2>1 DEF Holding, HeldAtOnePlace, Indices
    <3>. QED  BY <3>1, <3>2
  <2>2. ASSUME NEW b \in Batches, NEW k \in DOMAIN searchNodes[b], searchNodes[b][k] = d
        PROVE  P = {} /\ Q = {<<b, k>>}
    <3>1. P = {}
      BY <2>2 DEF Holding, HeldAtOnePlace, Indices
    <3>2. k \in 1..BatchSize
      <4>1. searchNodes[b] \in Seq(Nat) /\ Len(searchNodes[b]) <= BatchSize
            /\ BatchSize \in Nat
        BY HoldingTypes, SpimiBatchAssumption DEF Holding, BufferSize
      <4>. QED  BY <2>2, <4>1
    <3>3. <<b, k>> \in Q
      BY <2>2, <3>2
    <3>4. \A x \in Q : x = <<b, k>>
      <4>. SUFFICES ASSUME NEW x \in Q  PROVE x = <<b, k>>
        OBVIOUS
      <4>1. /\ x = <<x[1], x[2]>> /\ x[1] \in Batches
            /\ x[2] \in DOMAIN searchNodes[x[1]] /\ searchNodes[x[1]][x[2]] = d
        OBVIOUS
      <4>2. x[1] = b /\ x[2] = k
        BY <2>2, <4>1 DEF Holding, HeldAtOnePlace
      <4>. QED  BY <4>1, <4>2
    <3>. QED  BY <3>1, <3>3, <3>4
  <2>. HIDE DEF P, Q
  <2>3. (P = {} /\ \E x : Q = {x}) \/ (Q = {} /\ \E x : P = {x})
    BY <2>1, <2>2 DEF Holding, HeldSomewhere
  <2>4. Cardinality({}) = 0 /\ \A x : Cardinality({x}) = 1
    BY FS_EmptySet, FS_Singleton
  <2>5. Cardinality(P) + Cardinality(Q) = 1
    <3>1. \/ Cardinality(P) = 0 /\ Cardinality(Q) = 1
          \/ Cardinality(Q) = 0 /\ Cardinality(P) = 1
      BY <2>3, <2>4
    <3>. QED  BY <3>1
  <2>. QED  BY <2>5 DEF P, Q
<1>. QED  BY <1>1, InitInv, StepInv, HoldingInit, HoldingStep, PTL DEF Spec

-----------------------------------------------------------------------------
(* The index of a run that succeeds *)

AfterParse == {"register", "write", "send", "done"}

\* A flush is over when both goroutines have ended without an error; a goroutine
\* that has stopped parsing has parsed the whole buffer, unless it was cancelled.
WholeAt(b) ==
  /\ pc[b] \in {"save", "publish"} => \A f \in Fields : inv[b][f].pc = "done"
  /\ pc[b] \in {"flush", "save", "publish"} =>
       \A f \in Fields : inv[b][f].pc = "done" => ~ inv[b][f].err
  /\ ~ cancelled => \A f \in Fields :
       inv[b][f].pc \in AfterParse => inv[b][f].parsed = Len(searchNodes[b])

Whole == \A b \in Batches : WholeAt(b)

\* A number that is held is not the number of a segment that has been written; a
\* goroutine that writes has listed its segment.
Writing ==
  /\ \A s \in DOMAIN files : s.block < block
  /\ \A b \in Batches, f \in Fields :
       /\ HasBlock(b, f) => \A s \in DOMAIN files : s.block # inv[b][f].block
       /\ inv[b][f].pc = "write" => Segment(b, f) \in Listed

\* A segment holds documents that have words in its field.
Sound ==
  \A s \in DOMAIN files : \A d \in files[s] : d \in IDs /\ Words(d, s.field) > 0

InSegment(d, f) == \E s \in DOMAIN files : s \in Listed /\ s.field = f /\ d \in files[s]

\* The words of a document whose flush succeeded are in a segment of each field,
\* unless the write of a posting list failed.
Written(d, f) == InSegment(d, f) \/ <<f, d>> \in lost

Flushed ==
  ~ cancelled =>
    /\ \A b \in Batches, f \in Fields :
         inv[b][f].pc \in {"send", "done"} /\ ~ inv[b][f].err =>
           \A k \in DOMAIN searchNodes[b] :
             Words(searchNodes[b][k], f) > 0 => Written(searchNodes[b][k], f)
    /\ \A i \in Indices, f \in Fields :
         Words(allSearchNodes[i], f) > 0 => Written(allSearchNodes[i], f)

\* The words counted of the k-th document of a buffer.
Count(b, k, f) == IF k <= inv[b][f].parsed THEN Words(searchNodes[b][k], f) ELSE 0

\* Every word of a document is counted once.
Counted ==
  ~ cancelled =>
    /\ \A d \in DocIDs : d >= nodeIDX => docWordCount[d] = 0
    /\ \A b \in Batches : \A k \in DOMAIN searchNodes[b] :
         docWordCount[searchNodes[b][k]] = Count(b, k, "name") + Count(b, k, "address")
    /\ \A i \in Indices :
         docWordCount[allSearchNodes[i]] =
           Words(allSearchNodes[i], "name") + Words(allSearchNodes[i], "address")

IsMerged(f) ==
  /\ Segments(f) \subseteq DOMAIN files
  /\ merged[f] = UNION {files[s] : s \in Segments(f)}

\* What main has done so far.
Done ==
  /\ main \notin {"collect", "failed"} => rtreeFile = osmData /\ docsCount = nodeIDX
  /\ main \in {"merge_address", "ok", "ngram", "saved"} => IsMerged("name")
  /\ Succeeded => IsMerged("address")

-----------------------------------------------------------------------------
(* What a step does                                                        *)

LEMMA StateTypes ==
  ASSUME IInv
  PROVE  /\ inv \in [Batches -> [Fields -> InvState]]
         /\ searchNodes \in [Batches -> Seq(Nat)] /\ allSearchNodes \in Seq(Nat)
         /\ DOMAIN pc = Batches /\ block \in Nat /\ nodeIDX \in Nat
         /\ docWordCount \in [DocIDs -> Nat]
         /\ IDs \subseteq Nat
         /\ \A b \in Batches, f \in Fields :
              /\ inv[b][f].parsed \in Nat /\ inv[b][f].block \in Nat
              /\ inv[b][f].pc \in InvPc /\ inv[b][f].err \in BOOLEAN
<1>1. /\ inv \in [Batches -> [Fields -> InvState]]
      /\ searchNodes \in [Batches -> Seq(Nat)] /\ allSearchNodes \in Seq(Nat)
      /\ DOMAIN pc = Batches /\ block \in Nat /\ nodeIDX \in Nat
      /\ docWordCount \in [DocIDs -> Nat]
  BY DEF IInv, TypeOK, InvState, InvPc
<1>2. \A b \in Batches, f \in Fields : inv[b][f] \in InvState
  BY <1>1
<1>. QED  BY <1>1, <1>2 DEF IDs, InvState

\* An inverting goroutine changes its own state only.
LEMMA InvertsAlone ==
  ASSUME IInv, NEW b \in Batches, NEW f \in Fields, InvertStep(b, f)
  PROVE  /\ UNCHANGED <<nodeIDX, osmData, allSearchNodes, docStore, rtreeFile, merged, meta,
                        pc, pos, searchNodes, coll, main, docsCount, cancelled>>
         /\ \A c \in Batches, g \in Fields : ~(c = b /\ g = f) => inv'[c][g] = inv[c][g]
<1>1. UNCHANGED <<nodeIDX, osmData, allSearchNodes, docStore, rtreeFile, merged, meta,
                  pc, pos, searchNodes, coll, main, docsCount, cancelled>>
  BY DEF InvertStep, ParseNode, InvertCancelled, AllocBlock, RegisterSegment, WriteSegment,
         lockVars, diskVars, mainVars
<1>2. \E w : inv' = [inv EXCEPT ![b][f] = w]
  <2>1. CASE ParseNode(b, f)
    BY <2>1 DEF ParseNode
  <2>2. CASE InvertCancelled(b, f)
    BY <2>2 DEF InvertCancelled
  <2>3. CASE AllocBlock(b, f)
    BY <2>3 DEF AllocBlock
  <2>4. CASE RegisterSegment(b, f)
    BY <2>4 DEF RegisterSegment, InvertFails
  <2>5. CASE WriteSegment(b, f)
    BY <2>5 DEF WriteSegment, InvertFails
  <2>. QED  BY <2>1, <2>2, <2>3, <2>4, <2>5 DEF InvertStep
<1>3. \A c \in Batches, g \in Fields : ~(c = b /\ g = f) => inv'[c][g] = inv[c][g]
  BY <1>2, StateTypes
<1>. QED  BY <1>1, <1>3

\* A segment is written, without the posting lists whose writes failed.
Writes(b, f) ==
  \E dropped \in SUBSET Tokenized(b, f) :
    files' = SegmentWithout(b, f, dropped) /\ lost' = lost \cup ({f} \X dropped)

\* How each step of an inverting goroutine changes its state.
LEMMA InvertsTo ==
  ASSUME IInv, NEW b \in Batches, NEW f \in Fields
  PROVE  /\ ParseNode(b, f) =>
              /\ inv[b][f].pc = "parse" /\ inv'[b][f].pc = "parse"
              /\ inv'[b][f].parsed = inv[b][f].parsed + 1
              /\ inv[b][f].parsed < Len(searchNodes[b])
         /\ InvertCancelled(b, f) =>
              inv'[b][f].pc = "send" /\ inv'[b][f].err /\ cancelled
         /\ AllocBlock(b, f) =>
              /\ inv[b][f].pc = "parse" /\ inv'[b][f].pc = "register"
              /\ inv'[b][f].parsed = inv[b][f].parsed /\ inv'[b][f].block = block
         /\ RegisterSegment(b, f) =>
              /\ inv[b][f].pc = "register"
              /\ inv'[b][f].parsed = inv[b][f].parsed /\ inv'[b][f].block = inv[b][f].block
              /\ UNCHANGED <<block, files>>
              /\ \/ /\ inv'[b][f].pc = "write"
                    /\ intermediateIndices' = Append(intermediateIndices, Segment(b, f))
                 \/ /\ inv'[b][f].pc = "send" /\ inv'[b][f].err
                    /\ UNCHANGED intermediateIndices
         /\ WriteSegment(b, f) =>
              /\ inv[b][f].pc = "write" /\ inv'[b][f].pc = "send"
              /\ inv'[b][f].parsed = inv[b][f].parsed /\ inv'[b][f].block = inv[b][f].block
              /\ UNCHANGED <<block, intermediateIndices>>
              /\ \/ Writes(b, f)
                 \/ inv'[b][f].err /\ UNCHANGED <<files, lost>>
<1>1. inv[b][f] \in InvState /\ inv \in [Batches -> [Fields -> InvState]]
  BY StateTypes
<1>2. ASSUME NEW w, inv' = [inv EXCEPT ![b][f] = w]  PROVE inv'[b][f] = w
  BY <1>1, <1>2
<1>3. ASSUME ParseNode(b, f)
      PROVE  /\ inv[b][f].pc = "parse" /\ inv'[b][f].pc = "parse"
             /\ inv'[b][f].parsed = inv[b][f].parsed + 1
             /\ inv[b][f].parsed < Len(searchNodes[b])
  <2>1. inv'[b][f] = [inv[b][f] EXCEPT !.parsed = @ + 1]
    BY <1>1, <1>3 DEF ParseNode
  <2>. QED  BY <1>1, <1>3, <2>1 DEF ParseNode, Inverting, InvState
<1>4. ASSUME InvertCancelled(b, f)
      PROVE  inv'[b][f].pc = "send" /\ inv'[b][f].err /\ cancelled
  <2>1. inv'[b][f] = [inv[b][f] EXCEPT !.pc = "send", !.err = TRUE]
    BY <1>1, <1>4 DEF InvertCancelled
  <2>. QED  BY <1>1, <1>4, <2>1 DEF InvertCancelled, InvState
<1>5. ASSUME AllocBlock(b, f)
      PROVE  /\ inv[b][f].pc = "parse" /\ inv'[b][f].pc = "register"
             /\ inv'[b][f].parsed = inv[b][f].parsed /\ inv'[b][f].block = block
  <2>1. inv'[b][f] = [inv[b][f] EXCEPT !.pc = "register", !.block = block]
    BY <1>1, <1>5 DEF AllocBlock
  <2>. QED  BY <1>1, <1>5, <2>1 DEF AllocBlock, Inverting, InvState
<1>6. ASSUME InvertFails(b, f)
      PROVE  /\ inv'[b][f].pc = "send" /\ inv'[b][f].err
             /\ inv'[b][f].parsed = inv[b][f].parsed /\ inv'[b][f].block = inv[b][f].block
  <2>1. inv'[b][f] = [inv[b][f] EXCEPT !.pc = "send", !.err = TRUE]
    BY <1>1, <1>6 DEF InvertFails
  <2>. QED  BY <1>1, <2>1 DEF InvState
<1>7. ASSUME RegisterSegment(b, f)
      PROVE  /\ inv[b][f].pc = "register"
             /\ inv'[b][f].parsed = inv[b][f].parsed /\ inv'[b][f].block = inv[b][f].block
             /\ UNCHANGED <<block, files>>
             /\ \/ /\ inv'[b][f].pc = "write"
                   /\ intermediateIndices' = Append(intermediateIndices, Segment(b, f))
                \/ /\ inv'[b][f].pc = "send" /\ inv'[b][f].err
                   /\ UNCHANGED intermediateIndices
  <2>1. CASE /\ inv' = [inv EXCEPT ![b][f].pc = "write"]
             /\ intermediateIndices' = Append(intermediateIndices, Segment(b, f))
    <3>1. inv'[b][f] = [inv[b][f] EXCEPT !.pc = "write"]
      BY <1>1, <2>1
    <3>. QED  BY <1>1, <1>7, <2>1, <3>1 DEF RegisterSegment, Inverting, InvState, diskVars
  <2>2. CASE InvertFails(b, f) /\ UNCHANGED intermediateIndices
    BY <1>6, <1>7, <2>2 DEF RegisterSegment, Inverting, diskVars
  <2>. QED  BY <1>7, <2>1, <2>2 DEF RegisterSegment
<1>8. ASSUME WriteSegment(b, f)
      PROVE  /\ inv[b][f].pc = "write" /\ inv'[b][f].pc = "send"
             /\ inv'[b][f].parsed = inv[b][f].parsed /\ inv'[b][f].block = inv[b][f].block
             /\ UNCHANGED <<block, intermediateIndices>>
             /\ \/ Writes(b, f)
                \/ inv'[b][f].err /\ UNCHANGED <<files, lost>>
  <2>1. CASE inv' = [inv EXCEPT ![b][f].pc = "send"] /\ Writes(b, f)
    <3>1. inv'[b][f] = [inv[b][f] EXCEPT !.pc = "send"]
      BY <1>1, <2>1
    <3>. QED  BY <1>1, <1>8, <2>1, <3>1 DEF WriteSegment, Inverting, InvState, lockVars
  <2>2. CASE InvertFails(b, f) /\ UNCHANGED <<files, lost>>
    BY <1>6, <1>8, <2>2 DEF WriteSegment, Inverting, lockVars
  <2>. QED  BY <1>8, <2>1, <2>2 DEF WriteSegment, Writes
<1>. QED  BY <1>3, <1>4, <1>5, <1>7, <1>8

\* A batch goroutine changes its own state only, and may set its goroutines off
\* or take a result of one.
LEMMA BatchAlone ==
  ASSUME IInv, NEW b \in Batches, BatchStep(b)
  PROVE  /\ UNCHANGED <<block, docWordCount, intermediateIndices, files, rtreeFile, merged, meta,
                        main, docsCount, cancelled>>
         /\ \A c \in Batches : c # b =>
              pc'[c] = pc[c] /\ searchNodes'[c] = searchNodes[c] /\ inv'[c] = inv[c]
<1>1. UNCHANGED <<block, docWordCount, intermediateIndices, files, rtreeFile, merged, meta,
                  main, docsCount, cancelled>>
  BY DEF BatchStep, SeeCancel, Skip, CheckDuplicate, AddObject, EndBatch, ReceiveInverted,
         SaveDocs, Publish, CollectError, lockVars, diskVars, mainVars
<1>2. pc' = pc \/ \E to : pc' = [pc EXCEPT ![b] = to]
  BY DEF BatchStep, SeeCancel, Skip, CheckDuplicate, AddObject, EndBatch, ReceiveInverted,
         SaveDocs, Publish, CollectError
<1>3. searchNodes' = searchNodes \/ \E to : searchNodes' = [searchNodes EXCEPT ![b] = to]
  BY DEF BatchStep, SeeCancel, Skip, CheckDuplicate, AddObject, EndBatch, ReceiveInverted,
         SaveDocs, Publish, ResetBuffer, CollectError
<1>4. inv' = inv \/ \E to : inv' = [inv EXCEPT ![b] = to]
  BY DEF BatchStep, SeeCancel, Skip, CheckDuplicate, AddObject, StartInverting, EndBatch,
         ReceiveInverted, SaveDocs, Publish, CollectError
<1>. QED  BY <1>1, <1>2, <1>3, <1>4, StateTypes

LEMMA FreshState ==
  /\ Started.pc = "parse" /\ Started.parsed = 0 /\ ~ Started.err
  /\ NotStarted.pc = "idle" /\ NotStarted.parsed = 0 /\ ~ NotStarted.err
BY DEF Started, NotStarted

\* What a batch goroutine does to the goroutines of its flush.
LEMMA BatchInverts ==
  ASSUME IInv, NEW b \in Batches, BatchStep(b)
  PROVE  \/ inv'[b] = inv[b] /\ searchNodes'[b] = searchNodes[b]
            /\ (pc'[b] \in {"save", "publish"} => pc[b] \in {"save", "publish"})
            /\ pc'[b] # "flush"
            /\ UNCHANGED <<nodeIDX, osmData, allSearchNodes>>
         \/ AddObject(b) /\ pc'[b] = "scan" /\ inv'[b] = inv[b]
         \/ AddObject(b) /\ pc'[b] = "flush" /\ \A f \in Fields : inv'[b][f] = Started
         \/ EndBatch(b) /\ pc'[b] = "flush" /\ searchNodes'[b] = searchNodes[b]
            /\ (\A f \in Fields : inv'[b][f] = Started)
            /\ UNCHANGED <<nodeIDX, osmData, allSearchNodes>>
         \/ \E f \in Fields : ReceiveInverted(b, f)
         \/ Publish(b) /\ pc'[b] = "scan" /\ \A f \in Fields : inv'[b][f] = NotStarted
<1>1. inv \in [Batches -> [Fields -> InvState]] /\ DOMAIN pc = Batches
  BY StateTypes
<1>2. ASSUME NEW to, pc' = [pc EXCEPT ![b] = to]  PROVE pc'[b] = to
  BY <1>1, <1>2
<1>3. CASE SeeCancel(b)
  BY <1>2, <1>3 DEF SeeCancel, lockVars
<1>4. CASE Skip(b)
  BY <1>4 DEF Skip, InLoop, lockVars
<1>5. CASE CheckDuplicate(b)
  BY <1>2, <1>5 DEF CheckDuplicate, InLoop
<1>6. CASE AddObject(b)
  <2>1. CASE Len(searchNodes[b]) + 1 = BatchSize
    BY <1>1, <1>2, <1>6, <2>1 DEF AddObject, StartInverting
  <2>2. CASE Len(searchNodes[b]) + 1 # BatchSize
    BY <1>2, <1>6, <2>2 DEF AddObject
  <2>. QED  BY <2>1, <2>2
<1>7. CASE EndBatch(b)
  <2>1. CASE searchNodes[b] = <<>>
    BY <1>2, <1>7, <2>1 DEF EndBatch, lockVars
  <2>2. CASE searchNodes[b] # <<>>
    BY <1>1, <1>2, <1>7, <2>2 DEF EndBatch, StartInverting, lockVars
  <2>. QED  BY <2>1, <2>2
<1>8. CASE SaveDocs(b)
  BY <1>2, <1>8 DEF SaveDocs, lockVars
<1>9. CASE Publish(b)
  BY <1>1, <1>2, <1>9 DEF Publish
<1>10. CASE CollectError(b)
  BY <1>2, <1>10 DEF CollectError, lockVars
<1>. QED  BY <1>3, <1>4, <1>5, <1>6, <1>7, <1>8, <1>9, <1>10 DEF BatchStep

LEMMA Receives ==
  ASSUME IInv, NEW b \in Batches, NEW f \in Fields, ReceiveInverted(b, f)
  PROVE  /\ pc[b] = "flush" /\ inv[b][f].pc = "send" /\ inv'[b][f].pc = "done"
         /\ inv'[b][f].parsed = inv[b][f].parsed /\ inv'[b][f].block = inv[b][f].block
         /\ inv'[b][f].err = inv[b][f].err
         /\ \A g \in Fields : g # f => inv'[b][g] = inv[b][g]
         /\ \/ inv[b][f].err /\ pc'[b] = "fail"
            \/ ~ inv[b][f].err /\ pc'[b] = "flush"
            \/ /\ ~ inv[b][f].err /\ pc'[b] = "save"
               /\ \A g \in Fields : g # f => inv[b][g].pc = "done"
         /\ UNCHANGED <<nodeIDX, osmData, allSearchNodes, searchNodes>>
<1>1. inv[b][f] \in InvState /\ inv \in [Batches -> [Fields -> InvState]] /\ DOMAIN pc = Batches
  BY StateTypes
<1>2. inv'[b][f] = [inv[b][f] EXCEPT !.pc = "done"] /\
      \A g \in Fields : g # f => inv'[b][g] = inv[b][g]
  BY <1>1 DEF ReceiveInverted
<1>3. /\ inv'[b][f].pc = "done" /\ inv'[b][f].err = inv[b][f].err
      /\ inv'[b][f].parsed = inv[b][f].parsed /\ inv'[b][f].block = inv[b][f].block
  BY <1>1, <1>2 DEF InvState
<1>4. pc'[b] = AfterResult(b, f)
  BY <1>1 DEF ReceiveInverted
<1>. QED  BY <1>2, <1>3, <1>4 DEF ReceiveInverted, AfterResult, lockVars

-----------------------------------------------------------------------------
(* Flushes are whole                                                       *)

LEMMA WholeStep ==
  ASSUME IInv, Whole, [Next]_vars  PROVE Whole'
<1>1. ASSUME UNCHANGED <<pc, inv, searchNodes>>, cancelled => cancelled'  PROVE Whole'
  BY <1>1 DEF Whole, WholeAt
<1>2. ASSUME NEW b \in Batches, UNCHANGED cancelled, WholeAt(b)',
             \A c \in Batches : c # b =>
               pc'[c] = pc[c] /\ searchNodes'[c] = searchNodes[c] /\ inv'[c] = inv[c]
      PROVE  Whole'
  <2>1. ASSUME NEW c \in Batches, c # b  PROVE WholeAt(c)'
    BY <1>2, <2>1 DEF Whole, WholeAt
  <2>2. ASSUME NEW c \in Batches  PROVE WholeAt(c)'
    BY <1>2, <2>1
  <2>. QED  BY <2>2 DEF Whole
<1>3. ASSUME NEW b \in Batches, BatchStep(b)  PROVE Whole'
  <2>1. /\ UNCHANGED cancelled
        /\ \A c \in Batches : c # b =>
             pc'[c] = pc[c] /\ searchNodes'[c] = searchNodes[c] /\ inv'[c] = inv[c]
    BY <1>3, BatchAlone
  <2>2. WholeAt(b)
    BY DEF Whole
  <2>3. WholeAt(b)'
    <3>1. CASE /\ inv'[b] = inv[b] /\ searchNodes'[b] = searchNodes[b] /\ pc'[b] # "flush"
               /\ (pc'[b] \in {"save", "publish"} => pc[b] \in {"save", "publish"})
      BY <2>1, <2>2, <3>1 DEF WholeAt
    <3>2. CASE AddObject(b) /\ pc'[b] = "scan" /\ inv'[b] = inv[b]
      <4>1. \A f \in Fields : inv[b][f].pc = "idle"
        BY <3>2 DEF AddObject, IInv, Flushing
      <4>. QED  BY <3>2, <4>1 DEF WholeAt, AfterParse
    <3>3. CASE pc'[b] = "flush" /\ \A f \in Fields : inv'[b][f] = Started
      BY <3>3, FreshState DEF WholeAt, AfterParse
    <3>4. ASSUME NEW f \in Fields, ReceiveInverted(b, f)  PROVE WholeAt(b)'
      <4>1. /\ \A g \in Fields : g # f => inv'[b][g] = inv[b][g]
            /\ pc[b] = "flush" /\ inv[b][f].pc = "send" /\ inv'[b][f].pc = "done"
            /\ inv'[b][f].parsed = inv[b][f].parsed /\ inv'[b][f].err = inv[b][f].err
            /\ \/ inv[b][f].err /\ pc'[b] = "fail"
               \/ ~ inv[b][f].err /\ pc'[b] = "flush"
               \/ /\ ~ inv[b][f].err /\ pc'[b] = "save"
                  /\ \A g \in Fields : g # f => inv[b][g].pc = "done"
            /\ UNCHANGED searchNodes
        BY <3>4, Receives
      <4>2. pc'[b] \in {"save", "publish"} => \A g \in Fields : inv'[b][g].pc = "done"
        BY <4>1
      <4>3. pc'[b] \in {"flush", "save", "publish"} =>
              \A g \in Fields : inv'[b][g].pc = "done" => ~ inv'[b][g].err
        BY <2>2, <4>1 DEF WholeAt
      <4>4. ~ cancelled' => \A g \in Fields :
              inv'[b][g].pc \in AfterParse => inv'[b][g].parsed = Len(searchNodes'[b])
        <5>. SUFFICES ASSUME ~ cancelled, NEW g \in Fields, inv'[b][g].pc \in AfterParse
                      PROVE  inv'[b][g].parsed = Len(searchNodes[b])
          BY <2>1, <4>1
        <5>1. inv[b][g].pc \in AfterParse /\ inv'[b][g].parsed = inv[b][g].parsed
          BY <4>1 DEF AfterParse
        <5>. QED  BY <2>2, <5>1 DEF WholeAt
      <4>. QED  BY <4>2, <4>3, <4>4 DEF WholeAt
    <3>5. CASE pc'[b] = "scan" /\ \A f \in Fields : inv'[b][f] = NotStarted
      BY <3>5, FreshState DEF WholeAt, AfterParse
    <3>. QED  BY <1>3, <3>1, <3>2, <3>3, <3>4, <3>5, BatchInverts
  <2>. QED  BY <1>2, <2>1, <2>3
<1>4. ASSUME NEW b \in Batches, NEW f \in Fields, InvertStep(b, f)  PROVE Whole'
  <2>1. /\ UNCHANGED <<pc, searchNodes, cancelled>>
        /\ \A c \in Batches, g \in Fields : ~(c = b /\ g = f) => inv'[c][g] = inv[c][g]
    BY <1>4, InvertsAlone
  <2>2. /\ inv[b][f].pc \notin {"idle", "done"} /\ inv'[b][f].pc # "done"
        /\ ~ cancelled /\ inv'[b][f].pc \in AfterParse =>
             inv'[b][f].parsed = Len(searchNodes[b])
    <3>1. CASE ParseNode(b, f)
      BY <3>1, InvertsTo DEF AfterParse
    <3>2. CASE InvertCancelled(b, f)
      BY <3>2, InvertsTo DEF InvertCancelled, Inverting
    <3>3. CASE AllocBlock(b, f)
      BY <3>3, InvertsTo DEF AllocBlock, Parsed
    <3>4. CASE RegisterSegment(b, f)
      BY <3>4, InvertsTo, ZenonT(60) DEF Whole, WholeAt, AfterParse
    <3>5. CASE WriteSegment(b, f)
      BY <3>5, InvertsTo, ZenonT(60) DEF Whole, WholeAt, AfterParse
    <3>. QED  BY <1>4, <3>1, <3>2, <3>3, <3>4, <3>5 DEF InvertStep
  <2>3. ASSUME NEW c \in Batches  PROVE WholeAt(c)'
    <3>1. WholeAt(c)
      BY DEF Whole
    <3>2. pc'[c] \in {"save", "publish"} => \A g \in Fields : inv'[c][g].pc = "done"
      BY <2>1, <2>2, <3>1 DEF WholeAt
    <3>3. pc'[c] \in {"flush", "save", "publish"} =>
              \A g \in Fields : inv'[c][g].pc = "done" => ~ inv'[c][g].err
      BY <2>1, <2>2, <3>1 DEF WholeAt
    <3>4. ~ cancelled' => \A g \in Fields :
              inv'[c][g].pc \in AfterParse => inv'[c][g].parsed = Len(searchNodes'[c])
      BY <2>1, <2>2, <3>1 DEF WholeAt
    <3>. QED  BY <3>2, <3>3, <3>4 DEF WholeAt
  <2>. QED  BY <2>3 DEF Whole
<1>5. CASE (\E k \in Kinds : CollectAll(k)) \/ MainStep \/ Cancel \/ UNCHANGED vars
  BY <1>1, <1>5 DEF CollectAll, MainStep, ReturnError, WriteRtree, MergeName, MergeAddress,
                    MergeField, BuildNgram, SaveMeta, Cancel, vars, mainVars
<1>. QED  BY <1>3, <1>4, <1>5 DEF Next, Returned

LEMMA WholeInit == Init => Whole
BY FreshState DEF Init, Whole, WholeAt, AfterParse

-----------------------------------------------------------------------------
(* Segments                                                                *)

\* The object of an ID stays.
LEMMA WordsStay ==
  ASSUME IInv, [Next]_vars
  PROVE  /\ IDs \subseteq IDs'
         /\ \A d \in IDs, f \in Fields : Words(d, f)' = Words(d, f)
<1>1. CASE UNCHANGED <<osmData, nodeIDX>>
  BY <1>1 DEF IDs, Words
<1>2. ASSUME NEW b \in Batches, AddObject(b)
      PROVE  /\ IDs \subseteq IDs'
             /\ \A d \in IDs, f \in Fields : Words(d, f)' = Words(d, f)
  <2>1. PICK e : osmData' = Append(osmData, e)
    BY <1>2 DEF AddObject
  <2>2. /\ osmData \in Seq(Doc) /\ nodeIDX = Len(osmData) /\ nodeIDX \in Nat
        /\ nodeIDX' = nodeIDX + 1
    BY <1>2 DEF AddObject, TakeID, IInv, TypeOK, Doc, Numbering, DocIDsDense
  <2>3. \A d \in IDs : d + 1 \in 1..Len(osmData)
    BY <2>2 DEF IDs
  <2>4. \A d \in IDs : osmData'[d + 1] = osmData[d + 1]
    BY <2>1, <2>2, <2>3
  <2>. QED  BY <2>2, <2>4 DEF IDs, Words
<1>3. ASSUME NEW b \in Batches, BatchStep(b)
      PROVE  UNCHANGED <<osmData, nodeIDX>> \/ AddObject(b)
  BY <1>3 DEF BatchStep, SeeCancel, Skip, CheckDuplicate, EndBatch, ReceiveInverted, SaveDocs,
              Publish, CollectError, lockVars
<1>4. ASSUME NEW b \in Batches, NEW f \in Fields, InvertStep(b, f)
      PROVE  UNCHANGED <<osmData, nodeIDX>>
  BY <1>4, InvertsAlone
<1>5. CASE (\E k \in Kinds : CollectAll(k)) \/ MainStep \/ Cancel \/ UNCHANGED vars
  BY <1>1, <1>5 DEF CollectAll, MainStep, ReturnError, WriteRtree, MergeName, MergeAddress,
                    MergeField, BuildNgram, SaveMeta, Cancel, vars, lockVars
<1>. QED  BY <1>1, <1>2, <1>3, <1>4, <1>5 DEF Next, Returned

LEMMA WritingKept ==
  ASSUME Writing, UNCHANGED <<files, intermediateIndices, block>>,
         \A b \in Batches, f \in Fields : inv'[b][f].pc \in {"register", "write"} =>
           inv'[b][f].pc = inv[b][f].pc /\ inv'[b][f].block = inv[b][f].block
  PROVE  Writing'
BY DEF Writing, HasBlock, Segment, Listed

LEMMA WritingStep ==
  ASSUME IInv, Writing, [Next]_vars  PROVE Writing'
<1>1. ASSUME NEW b \in Batches, BatchStep(b)  PROVE Writing'
  <2>1. /\ UNCHANGED <<files, intermediateIndices, block>>
        /\ \A c \in Batches : c # b => inv'[c] = inv[c]
    BY <1>1, BatchAlone
  <2>2. \A f \in Fields : inv'[b][f].pc \in {"register", "write"} =>
           inv'[b][f].pc = inv[b][f].pc /\ inv'[b][f].block = inv[b][f].block
    <3>1. ASSUME NEW f \in Fields, ReceiveInverted(b, f)
          PROVE  /\ inv'[b][f].pc = "done"
                 /\ \A g \in Fields : g # f => inv'[b][g] = inv[b][g]
      BY <3>1, Receives
    <3>. QED  BY <1>1, <3>1, BatchInverts, FreshState
  <2>. QED  BY <2>1, <2>2, WritingKept
<1>2. ASSUME NEW b \in Batches, NEW f \in Fields, InvertStep(b, f)  PROVE Writing'
  <2>0. /\ \A c \in Batches, g \in Fields : ~(c = b /\ g = f) => inv'[c][g] = inv[c][g]
        /\ block \in Nat /\ \A c \in Batches, g \in Fields : inv[c][g].block \in Nat
    BY <1>2, InvertsAlone, StateTypes
  <2>1. ASSUME UNCHANGED <<files, intermediateIndices, block>>,
               inv'[b][f].pc \notin {"register", "write"}
        PROVE  Writing'
    BY <2>0, <2>1, WritingKept
  <2>2. CASE ParseNode(b, f)
    <3>1. inv'[b][f].pc = "parse" /\ UNCHANGED <<files, intermediateIndices, block>>
      BY <2>2, InvertsTo DEF ParseNode, diskVars
    <3>. QED  BY <2>1, <3>1
  <2>3. CASE InvertCancelled(b, f)
    <3>1. inv'[b][f].pc = "send" /\ UNCHANGED <<files, intermediateIndices, block>>
      BY <2>3, InvertsTo DEF InvertCancelled, lockVars, diskVars
    <3>. QED  BY <2>1, <3>1
  <2>4. CASE AllocBlock(b, f)
    <3>1. /\ inv'[b][f].pc = "register" /\ inv'[b][f].block = block /\ block' = block + 1
          /\ UNCHANGED <<files, intermediateIndices>>
      BY <2>4, InvertsTo DEF AllocBlock, TakeBlock, diskVars
    <3>2. \A s \in DOMAIN files : s.block < block /\ s.block \in Nat
      BY DEF Writing, IInv, TypeOK
    <3>3. \A s \in DOMAIN files : s.block < block + 1 /\ s.block # block
      BY <2>0, <3>2
    <3>. QED  BY <2>0, <3>1, <3>3 DEF Writing, HasBlock, Segment, Listed
  <2>5. CASE RegisterSegment(b, f)
    <3>1. CASE inv'[b][f].pc = "send"
      <4>1. UNCHANGED <<files, intermediateIndices, block>>
        BY <2>5, <3>1, InvertsTo
      <4>. QED  BY <2>1, <3>1, <4>1
    <3>2. CASE inv'[b][f].pc # "send"
      <4>1. /\ inv[b][f].pc = "register" /\ inv'[b][f].pc = "write"
            /\ inv'[b][f].block = inv[b][f].block
        BY <2>5, <3>2, InvertsTo
      <4>2. /\ UNCHANGED <<files, block>>
            /\ intermediateIndices' = Append(intermediateIndices, Segment(b, f))
        BY <2>5, <3>2, InvertsTo
      <4>3. Listed' = Listed \cup {Segment(b, f)}
        <5>1. intermediateIndices \in Seq(Segs)
          BY DEF IInv, TypeOK, Segs
        <5>2. PICK s : s = Segment(b, f)
          OBVIOUS
        <5>3. Segment(b, f) \in Segs
          BY <2>0 DEF Segment, Segs
        <5>4. /\ DOMAIN intermediateIndices' = DOMAIN intermediateIndices
                                               \cup {Len(intermediateIndices) + 1}
              /\ \A i \in DOMAIN intermediateIndices :
                   intermediateIndices'[i] = intermediateIndices[i]
              /\ intermediateIndices'[Len(intermediateIndices) + 1] = s
          BY <4>2, <5>1, <5>2, <5>3
        <5>. QED  BY <5>2, <5>4 DEF Listed
      <4>. QED  BY <2>0, <4>1, <4>2, <4>3 DEF Writing, HasBlock, Segment
    <3>. QED  BY <3>1, <3>2
  <2>6. CASE WriteSegment(b, f)
    <3>1. /\ inv[b][f].pc = "write" /\ inv'[b][f].pc = "send"
          /\ UNCHANGED <<block, intermediateIndices>>
      BY <2>6, InvertsTo DEF WriteSegment, lockVars
    <3>2. DOMAIN files' \subseteq DOMAIN files \cup {Segment(b, f)}
      BY <2>6 DEF WriteSegment, SegmentWithout
    <3>3. /\ inv[b][f].block < block
          /\ \A c \in Batches, g \in Fields : HasBlock(c, g) /\ ~(c = b /\ g = f) =>
               inv[c][g].block # inv[b][f].block
      BY <3>1 DEF HasBlock, IInv, Segmenting, SegmentsDistinct, Unlisted
    <3>4. Segment(b, f).block = inv[b][f].block
      BY DEF Segment
    <3>. QED  BY <2>0, <3>1, <3>2, <3>3, <3>4 DEF Writing, HasBlock, Segment, Listed
  <2>. QED  BY <1>2, <2>2, <2>3, <2>4, <2>5, <2>6 DEF InvertStep
<1>3. CASE (\E k \in Kinds : CollectAll(k)) \/ MainStep \/ Cancel \/ UNCHANGED vars
  BY <1>3, WritingKept DEF CollectAll, MainStep, ReturnError, WriteRtree, MergeName, MergeAddress,
                    MergeField, BuildNgram, SaveMeta, Cancel, vars, lockVars, diskVars
<1>. QED  BY <1>1, <1>2, <1>3 DEF Next, Returned

LEMMA WritingInit == Init => Writing
BY FreshState DEF Init, Writing, HasBlock

\* Only WriteSegment changes a file, one that was not there.
LEMMA FilesStay ==
  ASSUME IInv, Writing, [Next]_vars
  PROVE  \/ UNCHANGED files
         \/ \E b \in Batches, f \in Fields :
              /\ WriteSegment(b, f) /\ Segment(b, f) \notin DOMAIN files
              /\ inv[b][f].pc = "write" /\ Writes(b, f)
<1>1. ASSUME NEW b \in Batches, BatchStep(b)  PROVE UNCHANGED files
  BY <1>1, BatchAlone
<1>2. ASSUME NEW b \in Batches, NEW f \in Fields, WriteSegment(b, f)
      PROVE  Segment(b, f) \notin DOMAIN files /\ inv[b][f].pc = "write"
  BY <1>2 DEF WriteSegment, Inverting, Writing, HasBlock, Segment
<1>3. ASSUME NEW b \in Batches, NEW f \in Fields, InvertStep(b, f), ~ WriteSegment(b, f)
      PROVE  UNCHANGED files
  BY <1>3 DEF InvertStep, ParseNode, InvertCancelled, AllocBlock, RegisterSegment, diskVars
<1>4. CASE (\E k \in Kinds : CollectAll(k)) \/ MainStep \/ Cancel \/ UNCHANGED vars
  BY <1>4 DEF CollectAll, MainStep, ReturnError, WriteRtree, MergeName, MergeAddress,
              MergeField, BuildNgram, SaveMeta, Cancel, vars, lockVars, diskVars
<1>5. ASSUME NEW b \in Batches, NEW f \in Fields, WriteSegment(b, f)
      PROVE  UNCHANGED files \/ Writes(b, f)
  BY <1>5 DEF WriteSegment, Writes
<1>. QED  BY <1>1, <1>2, <1>3, <1>4, <1>5 DEF Next, Returned

LEMMA SoundStep ==
  ASSUME IInv, Writing, Sound, [Next]_vars  PROVE Sound'
<1>1. CASE UNCHANGED files
  <2>1. \A s \in DOMAIN files : s.field \in Fields
    BY DEF IInv, TypeOK
  <2>. QED  BY <1>1, <2>1, WordsStay DEF Sound
<1>2. ASSUME NEW b \in Batches, NEW f \in Fields, WriteSegment(b, f), Writes(b, f)
      PROVE  Sound'
  <2>0. PICK dropped \in SUBSET Tokenized(b, f) : files' = SegmentWithout(b, f, dropped)
    BY <1>2 DEF Writes
  <2>1. \A s \in DOMAIN files : s.field \in Fields
    BY DEF IInv, TypeOK
  <2>2. \A d \in Tokenized(b, f) : d \in IDs /\ Words(d, f) > 0
    <3>. SUFFICES ASSUME NEW d \in Tokenized(b, f)  PROVE d \in IDs /\ Words(d, f) > 0
      OBVIOUS
    <3>1. PICK i \in 1..inv[b][f].parsed : d = searchNodes[b][i]
      BY DEF Tokenized
    <3>2. i \in DOMAIN searchNodes[b]
      <4>1. inv[b][f].parsed \in Nat /\ inv[b][f].parsed <= Len(searchNodes[b])
            /\ searchNodes[b] \in Seq(Nat)
        BY StateTypes DEF IInv, Flushing
      <4>. QED  BY <3>1, <4>1
    <3>. QED  BY <3>1, <3>2, HoldingTypes DEF Tokenized
  <2>3. Segment(b, f).field = f
    BY DEF Segment
  <2>4. UNCHANGED <<osmData, nodeIDX>>
    BY <1>2 DEF WriteSegment, lockVars
  <2>. SUFFICES ASSUME NEW s \in DOMAIN files', NEW d \in files'[s]
                PROVE  d \in IDs /\ Words(d, s.field) > 0
    BY <2>4 DEF Sound, IDs, Words
  <2>5. CASE s = Segment(b, f)
    BY <2>0, <2>2, <2>3, <2>5 DEF SegmentWithout
  <2>6. CASE s # Segment(b, f)
    BY <2>0, <2>6 DEF Sound, SegmentWithout
  <2>. QED  BY <2>5, <2>6
<1>. QED  BY <1>1, <1>2, FilesStay

LEMMA SoundInit == Init => Sound
BY DEF Init, Sound

\* A document that is in a listed segment stays in it.
LEMMA ListedStay ==
  ASSUME IInv, [Next]_vars  PROVE Listed \subseteq Listed'
<1>1. ASSUME NEW e, intermediateIndices' = Append(intermediateIndices, e)
      PROVE  Listed \subseteq Listed'
  <2>1. intermediateIndices \in Seq(Segs)
    BY DEF IInv, TypeOK, Segs
  <2>2. \A i \in DOMAIN intermediateIndices : i \in DOMAIN intermediateIndices'
          /\ intermediateIndices'[i] = intermediateIndices[i]
    BY <1>1, <2>1
  <2>. QED  BY <2>2 DEF Listed
<1>2. CASE UNCHANGED intermediateIndices
  BY <1>2 DEF Listed
<1>3. ASSUME NEW b \in Batches, BatchStep(b)  PROVE UNCHANGED intermediateIndices
  BY <1>3, BatchAlone
<1>4. ASSUME NEW b \in Batches, NEW f \in Fields, InvertStep(b, f)
      PROVE  UNCHANGED intermediateIndices
             \/ \E e : intermediateIndices' = Append(intermediateIndices, e)
  BY <1>4 DEF InvertStep, ParseNode, InvertCancelled, AllocBlock, RegisterSegment,
              WriteSegment, lockVars
<1>5. CASE (\E k \in Kinds : CollectAll(k)) \/ MainStep \/ Cancel \/ UNCHANGED vars
  BY <1>2, <1>5 DEF CollectAll, MainStep, ReturnError, WriteRtree, MergeName, MergeAddress,
              MergeField, BuildNgram, SaveMeta, Cancel, vars, lockVars
<1>. QED  BY <1>1, <1>2, <1>3, <1>4, <1>5 DEF Next, Returned

LEMMA SegmentsStay ==
  ASSUME IInv, Writing, [Next]_vars
  PROVE  \A d, f : InSegment(d, f) => InSegment(d, f)'
<1>1. \A s \in DOMAIN files : s \in DOMAIN files' /\ files'[s] = files[s]
  BY FilesStay DEF Writes, SegmentWithout
<1>. QED  BY <1>1, ListedStay DEF InSegment

\* What was lost stays lost; only WriteSegment loses anything.
LEMMA OnlyWriteLoses ==
  ASSUME IInv, [Next]_vars
  PROVE  \/ UNCHANGED lost
         \/ \E b \in Batches, f \in Fields : WriteSegment(b, f)
<1>1. ASSUME NEW b \in Batches, BatchStep(b)  PROVE UNCHANGED lost
  BY <1>1 DEF BatchStep, SeeCancel, Skip, CheckDuplicate, AddObject, EndBatch,
              ReceiveInverted, SaveDocs, Publish, CollectError, diskVars
<1>2. ASSUME NEW b \in Batches, NEW f \in Fields, InvertStep(b, f), ~ WriteSegment(b, f)
      PROVE  UNCHANGED lost
  BY <1>2 DEF InvertStep, ParseNode, InvertCancelled, AllocBlock, RegisterSegment, diskVars
<1>3. CASE (\E k \in Kinds : CollectAll(k)) \/ MainStep \/ Cancel \/ UNCHANGED vars
  BY <1>3 DEF CollectAll, MainStep, ReturnError, WriteRtree, MergeName, MergeAddress,
              MergeField, BuildNgram, SaveMeta, Cancel, vars, diskVars
<1>. QED  BY <1>1, <1>2, <1>3 DEF Next, Returned

LEMMA LostStay ==
  ASSUME IInv, [Next]_vars  PROVE lost \subseteq lost'
BY OnlyWriteLoses DEF WriteSegment

-----------------------------------------------------------------------------
(* What was flushed is in the segments                                     *)

FlushedAt(b, f) ==
  inv[b][f].pc \in {"send", "done"} /\ ~ inv[b][f].err =>
    \A k \in DOMAIN searchNodes[b] :
      Words(searchNodes[b][k], f) > 0 => Written(searchNodes[b][k], f)

FlushedDoc(d) == \A f \in Fields : Words(d, f) > 0 => Written(d, f)

\* Documents that are found stay so.
LEMMA FlushedStays ==
  ASSUME IInv, Holding, Writing, [Next]_vars
  PROVE  /\ \A d \in IDs : FlushedDoc(d) => FlushedDoc(d)'
         /\ \A b \in Batches, f \in Fields :
              /\ FlushedAt(b, f) /\ searchNodes'[b] = searchNodes[b]
              /\ inv'[b][f].pc \in {"send", "done"} /\ ~ inv'[b][f].err =>
                   inv[b][f].pc \in {"send", "done"} /\ ~ inv[b][f].err
              => FlushedAt(b, f)'
<1>1. \A d \in IDs, f \in Fields :
        (Words(d, f) > 0 => Written(d, f)) => (Words(d, f) > 0 => Written(d, f))'
  BY WordsStay, SegmentsStay, LostStay DEF Written
<1>2. \A d \in IDs : FlushedDoc(d) => FlushedDoc(d)'
  BY <1>1 DEF FlushedDoc
<1>3. ASSUME NEW b \in Batches, NEW f \in Fields,
             FlushedAt(b, f), searchNodes'[b] = searchNodes[b],
             inv'[b][f].pc \in {"send", "done"} /\ ~ inv'[b][f].err =>
                   inv[b][f].pc \in {"send", "done"} /\ ~ inv[b][f].err
      PROVE  FlushedAt(b, f)'
  <2>. SUFFICES ASSUME inv'[b][f].pc \in {"send", "done"} /\ ~ inv'[b][f].err,
                       NEW k \in DOMAIN searchNodes[b],
                       NEW d, d = searchNodes[b][k], Words(d, f)' > 0
                PROVE  Written(d, f)'
    BY <1>3 DEF FlushedAt
  <2>1. d \in IDs
    BY HoldingTypes
  <2>2. Words(d, f) > 0 => Written(d, f)
    BY <1>3 DEF FlushedAt
  <2>. QED  BY <1>1, <2>1, <2>2
<1>. QED  BY <1>2, <1>3

PublishedDocs == {allSearchNodes[i] : i \in Indices}

LEMMA FlushedParts ==
  Flushed <=> (~ cancelled => /\ \A b \in Batches, f \in Fields : FlushedAt(b, f)
                              /\ \A d \in PublishedDocs : FlushedDoc(d))
BY DEF Flushed, FlushedAt, FlushedDoc, PublishedDocs

LEMMA FlushedPartsNext ==
  Flushed' <=> (~ cancelled' => /\ \A b \in Batches, f \in Fields : FlushedAt(b, f)'
                                /\ \A d \in PublishedDocs' : FlushedDoc(d)')
BY DEF Flushed, FlushedAt, FlushedDoc, PublishedDocs

\* Publish adds the documents of the buffer.
LEMMA PublishedGrows ==
  ASSUME IInv, [Next]_vars
  PROVE  \/ UNCHANGED PublishedDocs
         \/ \E b \in Batches :
              Publish(b) /\ PublishedDocs' = PublishedDocs \cup Saved(b)
<1>1. CASE UNCHANGED allSearchNodes
  BY <1>1 DEF PublishedDocs, Indices
<1>2. ASSUME NEW b \in Batches, Publish(b)
      PROVE  PublishedDocs' = PublishedDocs \cup Saved(b)
  <2>1. Len(allSearchNodes) \in Nat /\ Len(searchNodes[b]) \in Nat
    BY HoldingTypes
  <2>2. PICK n \in Nat, m \in Nat : Moved(b, n, m)
    BY <1>2, <2>1, PublishMoves
  <2>3. PublishedDocs' \subseteq PublishedDocs \cup Saved(b)
    <3>. SUFFICES ASSUME NEW i \in 1..(n + m)
                  PROVE  allSearchNodes'[i] \in PublishedDocs \cup Saved(b)
      BY <2>2 DEF Moved, PublishedDocs
    <3>1. CASE i \in 1..n
      BY <2>2, <3>1 DEF Moved, PublishedDocs
    <3>2. CASE i \notin 1..n
      <4>1. i - n \in 1..m /\ i = n + (i - n)
        BY <3>2
      <4>2. allSearchNodes'[n + (i - n)] = searchNodes[b][i - n]
        BY <2>2, <4>1 DEF Moved
      <4>. QED  BY <2>2, <4>1, <4>2 DEF Moved, Saved
    <3>. QED  BY <3>1, <3>2
  <2>4. PublishedDocs \subseteq PublishedDocs'
    <3>1. \A i \in 1..n : i \in 1..(n + m)
      OBVIOUS
    <3>. QED  BY <2>2, <3>1 DEF Moved, PublishedDocs
  <2>5. Saved(b) \subseteq PublishedDocs'
    <3>. SUFFICES ASSUME NEW k \in 1..m  PROVE searchNodes[b][k] \in PublishedDocs'
      BY <2>2 DEF Moved, Saved
    <3>1. n + k \in Indices' /\ allSearchNodes'[n + k] = searchNodes[b][k]
      BY <2>2 DEF Moved
    <3>. QED  BY <3>1 DEF PublishedDocs
  <2>. QED  BY <2>3, <2>4, <2>5
<1>3. ASSUME NEW b \in Batches, BatchStep(b)
      PROVE  UNCHANGED allSearchNodes \/ Publish(b)
  BY <1>3 DEF BatchStep, SeeCancel, Skip, CheckDuplicate, AddObject, EndBatch, ReceiveInverted,
              SaveDocs, CollectError, lockVars
<1>4. ASSUME NEW b \in Batches, NEW f \in Fields, InvertStep(b, f)
      PROVE  UNCHANGED allSearchNodes
  BY <1>4, InvertsAlone
<1>5. CASE (\E k \in Kinds : CollectAll(k)) \/ MainStep \/ Cancel \/ UNCHANGED vars
  BY <1>1, <1>5 DEF CollectAll, MainStep, ReturnError, WriteRtree, MergeName, MergeAddress,
                    MergeField, BuildNgram, SaveMeta, Cancel, vars, lockVars
<1>. QED  BY <1>1, <1>2, <1>3, <1>4, <1>5 DEF Next, Returned

LEMMA CancelStays ==
  ASSUME IInv, [Next]_vars, cancelled  PROVE cancelled'
<1>1. ASSUME NEW b \in Batches, BatchStep(b)  PROVE cancelled'
  BY <1>1, BatchAlone
<1>2. ASSUME NEW b \in Batches, NEW f \in Fields, InvertStep(b, f)  PROVE cancelled'
  BY <1>2, InvertsAlone
<1>3. CASE (\E k \in Kinds : CollectAll(k)) \/ MainStep \/ Cancel \/ UNCHANGED vars
  BY <1>3 DEF CollectAll, MainStep, ReturnError, WriteRtree, MergeName, MergeAddress,
              MergeField, BuildNgram, SaveMeta, Cancel, vars, mainVars
<1>. QED  BY <1>1, <1>2, <1>3 DEF Next, Returned

LEMMA FlushedStep ==
  ASSUME IInv, Holding, Whole, Writing, Flushed, [Next]_vars  PROVE Flushed'
<1>. SUFFICES ASSUME ~ cancelled'
              PROVE  /\ \A b \in Batches, f \in Fields : FlushedAt(b, f)'
                     /\ \A d \in PublishedDocs' : FlushedDoc(d)'
  BY FlushedPartsNext
<1>0. ~ cancelled
  BY CancelStays
<1>1. /\ \A b \in Batches, f \in Fields : FlushedAt(b, f)
      /\ \A d \in PublishedDocs : FlushedDoc(d)
  BY <1>0, FlushedParts
<1>2. \A d \in PublishedDocs : d \in IDs
  BY DEF PublishedDocs, Holding, Published
<1>3. \A d \in PublishedDocs' : FlushedDoc(d)'
  <2>1. ASSUME NEW d \in PublishedDocs  PROVE FlushedDoc(d)'
    BY <1>1, <1>2, <2>1, FlushedStays
  <2>2. ASSUME NEW b \in Batches, Publish(b), NEW d \in Saved(b)  PROVE FlushedDoc(d)'
    <3>1. /\ pc[b] = "publish"
          /\ \A f \in Fields : inv[b][f].pc = "done" /\ ~ inv[b][f].err
      BY <2>2 DEF Publish, Whole, WholeAt
    <3>2. FlushedDoc(d)
      BY <1>1, <3>1, <2>2 DEF FlushedAt, FlushedDoc, Saved
    <3>3. d \in IDs
      BY <2>2, HoldingTypes DEF Saved
    <3>. QED  BY <3>2, <3>3, FlushedStays
  <2>. QED  BY <2>1, <2>2, PublishedGrows
<1>4. ASSUME NEW b \in Batches, NEW f \in Fields, searchNodes'[b] = searchNodes[b],
             inv'[b][f].pc \in {"send", "done"} /\ ~ inv'[b][f].err =>
                   inv[b][f].pc \in {"send", "done"} /\ ~ inv[b][f].err
      PROVE  FlushedAt(b, f)'
  BY <1>1, <1>4, FlushedStays
<1>5. ASSUME NEW b \in Batches, NEW f \in Fields, inv'[b][f].pc \in {"idle", "parse"}
      PROVE  FlushedAt(b, f)'
  BY <1>5 DEF FlushedAt
<1>6. ASSUME NEW b \in Batches, BatchStep(b), NEW c \in Batches, NEW f \in Fields
      PROVE  FlushedAt(c, f)'
  <2>1. CASE c # b
    <3>1. searchNodes'[c] = searchNodes[c] /\ inv'[c] = inv[c]
      BY <1>6, <2>1, BatchAlone
    <3>. QED  BY <1>4, <3>1
  <2>2. CASE inv'[b] = inv[b] /\ searchNodes'[b] = searchNodes[b]
    BY <1>4, <2>1, <2>2
  <2>3. CASE AddObject(b) /\ pc'[b] = "scan" /\ inv'[b] = inv[b]
    <3>1. \A g \in Fields : inv[b][g].pc = "idle"
      BY <2>3 DEF AddObject, IInv, Flushing
    <3>. QED  BY <1>5, <2>1, <2>3, <3>1
  <2>4. CASE \A g \in Fields : inv'[b][g] = Started
    BY <1>5, <2>1, <2>4, FreshState
  <2>5. ASSUME NEW g \in Fields, ReceiveInverted(b, g)  PROVE FlushedAt(c, f)'
    <3>1. /\ inv[b][g].pc = "send" /\ inv'[b][g].pc = "done" /\ inv'[b][g].err = inv[b][g].err
          /\ \A h \in Fields : h # g => inv'[b][h] = inv[b][h]
          /\ UNCHANGED searchNodes
      BY <2>5, Receives
    <3>. QED  BY <1>4, <2>1, <3>1
  <2>6. CASE \A g \in Fields : inv'[b][g] = NotStarted
    BY <1>5, <2>1, <2>6, FreshState
  <2>. QED  BY <1>6, <2>2, <2>3, <2>4, <2>5, <2>6, BatchInverts
<1>7. ASSUME NEW b \in Batches, NEW f \in Fields, InvertStep(b, f),
             NEW c \in Batches, NEW g \in Fields
      PROVE  FlushedAt(c, g)'
  <2>1. /\ UNCHANGED searchNodes
        /\ \A x \in Batches, h \in Fields : ~(x = b /\ h = f) => inv'[x][h] = inv[x][h]
    BY <1>7, InvertsAlone
  <2>2. CASE ~(c = b /\ g = f)
    BY <1>4, <2>1, <2>2
  <2>3. FlushedAt(b, f)'
    <3>1. ASSUME inv'[b][f].pc \in {"send", "done"} => inv'[b][f].err
          PROVE  FlushedAt(b, f)'
      BY <3>1 DEF FlushedAt
    <3>2. CASE ParseNode(b, f)
      <4>1. inv'[b][f].pc = "parse"
        BY <3>2, InvertsTo
      <4>. QED  BY <3>1, <4>1
    <3>3. CASE InvertCancelled(b, f)
      BY <1>0, <3>3 DEF InvertCancelled
    <3>4. CASE AllocBlock(b, f)
      <4>1. inv'[b][f].pc = "register"
        BY <3>4, InvertsTo
      <4>. QED  BY <3>1, <4>1
    <3>5. CASE RegisterSegment(b, f)
      <4>1. inv'[b][f].pc = "write" \/ (inv'[b][f].pc = "send" /\ inv'[b][f].err)
        BY <3>5, InvertsTo
      <4>. QED  BY <3>1, <4>1
    <3>6. CASE WriteSegment(b, f)
      <4>1. /\ inv[b][f].pc = "write" /\ inv'[b][f].pc = "send"
            /\ UNCHANGED <<intermediateIndices, osmData>>
        BY <3>6, InvertsTo DEF WriteSegment, lockVars
      <4>2. CASE inv'[b][f].err
        BY <3>1, <4>2
      <4>3. CASE Writes(b, f)
        <5>0. PICK dropped \in SUBSET Tokenized(b, f) :
                /\ files' = SegmentWithout(b, f, dropped)
                /\ lost' = lost \cup ({f} \X dropped)
          BY <4>3 DEF Writes
        <5>1. PICK s : s = Segment(b, f)
          OBVIOUS
        <5>2. /\ s \in Listed /\ s.field = f
              /\ s \in DOMAIN files' /\ files'[s] = Tokenized(b, f) \ dropped
          BY <4>1, <5>0, <5>1 DEF Writing, Segment, SegmentWithout
        <5>3. inv[b][f].parsed = Len(searchNodes[b])
          BY <1>0, <4>1 DEF Whole, WholeAt, AfterParse
        <5>4. DOMAIN searchNodes[b] = 1..Len(searchNodes[b])
          BY StateTypes
        <5>5. ASSUME NEW k \in DOMAIN searchNodes[b], NEW d, d = searchNodes[b][k],
                     Words(d, f)' > 0
              PROVE  Written(d, f)'
          <6>1. Words(d, f) > 0
            BY <4>1, <5>5 DEF Words
          <6>2. d \in Tokenized(b, f)
            BY <5>3, <5>4, <5>5, <6>1 DEF Tokenized
          <6>3. s \in Listed'
            BY <4>1, <5>2 DEF Listed
          <6>4. CASE d \in dropped
            BY <5>0, <6>4 DEF Written
          <6>5. CASE d \notin dropped
            BY <5>2, <6>2, <6>3, <6>5 DEF InSegment, Written
          <6>. QED  BY <6>4, <6>5
        <5>6. \A k \in DOMAIN searchNodes'[b] :
                Words(searchNodes[b][k], f)' > 0 => Written(searchNodes[b][k], f)'
          BY <2>1, <5>5
        <5>. QED  BY <5>6 DEF FlushedAt
      <4>. QED  BY <3>6, <4>2, <4>3, InvertsTo
    <3>. QED  BY <1>7, <3>2, <3>3, <3>4, <3>5, <3>6 DEF InvertStep
  <2>. QED  BY <2>2, <2>3
<1>8. ASSUME UNCHANGED <<inv, searchNodes>>, NEW b \in Batches, NEW f \in Fields
      PROVE  FlushedAt(b, f)'
  BY <1>4, <1>8
<1>9. CASE (\E k \in Kinds : CollectAll(k)) \/ MainStep \/ Cancel \/ UNCHANGED vars
  <2>1. UNCHANGED <<inv, searchNodes>>
    BY <1>9 DEF CollectAll, MainStep, ReturnError, WriteRtree, MergeName, MergeAddress,
                MergeField, BuildNgram, SaveMeta, Cancel, vars
  <2>. QED  BY <1>3, <1>8, <2>1
<1>. QED  BY <1>3, <1>6, <1>7, <1>9 DEF Next, Returned

LEMMA FlushedInit == Init => Flushed
BY FreshState DEF Init, Flushed, Indices

-----------------------------------------------------------------------------
(* How many documents there are                                            *)

LEMMA UpTo ==
  ASSUME NEW n \in Nat  PROVE IsFiniteSet(1..n) /\ Cardinality(1..n) = n
BY FS_Interval

LEMMA ObjectsCount ==
  IsFiniteSet(Objects) /\ Cardinality(Objects) = Len(Ways) + Len(Nodes)
<1>. DEFINE Of(k) == [kind: {k}, at: 1..Len(Input(k))]
<1>1. ASSUME NEW k \in Kinds
      PROVE  IsFiniteSet(Of(k)) /\ Cardinality(Of(k)) = Len(Input(k))
  <2>. DEFINE S == 1..Len(Input(k))
              g == [i \in S |-> [kind |-> k, at |-> i]]
  <2>1. Len(Input(k)) \in Nat
    BY InputType
  <2>2. IsFiniteSet(S) /\ Cardinality(S) = Len(Input(k))
    BY <2>1, FS_Interval, SMTT(60)
  <2>3. g \in Bijection(S, Of(k))
    <3>1. g \in [S -> Of(k)]
      OBVIOUS
    <3>2. \A i, j \in S : g[i] = g[j] => i = j
      <4>. SUFFICES ASSUME NEW i \in S, NEW j \in S, g[i] = g[j]  PROVE i = j
        OBVIOUS
      <4>1. g[i].at = i /\ g[j].at = j
        OBVIOUS
      <4>. QED  BY <4>1
    <3>3. \A t \in Of(k) : \E i \in S : g[i] = t
      <4>. SUFFICES ASSUME NEW t \in Of(k)  PROVE g[t.at] = t /\ t.at \in S
        OBVIOUS
      <4>. QED  OBVIOUS
    <3>. HIDE DEF g, S
    <3>4. DOMAIN g = S
      BY <3>1
    <3>. QED  BY <3>1, <3>2, <3>3, <3>4 DEF Bijection, Injection, Surjection, IsInjective
  <2>4. ExistsBijection(S, Of(k))
    BY <2>3 DEF ExistsBijection
  <2>. HIDE DEF S, Of
  <2>. QED  BY <2>2, <2>4, FS_Bijection
<1>2. Objects = Of("ways") \cup Of("nodes")
  BY DEF Objects, Kinds
<1>3. Of("ways") \cap Of("nodes") = {}
  OBVIOUS
<1>4. Len(Ways) \in Nat /\ Len(Nodes) \in Nat
  BY SpimiBatchAssumption
<1>. HIDE DEF Of
<1>5. /\ IsFiniteSet(Of("ways")) /\ Cardinality(Of("ways")) = Len(Ways)
      /\ IsFiniteSet(Of("nodes")) /\ Cardinality(Of("nodes")) = Len(Nodes)
  BY <1>1 DEF Kinds, Input
<1>6. /\ IsFiniteSet(Of("ways") \cup Of("nodes"))
      /\ Cardinality(Of("ways") \cup Of("nodes")) =
           Cardinality(Of("ways")) + Cardinality(Of("nodes")) - Cardinality({})
  BY <1>3, <1>5, FS_Union
<1>7. Cardinality({}) = 0
  BY FS_EmptySet
<1>. QED  BY <1>2, <1>4, <1>5, <1>6, <1>7

\* No object has two IDs, so the IDs stay within DocIDs.
LEMMA IDsFit ==
  ASSUME IInv
  PROVE  nodeIDX <= Len(Ways) + Len(Nodes) /\ IDs \subseteq DocIDs
<1>. DEFINE S == 1..nodeIDX
            g == [i \in S |-> osmData[i].obj]
<1>1. /\ osmData \in Seq(Doc) /\ nodeIDX = Len(osmData) /\ nodeIDX \in Nat
      /\ \A i, j \in DOMAIN osmData : osmData[i].obj = osmData[j].obj => i = j
  BY DEF IInv, TypeOK, Doc, Numbering, DocIDsDense
<1>2. DOMAIN osmData = S /\ \A i \in S : osmData[i].obj \in Objects
  <2>1. \A i \in DOMAIN osmData : osmData[i] \in Doc
    BY <1>1
  <2>2. DOMAIN osmData = S
    BY <1>1
  <2>. QED  BY <2>1, <2>2 DEF Doc
<1>3. g \in Injection(S, Objects)
  <2>1. g \in [S -> Objects] /\ \A i, j \in S : g[i] = g[j] => i = j
    BY <1>1, <1>2
  <2>. HIDE DEF S, g
  <2>. QED  BY <2>1 DEF Injection, IsInjective
<1>4. Cardinality(S) = nodeIDX
  BY <1>1, UpTo
<1>5. Cardinality(S) <= Cardinality(Objects)
  <2>. HIDE DEF S, g
  <2>. QED  BY <1>3, FS_Injection, ObjectsCount
<1>6. nodeIDX <= Len(Ways) + Len(Nodes)
  <2>. HIDE DEF S
  <2>. QED  BY <1>4, <1>5, ObjectsCount
<1>7. Len(Ways) \in Nat /\ Len(Nodes) \in Nat
  BY SpimiBatchAssumption
<1>. QED  BY <1>1, <1>6, <1>7 DEF IDs, DocIDs

LEMMA IDsFitAlways == IInv => nodeIDX <= Len(Ways) + Len(Nodes)
BY IDsFit

LEMMA IDsFitNext == IInv' => (nodeIDX <= Len(Ways) + Len(Nodes))'
BY IDsFitAlways, PTL

\* When the buffers are empty, as many documents are published as were numbered.
LEMMA AllPublished ==
  ASSUME IInv, Holding, \A b \in Batches : searchNodes[b] = <<>>
  PROVE  /\ Len(allSearchNodes) = nodeIDX
         /\ \A d \in IDs : \E i \in Indices : allSearchNodes[i] = d
<1>1. \A d \in IDs : \E i \in Indices : allSearchNodes[i] = d
  BY DEF Holding, HeldSomewhere
<1>2. allSearchNodes \in Seq(Nat) /\ nodeIDX \in Nat
  BY HoldingTypes
<1>3. Indices = 1..Len(allSearchNodes) /\ Len(allSearchNodes) \in Nat
  BY <1>2 DEF Indices
<1>4. allSearchNodes \in Bijection(Indices, IDs)
  <2>1. allSearchNodes \in [Indices -> IDs]
    <3>1. \A i \in Indices : allSearchNodes[i] \in IDs
      BY DEF Holding, Published
    <3>2. allSearchNodes = [i \in Indices |-> allSearchNodes[i]]
      BY <1>2 DEF Indices
    <3>. QED  BY <3>1, <3>2
  <2>2. \A i, j \in Indices : allSearchNodes[i] = allSearchNodes[j] => i = j
    BY DEF Holding, HeldAtOnePlace
  <2>3. DOMAIN allSearchNodes = Indices
    BY DEF Indices
  <2>. QED  BY <1>1, <2>1, <2>2, <2>3 DEF Bijection, Injection, Surjection, IsInjective
<1>5. ExistsBijection(Indices, IDs)
  BY <1>4 DEF ExistsBijection
<1>6. IsFiniteSet(Indices) /\ Cardinality(Indices) = Len(allSearchNodes)
  BY <1>3, FS_Interval
<1>7. Cardinality(IDs) = nodeIDX
  BY <1>2, FS_Interval DEF IDs
<1>8. Cardinality(IDs) = Cardinality(Indices)
  BY <1>5, <1>6, FS_Bijection
<1>. QED  BY <1>1, <1>6, <1>7, <1>8

-----------------------------------------------------------------------------
(* Every word is counted once                                              *)

CountedAt(b) ==
  \A k \in DOMAIN searchNodes[b] :
    docWordCount[searchNodes[b][k]] = Count(b, k, "name") + Count(b, k, "address")

CountedDoc(d) == docWordCount[d] = Words(d, "name") + Words(d, "address")

LEMMA CountedParts ==
  Counted <=> (~ cancelled => /\ \A d \in DocIDs : d >= nodeIDX => docWordCount[d] = 0
                              /\ \A b \in Batches : CountedAt(b)
                              /\ \A d \in PublishedDocs : CountedDoc(d))
BY DEF Counted, CountedAt, CountedDoc, PublishedDocs

LEMMA CountedPartsNext ==
  Counted' <=> (~ cancelled' => /\ \A d \in DocIDs : d >= nodeIDX' => docWordCount'[d] = 0
                                /\ \A b \in Batches : CountedAt(b)'
                                /\ \A d \in PublishedDocs' : CountedDoc(d)')
BY DEF Counted, CountedAt, CountedDoc, PublishedDocs

\* A buffer whose documents nobody counts.
LEMMA CountedStays ==
  ASSUME IInv, [Next]_vars, NEW b \in Batches, CountedAt(b),
         UNCHANGED docWordCount, searchNodes'[b] = searchNodes[b],
         \A f \in Fields : inv'[b][f].parsed = inv[b][f].parsed
  PROVE  CountedAt(b)'
<1>. SUFFICES ASSUME NEW k \in DOMAIN searchNodes[b], NEW d, d = searchNodes[b][k]
              PROVE  docWordCount[d] =
                       (IF k <= inv[b]["name"].parsed THEN Words(d, "name")' ELSE 0)
                       + (IF k <= inv[b]["address"].parsed THEN Words(d, "address")' ELSE 0)
  BY DEF CountedAt, Count, Fields
<1>1. d \in IDs
  BY HoldingTypes
<1>2. \A f \in Fields : Words(d, f)' = Words(d, f)
  BY <1>1, WordsStay
<1>. QED  BY <1>2 DEF CountedAt, Count, Fields

LEMMA WordsType ==
  ASSUME IInv, NEW d \in IDs, NEW f \in Fields
  PROVE  Words(d, f) \in Nat
<1>1. osmData \in Seq(Doc) /\ nodeIDX = Len(osmData) /\ nodeIDX \in Nat
  BY DEF IInv, TypeOK, Doc, Numbering, DocIDsDense
<1>2. d + 1 \in DOMAIN osmData
  BY <1>1 DEF IDs
<1>3. osmData[d + 1] \in Doc
  BY <1>1, <1>2
<1>. QED  BY <1>3, ObjType DEF Words, Doc

\* The next document of a buffer is counted: it is in no other place.
LEMMA ParseCounts ==
  ASSUME IInv, Holding, [Next]_vars, NEW b \in Batches, NEW f \in Fields, ParseNode(b, f),
         \A d \in DocIDs : d >= nodeIDX => docWordCount[d] = 0,
         \A c \in Batches : CountedAt(c),
         \A d \in PublishedDocs : CountedDoc(d)
  PROVE  /\ \A d \in DocIDs : d >= nodeIDX => docWordCount'[d] = 0
         /\ \A c \in Batches : CountedAt(c)'
         /\ \A d \in PublishedDocs : CountedDoc(d)'
<1>1. PICK j \in Nat : j = inv[b][f].parsed + 1
  BY StateTypes
<1>2. PICK e : e = searchNodes[b][j]
  OBVIOUS
<1>3. /\ inv[b][f].pc = "parse" /\ inv'[b][f].parsed = j
      /\ j \in DOMAIN searchNodes[b] /\ inv[b][f].parsed \in Nat
  <2>1. /\ inv[b][f].pc = "parse" /\ inv'[b][f].parsed = j
        /\ inv[b][f].parsed < Len(searchNodes[b])
    BY <1>1, InvertsTo
  <2>2. searchNodes[b] \in Seq(Nat) /\ inv[b][f].parsed \in Nat
    BY StateTypes
  <2>. QED  BY <1>1, <2>1, <2>2
<1>4. /\ UNCHANGED <<searchNodes, osmData, nodeIDX, allSearchNodes>>
      /\ \A c \in Batches, g \in Fields : ~(c = b /\ g = f) => inv'[c][g] = inv[c][g]
  BY InvertsAlone DEF InvertStep
<1>5. docWordCount' = [docWordCount EXCEPT ![e] = @ + Words(e, f)]
  BY <1>1, <1>2 DEF ParseNode
<1>6. e \in IDs /\ e \in DocIDs /\ e < nodeIDX
  BY <1>2, <1>3, HoldingTypes, IDsFit
<1>7. /\ docWordCount'[e] = docWordCount[e] + Words(e, f)
      /\ \A d \in DocIDs : d # e => docWordCount'[d] = docWordCount[d]
  BY <1>5, <1>6, StateTypes
<1>8. \A d \in DocIDs : d >= nodeIDX => docWordCount'[d] = 0
  <2>. SUFFICES ASSUME NEW d \in DocIDs, d >= nodeIDX  PROVE docWordCount'[d] = 0
    OBVIOUS
  <2>1. nodeIDX \in Nat /\ d \in Int /\ e \in Nat
    BY <1>6, StateTypes DEF DocIDs
  <2>2. d # e
    BY <1>6, <2>1
  <2>. QED  BY <1>7, <2>2
<1>9. \A d \in PublishedDocs : CountedDoc(d)'
  <2>. SUFFICES ASSUME NEW d \in PublishedDocs  PROVE CountedDoc(d)'
    OBVIOUS
  <2>1. d \in DocIDs
    BY IDsFit DEF PublishedDocs, Holding, Published
  <2>2. d # e
    BY <1>2, <1>3 DEF PublishedDocs, Holding, HeldAtOnePlace
  <2>3. CountedDoc(d)
    OBVIOUS
  <2>. QED  BY <1>4, <1>7, <2>1, <2>2, <2>3 DEF CountedDoc, Words
<1>10. ASSUME NEW c \in Batches  PROVE CountedAt(c)'
  <2>. SUFFICES ASSUME NEW k \in DOMAIN searchNodes[c], NEW d, d = searchNodes[c][k]
                PROVE  docWordCount'[d] =
                         (IF k <= inv'[c]["name"].parsed THEN Words(d, "name") ELSE 0)
                         + (IF k <= inv'[c]["address"].parsed THEN Words(d, "address") ELSE 0)
    BY <1>4 DEF CountedAt, Count, Words
  <2>1. docWordCount[d] =
          (IF k <= inv[c]["name"].parsed THEN Words(d, "name") ELSE 0)
          + (IF k <= inv[c]["address"].parsed THEN Words(d, "address") ELSE 0)
    BY DEF CountedAt, Count
  <2>2. d \in DocIDs
    BY HoldingTypes, IDsFit
  <2>3. CASE c # b
    <3>1. d # e
      BY <1>2, <1>3, <2>3 DEF Holding, HeldAtOnePlace
    <3>. QED  BY <1>4, <1>7, <2>1, <2>2, <2>3, <3>1 DEF Fields
  <2>4. CASE c = b /\ k # j
    <3>1. d # e
      BY <1>2, <1>3, <2>4 DEF Holding, HeldAtOnePlace
    <3>2. k \in Nat
      <4>1. searchNodes[c] \in Seq(Nat)
        BY StateTypes
      <4>. QED  BY <4>1
    <3>3. k <= inv[b][f].parsed <=> k <= inv'[b][f].parsed
      BY <1>1, <1>3, <2>4, <3>2
    <3>4. \A g \in Fields : k <= inv[b][g].parsed <=> k <= inv'[b][g].parsed
      BY <1>4, <3>3
    <3>. QED  BY <1>7, <2>1, <2>2, <2>4, <3>1, <3>4 DEF Fields
  <2>5. CASE c = b /\ k = j
    <3>1. d = e
      BY <1>2, <2>5
    <3>2. ~(k <= inv[b][f].parsed) /\ k <= inv'[b][f].parsed
      BY <1>1, <1>3, <2>5
    <3>3. \A g \in Fields : g # f => inv'[b][g].parsed = inv[b][g].parsed
      BY <1>4
    <3>4. Words(e, "name") \in Nat /\ Words(e, "address") \in Nat
      BY <1>6, WordsType DEF Fields
    <3>5. CASE f = "name"
      BY <1>7, <2>1, <2>5, <3>1, <3>2, <3>3, <3>4, <3>5 DEF Fields
    <3>6. CASE f = "address"
      BY <1>7, <2>1, <2>5, <3>1, <3>2, <3>3, <3>4, <3>6 DEF Fields
    <3>. QED  BY <3>5, <3>6 DEF Fields
  <2>. QED  BY <2>3, <2>4, <2>5
<1>. QED  BY <1>8, <1>9, <1>10

\* A new document has no counted words.
LEMMA AddCounts ==
  ASSUME IInv, IInv', NEW b \in Batches, AddObject(b), UNCHANGED docWordCount,
         \A f \in Fields : inv'[b][f].parsed = 0,
         \A d \in DocIDs : d >= nodeIDX => docWordCount[d] = 0,
         CountedAt(b)
  PROVE  CountedAt(b)'
<1>1. \A f \in Fields : inv[b][f].parsed = 0
  BY DEF AddObject, IInv, Flushing
<1>2. /\ searchNodes[b] \in Seq(Nat) /\ nodeIDX \in Nat /\ nodeIDX' = nodeIDX + 1
      /\ searchNodes'[b] = Append(searchNodes[b], nodeIDX)
  BY StateTypes DEF AddObject, TakeID
<1>3. nodeIDX \in DocIDs
  <2>1. nodeIDX' <= Len(Ways) + Len(Nodes)
    BY IDsFitNext
  <2>2. Len(Ways) \in Nat /\ Len(Nodes) \in Nat
    BY SpimiBatchAssumption
  <2>. QED  BY <1>2, <2>1, <2>2 DEF DocIDs
<1>4. \A k \in DOMAIN searchNodes[b] : docWordCount[searchNodes[b][k]] = 0
  <2>. SUFFICES ASSUME NEW k \in DOMAIN searchNodes[b]
                PROVE  docWordCount[searchNodes[b][k]] = 0
    OBVIOUS
  <2>1. ~(k <= 0)
    BY <1>2
  <2>. QED  BY <1>1, <2>1 DEF CountedAt, Count, Fields
<1>5. \A k \in DOMAIN searchNodes'[b] :
        docWordCount'[searchNodes'[b][k]] = 0 /\ ~(k <= 0)
  <2>. SUFFICES ASSUME NEW k \in DOMAIN searchNodes'[b]
                PROVE  docWordCount[searchNodes'[b][k]] = 0 /\ ~(k <= 0)
    OBVIOUS
  <2>1. CASE k \in DOMAIN searchNodes[b]
    BY <1>2, <1>4, <2>1
  <2>2. CASE k \notin DOMAIN searchNodes[b]
    <3>1. searchNodes'[b][k] = nodeIDX /\ ~(k <= 0)
      BY <1>2, <2>2
    <3>. QED  BY <1>2, <1>3, <3>1
  <2>. QED  BY <2>1, <2>2
<1>. QED  BY <1>5 DEF CountedAt, Count, Fields

\* When a flush is over all the words of its documents have been counted.
LEMMA PublishCounts ==
  ASSUME IInv, Whole, ~ cancelled, NEW b \in Batches, Publish(b), CountedAt(b),
         NEW d \in Saved(b)
  PROVE  CountedDoc(d)
<1>1. \A f \in Fields : inv[b][f].parsed = Len(searchNodes[b])
  BY DEF Publish, Whole, WholeAt, AfterParse
<1>2. PICK k \in DOMAIN searchNodes[b] : d = searchNodes[b][k]
  BY DEF Saved
<1>3. k <= Len(searchNodes[b])
  <2>1. searchNodes[b] \in Seq(Nat)
    BY StateTypes
  <2>. QED  BY <2>1
<1>. QED  BY <1>1, <1>2, <1>3 DEF CountedAt, CountedDoc, Count, Fields

LEMMA CountedStep ==
  ASSUME IInv, IInv', Holding, Whole, Counted, [Next]_vars  PROVE Counted'
<1>. SUFFICES ASSUME ~ cancelled'
              PROVE  /\ \A d \in DocIDs : d >= nodeIDX' => docWordCount'[d] = 0
                     /\ \A b \in Batches : CountedAt(b)'
                     /\ \A d \in PublishedDocs' : CountedDoc(d)'
  BY CountedPartsNext
<1>0. ~ cancelled
  BY CancelStays
<1>1. /\ \A d \in DocIDs : d >= nodeIDX => docWordCount[d] = 0
      /\ \A b \in Batches : CountedAt(b)
      /\ \A d \in PublishedDocs : CountedDoc(d)
  BY <1>0, CountedParts
<1>2. ASSUME UNCHANGED docWordCount, NEW d \in IDs, CountedDoc(d)  PROVE CountedDoc(d)'
  BY <1>2, WordsStay DEF CountedDoc, Fields
<1>3. \A d \in PublishedDocs : d \in IDs
  BY DEF PublishedDocs, Holding, Published
<1>4. ASSUME NEW b \in Batches, BatchStep(b)
      PROVE  /\ \A d \in DocIDs : d >= nodeIDX' => docWordCount'[d] = 0
             /\ \A c \in Batches : CountedAt(c)'
             /\ \A d \in PublishedDocs' : CountedDoc(d)'
  <2>1. /\ UNCHANGED docWordCount
        /\ \A c \in Batches : c # b => searchNodes'[c] = searchNodes[c] /\ inv'[c] = inv[c]
    BY <1>4, BatchAlone
  <2>2. \A d \in DocIDs : d >= nodeIDX' => docWordCount'[d] = 0
    <3>1. nodeIDX' = nodeIDX \/ nodeIDX' = nodeIDX + 1
      BY <1>4 DEF BatchStep, SeeCancel, Skip, CheckDuplicate, AddObject, TakeID, EndBatch,
                  ReceiveInverted, SaveDocs, Publish, CollectError, lockVars
    <3>2. nodeIDX \in Nat /\ DocIDs \subseteq Int
      BY StateTypes DEF DocIDs
    <3>3. \A d \in DocIDs : d >= nodeIDX' => d >= nodeIDX
      BY <3>1, <3>2
    <3>. QED  BY <1>1, <2>1, <3>3
  <2>3. \A d \in PublishedDocs' : CountedDoc(d)'
    <3>1. ASSUME NEW c \in Batches, Publish(c), NEW d \in Saved(c)
          PROVE  d \in IDs /\ CountedDoc(d)
      <4>1. d \in IDs
        BY <3>1, HoldingTypes DEF Saved
      <4>2. CountedAt(c)
        BY <1>1
      <4>. QED  BY <1>0, <3>1, <4>1, <4>2, PublishCounts
    <3>2. \A d \in PublishedDocs' : d \in IDs /\ CountedDoc(d)
      BY <1>1, <1>3, <3>1, PublishedGrows
    <3>. QED  BY <1>2, <2>1, <3>2
  <2>4. CountedAt(b)'
    <3>0. CountedAt(b)
      BY <1>1
    <3>1. CASE inv'[b] = inv[b] /\ searchNodes'[b] = searchNodes[b]
      BY <2>1, <3>0, <3>1, CountedStays
    <3>2. CASE AddObject(b) /\ inv'[b] = inv[b]
      <4>1. \A f \in Fields : inv'[b][f].parsed = 0
        BY <3>2 DEF AddObject, IInv, Flushing
      <4>. QED  BY <1>1, <2>1, <3>2, <4>1, AddCounts
    <3>3. CASE AddObject(b) /\ \A f \in Fields : inv'[b][f] = Started
      <4>1. \A f \in Fields : inv'[b][f].parsed = 0
        BY <3>3, FreshState
      <4>. QED  BY <1>1, <2>1, <3>3, <4>1, AddCounts
    <3>4. CASE /\ EndBatch(b) /\ searchNodes'[b] = searchNodes[b]
               /\ \A f \in Fields : inv'[b][f] = Started
      <4>1. \A f \in Fields : inv[b][f].parsed = 0
        BY <3>4 DEF EndBatch, IInv, Flushing
      <4>2. \A f \in Fields : inv'[b][f].parsed = inv[b][f].parsed
        BY <3>4, <4>1, FreshState
      <4>. QED  BY <2>1, <3>0, <3>4, <4>2, CountedStays
    <3>5. ASSUME NEW f \in Fields, ReceiveInverted(b, f)  PROVE CountedAt(b)'
      <4>1. /\ inv'[b][f].parsed = inv[b][f].parsed /\ UNCHANGED searchNodes
            /\ \A g \in Fields : g # f => inv'[b][g] = inv[b][g]
        BY <3>5, Receives
      <4>2. \A g \in Fields : inv'[b][g].parsed = inv[b][g].parsed
        BY <4>1
      <4>. QED  BY <2>1, <3>0, <4>1, <4>2, CountedStays
    <3>6. CASE Publish(b)
      <4>1. DOMAIN searchNodes'[b] = {}
        BY <3>6, StateTypes DEF Publish, ResetBuffer
      <4>. QED  BY <4>1 DEF CountedAt
    <3>. QED  BY <1>4, <3>1, <3>2, <3>3, <3>4, <3>5, <3>6, BatchInverts
  <2>5. \A c \in Batches : CountedAt(c)'
    <3>1. ASSUME NEW c \in Batches, c # b  PROVE CountedAt(c)'
      <4>1. searchNodes'[c] = searchNodes[c] /\ inv'[c] = inv[c]
        BY <2>1, <3>1
      <4>2. CountedAt(c)
        BY <1>1
      <4>. QED  BY <2>1, <4>1, <4>2, CountedStays
    <3>. QED  BY <2>4, <3>1
  <2>. QED  BY <2>2, <2>3, <2>5
<1>5. ASSUME UNCHANGED <<docWordCount, nodeIDX, searchNodes>>,
             \A b \in Batches, f \in Fields : inv'[b][f].parsed = inv[b][f].parsed,
             UNCHANGED PublishedDocs
      PROVE  /\ \A d \in DocIDs : d >= nodeIDX' => docWordCount'[d] = 0
             /\ \A c \in Batches : CountedAt(c)'
             /\ \A d \in PublishedDocs' : CountedDoc(d)'
  <2>1. \A d \in PublishedDocs' : CountedDoc(d)'
    BY <1>1, <1>2, <1>3, <1>5
  <2>2. ASSUME NEW c \in Batches  PROVE CountedAt(c)'
    <3>1. CountedAt(c)
      BY <1>1
    <3>. QED  BY <1>5, <3>1, CountedStays
  <2>. QED  BY <1>1, <1>5, <2>1, <2>2
<1>6. ASSUME NEW b \in Batches, NEW f \in Fields, InvertStep(b, f)
      PROVE  /\ \A d \in DocIDs : d >= nodeIDX' => docWordCount'[d] = 0
             /\ \A c \in Batches : CountedAt(c)'
             /\ \A d \in PublishedDocs' : CountedDoc(d)'
  <2>1. /\ UNCHANGED <<nodeIDX, searchNodes, allSearchNodes>>
        /\ \A c \in Batches, g \in Fields : ~(c = b /\ g = f) => inv'[c][g] = inv[c][g]
    BY <1>6, InvertsAlone
  <2>2. UNCHANGED PublishedDocs
    BY <2>1 DEF PublishedDocs, Indices
  <2>3. CASE ParseNode(b, f)
    BY <1>1, <2>1, <2>2, <2>3, ParseCounts
  <2>4. CASE ~ ParseNode(b, f)
    <3>1. AllocBlock(b, f) \/ RegisterSegment(b, f) \/ WriteSegment(b, f)
      BY <1>0, <1>6, <2>4 DEF InvertStep, InvertCancelled
    <3>2. UNCHANGED docWordCount
      BY <3>1 DEF AllocBlock, RegisterSegment, WriteSegment, lockVars
    <3>3. inv'[b][f].parsed = inv[b][f].parsed
      BY <3>1, InvertsTo
    <3>4. \A c \in Batches, g \in Fields : inv'[c][g].parsed = inv[c][g].parsed
      BY <2>1, <3>3
    <3>. QED  BY <1>5, <2>1, <2>2, <3>2, <3>4
  <2>. QED  BY <2>3, <2>4
<1>7. CASE (\E k \in Kinds : CollectAll(k)) \/ MainStep \/ Cancel \/ UNCHANGED vars
  <2>1. UNCHANGED <<docWordCount, nodeIDX, searchNodes, allSearchNodes, inv>>
    BY <1>7 DEF CollectAll, MainStep, ReturnError, WriteRtree, MergeName, MergeAddress,
                MergeField, BuildNgram, SaveMeta, Cancel, vars, lockVars
  <2>2. UNCHANGED PublishedDocs
    BY <2>1 DEF PublishedDocs, Indices
  <2>. QED  BY <1>5, <2>1, <2>2
<1>. QED  BY <1>4, <1>6, <1>7 DEF Next, Returned

LEMMA CountedInit == Init => Counted
BY DEF Init, Counted, Indices

-----------------------------------------------------------------------------
(* The index                                                               *)

LEMMA DoneStep ==
  ASSUME IInv, Ended, Holding, Done, [Next]_vars  PROVE Done'
<1>1. CASE main \in {"collect", "failed"}
  <2>1. CASE WriteRtree /\ main' = "merge_name"
    <3>1. rtreeFile' = osmData /\ docsCount' = nodeIDX
          /\ UNCHANGED <<osmData, nodeIDX>>
      BY <2>1 DEF WriteRtree, MayFail, lockVars
    <3>. QED  BY <2>1, <3>1 DEF Done, Succeeded
  <2>2. CASE main' \in {"collect", "failed"}
    BY <2>2 DEF Done, Succeeded
  <2>3. ASSUME NEW b \in Batches, BatchStep(b)  PROVE UNCHANGED main
    BY <2>3, BatchAlone
  <2>4. ASSUME NEW b \in Batches, NEW f \in Fields, InvertStep(b, f)  PROVE UNCHANGED main
    BY <2>4, InvertsAlone
  <2>5. MainStep => main' = "failed" \/ (WriteRtree /\ main' = "merge_name")
    BY <1>1 DEF MainStep, ReturnError, WriteRtree, MayFail, MergeName, MergeAddress, MergeField,
                BuildNgram, SaveMeta
  <2>6. (\E k \in Kinds : CollectAll(k)) \/ Cancel \/ UNCHANGED vars => UNCHANGED main
    BY DEF CollectAll, Cancel, vars, mainVars
  <2>. QED  BY <1>1, <2>1, <2>2, <2>3, <2>4, <2>5, <2>6 DEF Next, Returned
<1>2. CASE main \notin {"collect", "failed"}
  <2>1. /\ MainStep \/ UNCHANGED vars
        /\ rtreeFile = osmData /\ docsCount = nodeIDX
    BY <1>2, Quiet DEF Done
  <2>2. /\ UNCHANGED <<files, osmData, nodeIDX, intermediateIndices, rtreeFile>>
        /\ docsCount' \in {docsCount, Len(allSearchNodes)}
    BY <1>2, <2>1 DEF MainStep, ReturnError, WriteRtree, MergeName, MergeAddress, MergeField,
                      BuildNgram, SaveMeta, vars, mainVars, lockVars, diskVars
  <2>3. Len(allSearchNodes) = nodeIDX
    BY <1>2, AllEnded, AllPublished
  <2>4. UNCHANGED Listed /\ \A f \in Fields : UNCHANGED Segments(f)
    BY <2>2 DEF Listed, Segments
  <2>5. main' \notin {"collect", "failed"} => rtreeFile' = osmData' /\ docsCount' = nodeIDX'
    BY <2>1, <2>2, <2>3
  <2>6. CASE MergeName
    <3>1. main' = "failed" \/ (main' = "merge_address" /\ IsMerged("name")')
      <4>1. CASE merged' = [merged EXCEPT !["name"] = UNION {files[s] : s \in Segments("name")}]
                 /\ main' = "merge_address" /\ Segments("name") \subseteq DOMAIN files
        BY <2>2, <2>4, <4>1 DEF IsMerged, Fields, IInv, TypeOK
      <4>. QED  BY <2>6, <4>1 DEF MergeName, MergeField
    <3>. QED  BY <2>5, <3>1 DEF Done, Succeeded
  <2>7. CASE MergeAddress
    <3>1. main = "merge_address" /\ IsMerged("name")
      BY <2>7 DEF MergeAddress, MergeField, Done
    <3>2. main' = "failed" \/ (main' = "ok" /\ IsMerged("name")' /\ IsMerged("address")')
      <4>1. CASE merged' = [merged EXCEPT !["address"] =
                              UNION {files[s] : s \in Segments("address")}]
                 /\ main' = "ok" /\ Segments("address") \subseteq DOMAIN files
        BY <2>2, <2>4, <3>1, <4>1 DEF IsMerged, Fields, IInv, TypeOK
      <4>. QED  BY <2>7, <4>1 DEF MergeAddress, MergeField
    <3>. QED  BY <2>5, <3>2 DEF Done, Succeeded
  <2>8. CASE BuildNgram \/ SaveMeta \/ UNCHANGED vars
    <3>1. UNCHANGED merged
      BY <2>8 DEF BuildNgram, SaveMeta, vars, diskVars
    <3>2. \A f \in Fields : IsMerged(f) => IsMerged(f)'
      BY <2>2, <2>4, <3>1 DEF IsMerged
    <3>3. \/ main' = "failed" \/ main' = main
          \/ main = "ok" /\ main' = "ngram"
          \/ main = "ngram" /\ main' = "saved"
      BY <2>8 DEF BuildNgram, SaveMeta, MayFail, vars, mainVars
    <3>. QED  BY <2>5, <3>2, <3>3 DEF Done, Succeeded, Fields
  <2>. QED  BY <1>2, <2>1, <2>6, <2>7, <2>8 DEF MainStep, ReturnError, WriteRtree
<1>. QED  BY <1>1, <1>2

LEMMA DoneInit == Init => Done
BY DEF Init, Done, Succeeded

Complete == IInv /\ Ended /\ Holding /\ Whole /\ Writing /\ Sound /\ Flushed /\ Counted /\ Done

LEMMA CompleteInit == Init => Complete
BY InitInv, EndedInit, HoldingInit, WholeInit, WritingInit, SoundInit, FlushedInit,
   CountedInit, DoneInit DEF Complete

LEMMA CompleteStep == Complete /\ [Next]_vars => Complete'
<1>. SUFFICES ASSUME Complete, [Next]_vars  PROVE Complete'
  OBVIOUS
<1>. USE DEF Complete
<1>1. IInv'
  BY StepInv
<1>2. Ended' /\ Holding' /\ Whole' /\ Writing' /\ Sound'
  BY EndedStep, HoldingStep, WholeStep, WritingStep, SoundStep
<1>3. Flushed' /\ Done'
  BY FlushedStep, DoneStep
<1>4. Counted'
  BY <1>1, CountedStep
<1>. QED  BY <1>1, <1>2, <1>3, <1>4

\* A document is in the merged index of the fields it has words in.
FoundIn(d, f) ==
  /\ d \in merged[f] => Words(d, f) > 0
  /\ Words(d, f) > 0 /\ <<f, d>> \notin lost => d \in merged[f]

LEMMA CompleteServes ==
  ASSUME Complete  PROVE IndexComplete
<1>. USE DEF Complete
<1>. SUFFICES ASSUME Succeeded, ~ cancelled
              PROVE  /\ docsCount = nodeIDX /\ rtreeFile = osmData
                     /\ \A d \in IDs :
                          /\ d \in docStore
                          /\ \A f \in Fields : FoundIn(d, f)
                          /\ docWordCount[d] = Words(d, "name") + Words(d, "address")
  BY DEF IndexComplete, FoundIn
<1>1. main \in {"ok", "ngram", "saved"}
  BY DEF Succeeded
<1>2. docsCount = nodeIDX /\ rtreeFile = osmData /\ \A f \in Fields : IsMerged(f)
  BY <1>1 DEF Done, Fields
<1>3. ASSUME NEW d \in IDs
      PROVE  /\ d \in docStore
             /\ \A f \in Fields : FoundIn(d, f)
             /\ docWordCount[d] = Words(d, "name") + Words(d, "address")
  <2>1. PICK i \in Indices : allSearchNodes[i] = d
    <3>1. \A b \in Batches : searchNodes[b] = <<>>
      BY <1>1, AllEnded
    <3>. QED  BY <3>1, AllPublished
  <2>2. d \in docStore
    BY <2>1 DEF Holding, Published
  <2>3. docWordCount[d] = Words(d, "name") + Words(d, "address")
    BY <2>1 DEF Counted
  <2>4. ASSUME NEW f \in Fields  PROVE FoundIn(d, f)
    <3>1. ASSUME d \in merged[f]  PROVE Words(d, f) > 0
      <4>1. PICK s \in Segments(f) : d \in files[s]
        BY <1>2, <3>1 DEF IsMerged
      <4>2. s \in DOMAIN files
        BY <1>2, <4>1 DEF IsMerged
      <4>. QED  BY <3>1, <4>1, <4>2 DEF Sound, Segments
    <3>2. ASSUME Words(d, f) > 0, <<f, d>> \notin lost  PROVE d \in merged[f]
      <4>1. InSegment(d, f)
        BY <2>1, <3>2 DEF Flushed, Written
      <4>2. d \in merged[f]
        BY <1>2, <4>1 DEF IsMerged, InSegment, Segments
      <4>. QED  BY <3>2, <4>2
    <3>. QED  BY <3>1, <3>2 DEF FoundIn
  <2>. QED  BY <2>2, <2>3, <2>4
<1>. QED  BY <1>2, <1>3

\* When the indexer succeeds without having been cancelled, every document it has
\* numbered is in the store, in the R-tree data and, exactly for the fields it has
\* words in, in the merged indexes, and its words were counted once
\* (SpimiBatchIndex and the flushes of processOSMWaysBatch, SpimiInvert,
\* SpimiParseOSMNode), for any input, batches and faults.  Only documents of
\* posting lists that could not be written, an error SpimiInvert drops, may be
\* missing from the merged index of that field.
THEOREM IndexIsComplete == Spec => []IndexComplete
<1>1. Complete => IndexComplete
  BY CompleteServes
<1>. QED  BY <1>1, CompleteInit, CompleteStep, PTL DEF Spec

-----------------------------------------------------------------------------
(* The pipeline implements IndexBuild                                      *)

Assigned == [i \in DOMAIN osmData |-> osmData[i].obj]
Outcome  == IF main \in {"collect", "merge_name", "merge_address"} THEN "running"
            ELSE IF main = "failed" THEN "failed" ELSE "ready"
Served   == IF Succeeded THEN Searchable ELSE {}
Damaged  == {x[2] : x \in lost}

\* All that was numbered and written can be searched, and nothing else.
LEMMA ServesWritten ==
  ASSUME Complete, Succeeded, ~ cancelled
  PROVE  \E missing \in SUBSET Damaged : Searchable = (0..(Len(Assigned) - 1)) \ missing
<1>1. /\ rtreeFile = osmData
      /\ \A d \in IDs : d \in docStore /\ \A f \in Fields : FoundIn(d, f)
  BY CompleteServes DEF IndexComplete, FoundIn
<1>2. /\ osmData \in Seq(Doc) /\ nodeIDX = Len(osmData) /\ nodeIDX \in Nat
      /\ \A i \in DOMAIN osmData : osmData[i].ID = i - 1
  BY DEF Complete, IInv, TypeOK, Doc, Numbering, DocIDsDense
<1>3. Len(Assigned) = nodeIDX
  BY <1>2 DEF Assigned
<1>4. ASSUME NEW d \in Searchable  PROVE d \in IDs
  <2>1. PICK i \in DOMAIN osmData : osmData[i].ID = d
    BY <1>1 DEF Searchable
  <2>2. i \in 1..nodeIDX /\ d = i - 1
    BY <1>2, <2>1
  <2>. QED  BY <1>2, <2>2 DEF IDs
<1>5. ASSUME NEW d \in IDs, d \notin Damaged  PROVE d \in Searchable
  <2>1. d + 1 \in DOMAIN osmData /\ d \in Nat
    BY <1>2 DEF IDs
  <2>2. osmData[d + 1].ID = d
    <3>1. osmData[d + 1].ID = (d + 1) - 1
      BY <1>2, <2>1
    <3>. QED  BY <2>1, <3>1
  <2>3. \A f \in Fields : <<f, d>> \notin lost
    BY <1>5 DEF Damaged
  <2>4. \A f \in Fields : Words(d, f) > 0 => d \in merged[f]
    BY <1>1, <1>5, <2>3 DEF FoundIn
  <2>. QED  BY <1>1, <1>5, <2>1, <2>2, <2>4 DEF Searchable
<1>6. PICK missing : missing = IDs \ Searchable
  OBVIOUS
<1>7. missing \in SUBSET Damaged /\ Searchable = IDs \ missing
  BY <1>4, <1>5, <1>6
<1>. QED  BY <1>3, <1>7 DEF IDs

LEMMA ServesAlways ==
  Complete /\ Succeeded /\ ~ cancelled =>
    \E missing \in SUBSET Damaged : Searchable = (0..(Len(Assigned) - 1)) \ missing
BY ServesWritten

LEMMA ServesNext ==
  Complete' /\ Succeeded' /\ (~ cancelled)' =>
    (\E missing \in SUBSET Damaged : Searchable = (0..(Len(Assigned) - 1)) \ missing)'
BY ServesAlways, PTL

LEMMA BuildInit == Init => Build!Init
BY DEF Init, Build!Init, Succeeded

\* Giving out an ID assigns the object.
LEMMA AddAssigns ==
  ASSUME IInv, Ended, IInv', NEW b \in Batches, AddObject(b)
  PROVE  Build!Next
<1>1. /\ pc[b] = "add" /\ pos[b] <= Last(b) /\ Current(b) \in Objects
      /\ UNCHANGED main /\ main \in {"collect", "failed"}
  <2>1. pc[b] = "add" /\ UNCHANGED main
    BY DEF AddObject, mainVars
  <2>2. pos[b] <= Last(b)
    BY <2>1 DEF IInv, Numbering, PosInBatch
  <2>3. Current(b) \in Objects
    BY <2>2, CurrentType DEF IInv, Numbering
  <2>. QED  BY <2>1, <2>2, <2>3, AllEnded
<1>2. PICK o \in Objects : o = Current(b)
  BY <1>1
<1>3. osmData \in Seq(Doc) /\ nodeIDX \in Nat
  BY DEF IInv, TypeOK, Doc
<1>4. PICK e \in Doc : osmData' = Append(osmData, e) /\ e.obj = o
  <2>1. [ID |-> nodeIDX, obj |-> o] \in Doc
    BY <1>3 DEF Doc
  <2>2. osmData' = Append(osmData, [ID |-> nodeIDX, obj |-> o])
    BY <1>2 DEF AddObject
  <2>. QED  BY <2>1, <2>2
<1>5. Assigned' = Append(Assigned, o)
  <2>1. Assigned \in Seq(Objects)
    <3>1. \A i \in DOMAIN osmData : osmData[i].obj \in Objects
      <4>1. \A i \in DOMAIN osmData : osmData[i] \in Doc
        BY <1>3
      <4>. QED  BY <4>1 DEF Doc
    <3>. QED  BY <1>3, <3>1 DEF Assigned
  <2>. QED  BY <1>3, <1>4, <2>1 DEF Assigned
<1>6. \A i \in DOMAIN Assigned : Assigned[i] # o
  <2>. SUFFICES ASSUME NEW i \in DOMAIN osmData, osmData[i].obj = o  PROVE FALSE
    BY DEF Assigned
  <2>1. InBatch(b, o)
    BY <1>1, <1>2, BatchType DEF Current, InBatch, IInv, Numbering, PosInBatch
  <2>2. o.at < pos[b] /\ o.at = pos[b]
    BY <1>2, <2>1 DEF Current, IInv, Numbering, Passed
  <2>. QED  BY <2>2 DEF IInv, TypeOK
<1>7. /\ Outcome # "ready" /\ Outcome' = Outcome
      /\ Served = {} /\ Served' = {}
      /\ UNCHANGED Damaged
  BY <1>1 DEF Outcome, Served, Succeeded, AddObject, diskVars, Damaged
<1>8. Build!Assign(o)
  BY <1>5, <1>6, <1>7 DEF Build!Assign, Assigned, Outcome, Served, Damaged
<1>. QED  BY <1>8 DEF Build!Next

\* A segment that is not written in full damages its documents.
LEMMA WriteDamages ==
  ASSUME IInv, Ended, NEW b \in Batches, NEW f \in Fields, WriteSegment(b, f)
  PROVE  Build!Next \/ UNCHANGED Build!bvars
<1>1. inv[b][f].pc = "write" /\ UNCHANGED <<main, osmData>>
  BY DEF WriteSegment, Inverting, lockVars, mainVars
<1>2. main \in {"collect", "failed"}
  BY <1>1, AllEnded
<1>3. /\ Outcome # "ready" /\ Outcome' = Outcome /\ Served = {} /\ Served' = {}
      /\ UNCHANGED Assigned
  BY <1>1, <1>2 DEF Outcome, Served, Succeeded, Assigned
<1>4. CASE UNCHANGED lost
  BY <1>3, <1>4 DEF Build!bvars, Assigned, Outcome, Served
<1>5. ASSUME NEW dropped \in SUBSET Tokenized(b, f), lost' = lost \cup ({f} \X dropped)
      PROVE  Build!Next
  <2>1. Damaged' = Damaged \cup dropped
    <3>1. \A x \in {f} \X dropped : x[2] \in dropped
      OBVIOUS
    <3>2. \A d \in dropped : <<f, d>> \in {f} \X dropped /\ <<f, d>>[2] = d
      OBVIOUS
    <3>3. PICK new : new = {f} \X dropped
      OBVIOUS
    <3>4. \A d : d \in {x[2] : x \in new} <=> d \in dropped
      BY <3>1, <3>2, <3>3
    <3>5. lost' = lost \cup new
      BY <1>5, <3>3
    <3>. QED  BY <3>4, <3>5 DEF Damaged
  <2>2. dropped \subseteq IDs
    <3>. SUFFICES ASSUME NEW d \in Tokenized(b, f)  PROVE d \in IDs
      OBVIOUS
    <3>1. PICK i \in 1..inv[b][f].parsed : d = searchNodes[b][i]
      BY DEF Tokenized
    <3>2. /\ inv[b][f].parsed \in Nat /\ inv[b][f].parsed <= Len(searchNodes[b])
          /\ searchNodes[b] \in Seq(Nat)
      BY StateTypes DEF IInv, Flushing
    <3>3. i \in DOMAIN searchNodes[b]
      BY <3>1, <3>2
    <3>. QED  BY <3>1, <3>3, HoldingTypes
  <2>3. IDs = 0..(Len(Assigned) - 1)
    <3>1. osmData \in Seq(Doc) /\ nodeIDX = Len(osmData)
      BY DEF IInv, TypeOK, Doc, Numbering, DocIDsDense
    <3>2. Len(Assigned) = nodeIDX
      BY <3>1 DEF Assigned
    <3>. QED  BY <3>2 DEF IDs
  <2>4. Build!Damage(dropped)
    BY <1>3, <2>1 DEF Build!Damage, Assigned, Outcome, Served, Damaged
  <2>5. dropped \in SUBSET Build!IDsGiven
    BY <2>2, <2>3 DEF Build!IDsGiven, Assigned
  <2>. QED  BY <2>4, <2>5 DEF Build!Next
<1>. QED  BY <1>4, <1>5 DEF WriteSegment

LEMMA MainOnly ==
  ASSUME IInv, [Next]_vars, main' # main  PROVE MainStep
<1>1. ASSUME NEW b \in Batches, BatchStep(b)  PROVE UNCHANGED main
  BY <1>1, BatchAlone
<1>2. ASSUME NEW b \in Batches, NEW f \in Fields, InvertStep(b, f)  PROVE UNCHANGED main
  BY <1>2, InvertsAlone
<1>3. (\E k \in Kinds : CollectAll(k)) \/ Cancel \/ UNCHANGED vars => UNCHANGED main
  BY DEF CollectAll, Cancel, vars, mainVars
<1>. QED  BY <1>1, <1>2, <1>3 DEF Next, Returned

\* The index is ready when SpimiBatchIndex has succeeded.
LEMMA OutcomeSucceeds ==
  ASSUME IInv  PROVE Succeeded <=> Outcome = "ready"
BY DEF IInv, TypeOK, Succeeded, Outcome

LEMMA OutcomeSucceedsNext ==
  ASSUME IInv'  PROVE Succeeded' <=> Outcome' = "ready"
BY DEF IInv, TypeOK, Succeeded, Outcome

\* Every other step is a step of main: a failure, the end of the merge, or one
\* that nobody sees.
LEMMA MainBuilds ==
  ASSUME Complete, Complete', ~ cancelled, ~ cancelled', [Next]_vars,
         UNCHANGED <<osmData, lost>>
  PROVE  [Build!Next]_(Build!bvars)
<1>0. IInv /\ Ended /\ IInv'
  BY DEF Complete
<1>1. UNCHANGED <<Assigned, Damaged>>
  BY DEF Assigned, Damaged
<1>2. Succeeded /\ Succeeded' => UNCHANGED Served
  <2>1. ASSUME Succeeded, Succeeded'
        PROVE  UNCHANGED Served
    <3>1. /\ MainStep \/ UNCHANGED vars
          /\ UNCHANGED <<docStore, osmData>>
      BY <1>0, <2>1, Quiet DEF Succeeded, lockVars
    <3>2. UNCHANGED <<rtreeFile, merged>>
      BY <2>1, <3>1 DEF Succeeded, MainStep, ReturnError, WriteRtree, MergeName, MergeAddress,
         MergeField, BuildNgram, SaveMeta, vars, diskVars
    <3>3. UNCHANGED Searchable
      BY <3>1, <3>2 DEF Searchable, Words
    <3>. QED  BY <2>1, <3>3 DEF Served
  <2>. QED  BY <2>1
<1>3. CASE Outcome' = Outcome
  <2>1. Succeeded' <=> Succeeded
    BY <1>0, <1>3, OutcomeSucceeds, OutcomeSucceedsNext
  <2>2. UNCHANGED Served
    BY <1>2, <2>1 DEF Served
  <2>. QED  BY <1>1, <1>3, <2>2 DEF Build!bvars, Assigned, Outcome, Served, Damaged
<1>4. CASE Outcome' # Outcome
  <2>1. MainStep
    BY <1>0, <1>4, MainOnly DEF Outcome
  <2>2. CASE main' = "failed"
    <3>1. Outcome # "failed" /\ Outcome' = "failed" /\ Served' = {}
      BY <1>4, <2>2 DEF Outcome, Served, Succeeded
    <3>2. Build!Fail
      BY <1>1, <3>1 DEF Build!Fail, Assigned, Outcome, Served, Damaged
    <3>. QED  BY <3>2 DEF Build!Next
  <2>3. CASE main' # "failed"
    <3>1. main = "merge_address" /\ main' = "ok"
      BY <1>4, <2>1, <2>3 DEF Outcome, MainStep, ReturnError, WriteRtree, MayFail, MergeName,
                   MergeAddress, MergeField, BuildNgram, SaveMeta
    <3>2. Outcome = "running" /\ Outcome' = "ready" /\ Succeeded'
      BY <3>1 DEF Outcome, Succeeded
    <3>3. (\E missing \in SUBSET Damaged : Searchable = (0..(Len(Assigned) - 1)) \ missing)'
      BY <3>2, ServesNext
    <3>4. \E missing \in SUBSET Damaged : Served' = (0..(Len(Assigned) - 1)) \ missing
      BY <1>1, <3>2, <3>3 DEF Served
    <3>5. Build!Publish
      BY <1>1, <3>2, <3>4
      DEF Build!Publish, Build!IDsGiven, Assigned, Outcome, Served, Damaged
    <3>. QED  BY <3>5 DEF Build!Next
  <2>. QED  BY <2>2, <2>3
<1>. QED  BY <1>3, <1>4

\* The pipeline of goroutines, run without a cancellation, implements IndexBuild:
\* IDs are given out one after the other, and then the documents become searchable
\* in one step, all but those of posting lists whose write failed, or the run fails
\* and none does; for every set of faults.
THEOREM ImplementsIndexBuild == Spec /\ [](~ cancelled) => ImplementsBuild
<1>1. Init => Build!Init
  BY BuildInit
<1>2. /\ Complete /\ Complete' /\ ~ cancelled /\ (~ cancelled)' /\ [Next]_vars
      => [Build!Next]_(Build!bvars)
  <2>. SUFFICES ASSUME Complete, Complete', ~ cancelled, ~ cancelled', [Next]_vars
                PROVE  [Build!Next]_(Build!bvars)
    OBVIOUS
  <2>1. IInv /\ Ended /\ IInv'
    BY DEF Complete
  <2>2. UNCHANGED osmData \/ \E b \in Batches : AddObject(b)
    <3>1. ASSUME NEW b \in Batches, BatchStep(b)  PROVE UNCHANGED osmData \/ AddObject(b)
      BY <3>1 DEF BatchStep, SeeCancel, Skip, CheckDuplicate, EndBatch, ReceiveInverted,
                  SaveDocs, Publish, CollectError, lockVars
    <3>2. ASSUME NEW b \in Batches, NEW f \in Fields, InvertStep(b, f)
          PROVE  UNCHANGED osmData
      BY <2>1, <3>2, InvertsAlone
    <3>3. (\E k \in Kinds : CollectAll(k)) \/ MainStep \/ Cancel \/ UNCHANGED vars
          => UNCHANGED osmData
      BY DEF CollectAll, MainStep, ReturnError, WriteRtree, MergeName, MergeAddress,
             MergeField, BuildNgram, SaveMeta, Cancel, vars, lockVars
    <3>. QED  BY <3>1, <3>2, <3>3 DEF Next, Returned
  <2>3. UNCHANGED lost \/ \E b \in Batches, f \in Fields : WriteSegment(b, f)
    BY <2>1, OnlyWriteLoses
  <2>. QED  BY <2>1, <2>2, <2>3, AddAssigns, WriteDamages, MainBuilds
<1>. QED  BY <1>1, <1>2, CompleteInit, CompleteStep, PTL DEF Spec, ImplementsBuild, Build!Spec
=============================================================================
