----------------------------- MODULE SpimiBatch -----------------------------
(***************************************************************************)
(* The concurrent indexing pipeline of pkg/index/indexer.go                *)
(* (DynamicIndex.SpimiBatchIndex) and what cmd/indexing/main.go does with  *)
(* its result.                                                             *)
(*                                                                         *)
(* The OSM ways and nodes are cut into batches of BatchSize objects and    *)
(* one goroutine is started per batch.  A batch goroutine drops unnamed    *)
(* objects and duplicates, gives every other object the next document ID   *)
(* and, when its buffer is full or its batch is over, flushes the buffer:  *)
(* two goroutines invert it (one per field), each into a segment file of   *)
(* its own, the documents are saved and published.  A collector per kind   *)
(* of object waits for its batches; the main goroutine waits for both      *)
(* collectors, writes the R-tree data and merges the segments.             *)
(*                                                                         *)
(* Every critical section of batchingLock is one action.  What a segment   *)
(* holds is abstracted to the documents that have all their postings in    *)
(* it: the terms are the business of module SpimiInvert.                   *)
(***************************************************************************)
EXTENDS Integers, Sequences, FiniteSets

CONSTANTS
  Ways,       \* IndexedData.Ways, a sequence of OSM objects
  Nodes,      \* IndexedData.Nodes
  BatchSize,  \* BATCH_SIZE, pkg/index/constant.go (100000 in the code)
  Faults,     \* the calls that may return an error in this instance
  MayCancel   \* whether the caller's context may be cancelled

Fields == {"name", "address"}
Kinds  == {"ways", "nodes"}

\* A box is what geo.NewBoundingBox keeps of a sequence of points.
Box == [latLo: Int, latHi: Int, lonLo: Int, lonHi: Int]
IsPoint(box) == box.latLo = box.latHi /\ box.lonLo = box.lonHi

\* words[f] is the number of tokens of the field: 0 when it is empty.
OSMObject == [name: STRING, highway: BOOLEAN, box: Box, words: [Fields -> Nat]]

ASSUME SpimiBatchAssumption ==
  /\ Ways  \in Seq(OSMObject)
  /\ Nodes \in Seq(OSMObject)
  /\ \A i \in DOMAIN Nodes : IsPoint(Nodes[i].box)
  /\ BatchSize \in Nat \ {0}
  /\ Faults \subseteq {"invert", "append", "save", "rtree", "merge", "meta"}
  /\ MayCancel \in BOOLEAN

Input(kind) == IF kind = "ways" THEN Ways ELSE Nodes

\* The slices [start:end] that batchingOSMWays and batchingOSMNodes cut.
Starts(kind) == {i \in 1..Len(Input(kind)) : (i - 1) % BatchSize = 0}
Batches == UNION {[kind: {k}, start: Starts(k)] : k \in Kinds}
Last(b) == IF b.start + BatchSize - 1 > Len(Input(b.kind))
           THEN Len(Input(b.kind))
           ELSE b.start + BatchSize - 1

\* An object is referred to by its place in the input.
Objects == UNION {[kind: {k}, at: 1..Len(Input(k))] : k \in Kinds}
Obj(o)  == Input(o.kind)[o.at]

\* No ID outside this bound is ever assigned (DocIDsDense).
DocIDs == 0..(Len(Ways) + Len(Nodes) - 1)

VARIABLES
  \* shared, under batchingLock
  nodeIDX,              \* the next document ID
  block,                \* the next segment number
  nodeBoundingBox,      \* name -> box of the last way seen with that name
  osmData,              \* what goes into the R-tree file, in ID order
  allSearchNodes,       \* the IDs of the documents SpimiBatchIndex returns
  docWordCount,         \* number of tokens of a document, both fields
  intermediateIndices,  \* the segments to merge
  \* on disk
  files,                \* segment -> the documents with all their postings in it
  lost,                 \* history: <<field, ID>> whose postings failed to be written
  docStore,             \* the IDs saved by SaveDocs
  rtreeFile,            \* what SerializeRtreeData wrote
  merged,               \* field -> the documents in the merged index
  meta,                 \* the number of documents SaveMeta wrote
  \* goroutines
  pc, pos, searchNodes, \* of the batch goroutines
  inv,                  \* the goroutines inverting a batch's buffer
  coll,                 \* the collectors (batchingOSMWays, batchingOSMNodes)
  main,                 \* SpimiBatchIndex and its caller
  docsCount,
  cancelled             \* ctx is done

lockVars == <<nodeIDX, block, nodeBoundingBox, osmData, allSearchNodes,
              docWordCount, intermediateIndices>>
diskVars == <<files, lost, docStore, rtreeFile, merged, meta>>
mainVars == <<coll, main, docsCount, cancelled>>
vars == <<lockVars, diskVars, mainVars, pc, pos, searchNodes, inv>>

NotStarted == [pc |-> "idle", parsed |-> 0, block |-> 0, err |-> FALSE]
Started    == [NotStarted EXCEPT !.pc = "parse"]

Init ==
  /\ nodeIDX = 0
  /\ block = 0
  /\ nodeBoundingBox = [n \in {} |-> {}]
  /\ osmData = <<>>
  /\ allSearchNodes = <<>>
  /\ docWordCount = [d \in DocIDs |-> 0]
  /\ intermediateIndices = <<>>
  /\ files = [s \in {} |-> {}]
  /\ lost = {}
  /\ docStore = {}
  /\ rtreeFile = <<>>
  /\ merged = [f \in Fields |-> {}]
  /\ meta = -1
  /\ pc = [b \in Batches |-> "scan"]
  /\ pos = [b \in Batches |-> b.start]
  /\ searchNodes = [b \in Batches |-> <<>>]
  /\ inv = [b \in Batches |-> [f \in Fields |-> NotStarted]]
  /\ coll = [k \in Kinds |-> "range"]
  /\ main = "collect"
  /\ docsCount = 0
  /\ cancelled = FALSE

-----------------------------------------------------------------------------
(* Duplicates                                                              *)

Contains(bb, lat, lon) ==
  /\ bb.latLo <= lat /\ lat <= bb.latHi
  /\ bb.lonLo <= lon /\ lon <= bb.lonHi

\* prevBB.PointsContains(lats, lons): lats and lons are sorted separately
\* first, and Contains looks at each alone, so only the extremes count.
PointsContains(bb, box) ==
  /\ Contains(bb, box.latLo, box.lonLo)
  /\ Contains(bb, box.latHi, box.lonHi)

\* currWayBB.PointsContains(prevBB.GetMin(), prevBB.GetMax()): the callee
\* takes latitudes and longitudes, the caller gives it two (lat, lon)
\* corners, so the points are (min lat, max lat) and (min lon, max lon).
InverseContain(currBB, prevBB) ==
  /\ Contains(currBB, prevBB.latLo, prevBB.latHi)
  /\ Contains(currBB, prevBB.lonLo, prevBB.lonHi)

Known(o) == Obj(o).name \in DOMAIN nodeBoundingBox
PrevBB(o) == nodeBoundingBox[Obj(o).name]

\* Mutant: the name alone makes a duplicate.
SameName(o) == Obj(o).name # "" /\ Known(o)

IsWayDuplicate(o) ==
  /\ Obj(o).name # ""
  /\ Known(o)
  /\ \/ PointsContains(PrevBB(o), Obj(o).box)
     \/ InverseContain(Obj(o).box, PrevBB(o))

IsNodeDuplicate(o) ==
  /\ Known(o)
  /\ Contains(PrevBB(o), Obj(o).box.latLo, Obj(o).box.lonLo)

IsDuplicate(o) == IF o.kind = "ways" THEN IsWayDuplicate(o) ELSE IsNodeDuplicate(o)

\* Ways need a name or a highway tag, nodes a name.
IsSkipped(o) == Obj(o).name = "" /\ (o.kind = "ways" => ~Obj(o).highway)

SetBox(o) == [n \in DOMAIN nodeBoundingBox \cup {Obj(o).name} |->
                IF n = Obj(o).name THEN Obj(o).box ELSE nodeBoundingBox[n]]

\* The duplicate check of a way also replaces the box it did not fit in.
BoxAfterCheck(o) ==
  IF /\ o.kind = "ways" /\ Obj(o).name # "" /\ Known(o)
     /\ ~PointsContains(PrevBB(o), Obj(o).box)
  THEN SetBox(o)
  ELSE nodeBoundingBox

-----------------------------------------------------------------------------
(* The batch goroutines: processOSMWaysBatch and processOSMNodesBatch      *)

Current(b) == [kind |-> b.kind, at |-> pos[b]]
InLoop(b)  == pc[b] = "scan" /\ pos[b] <= Last(b)

SeeCancel(b) ==
  /\ InLoop(b)
  /\ cancelled
  /\ pc' = [pc EXCEPT ![b] = "fail"]
  /\ UNCHANGED <<lockVars, diskVars, mainVars, pos, searchNodes, inv>>

Skip(b) ==
  /\ InLoop(b)
  /\ ~cancelled
  /\ IsSkipped(Current(b))
  /\ pos' = [pos EXCEPT ![b] = @ + 1]
  /\ UNCHANGED <<lockVars, diskVars, mainVars, pc, searchNodes, inv>>

\* The duplicate check takes the lock and releases it again: the object is
\* added, if it is, in a later critical section.
CheckDuplicate(b) ==
  /\ InLoop(b)
  /\ ~cancelled
  /\ ~IsSkipped(Current(b))
  /\ nodeBoundingBox' = BoxAfterCheck(Current(b))
  /\ IF IsDuplicate(Current(b))
     THEN pos' = [pos EXCEPT ![b] = @ + 1] /\ UNCHANGED pc
     ELSE pc' = [pc EXCEPT ![b] = "add"] /\ UNCHANGED pos
  /\ UNCHANGED <<nodeIDX, block, osmData, allSearchNodes, docWordCount,
                 intermediateIndices, diskVars, mainVars, searchNodes, inv>>

StartInverting(b) == inv' = [inv EXCEPT ![b] = [f \in Fields |-> Started]]

\* Mutant: nodeIDX++ outside the lock loses an increment.
TakeIDUnlocked == nodeIDX' \in {nodeIDX, nodeIDX + 1}

TakeID == nodeIDX' = nodeIDX + 1

AddObject(b) ==
  /\ pc[b] = "add"
  /\ nodeBoundingBox' = IF b.kind = "ways" THEN SetBox(Current(b)) ELSE nodeBoundingBox
  /\ osmData' = Append(osmData, [ID |-> nodeIDX, obj |-> Current(b)])
  /\ searchNodes' = [searchNodes EXCEPT ![b] = Append(@, nodeIDX)]
  /\ TakeID
  /\ pos' = [pos EXCEPT ![b] = @ + 1]
  /\ IF Len(searchNodes[b]) + 1 = BatchSize
     THEN pc' = [pc EXCEPT ![b] = "flush"] /\ StartInverting(b)
     ELSE pc' = [pc EXCEPT ![b] = "scan"] /\ UNCHANGED inv
  /\ UNCHANGED <<block, allSearchNodes, docWordCount, intermediateIndices,
                 diskVars, mainVars>>

\* The loop is over: flush what is left in the buffer, if anything.
EndBatch(b) ==
  /\ pc[b] = "scan"
  /\ pos[b] > Last(b)
  /\ IF searchNodes[b] = <<>>
     THEN pc' = [pc EXCEPT ![b] = "done"] /\ UNCHANGED inv
     ELSE pc' = [pc EXCEPT ![b] = "flush"] /\ StartInverting(b)
  /\ UNCHANGED <<lockVars, diskVars, mainVars, pos, searchNodes>>

\* Mutants: save after the first result; wait for two results without an error.
AfterOneResult(b, f) == IF inv[b][f].err THEN "fail" ELSE "save"
AfterTwoSuccesses(b, f) ==
  IF \A g \in Fields : g # f => inv[b][g].pc = "done" /\ ~inv[b][f].err
  THEN "save" ELSE "flush"

\* Where the batch goroutine is after a receive from the unbuffered errChan: it
\* returns on the first error and never receives the second result; after two
\* results without an error it saves the documents.
AfterResult(b, f) ==
  IF inv[b][f].err THEN "fail"
  ELSE IF \A g \in Fields : g # f => inv[b][g].pc = "done" THEN "save"
  ELSE "flush"

\* The sender goes on as well.
ReceiveInverted(b, f) ==
  /\ pc[b] = "flush"
  /\ inv[b][f].pc = "send"
  /\ inv' = [inv EXCEPT ![b][f].pc = "done"]
  /\ pc' = [pc EXCEPT ![b] = AfterResult(b, f)]
  /\ UNCHANGED <<lockVars, diskVars, mainVars, pos, searchNodes>>

Saved(b) == {searchNodes[b][i] : i \in DOMAIN searchNodes[b]}

SaveDocs(b) ==
  /\ pc[b] = "save"
  /\ \/ /\ docStore' = docStore \cup Saved(b)
        /\ pc' = [pc EXCEPT ![b] = "publish"]
     \/ /\ "save" \in Faults
        /\ pc' = [pc EXCEPT ![b] = "fail"]
        /\ UNCHANGED docStore
  /\ UNCHANGED <<lockVars, files, lost, rtreeFile, merged, meta, mainVars, pos,
                 searchNodes, inv>>

\* Mutant: the buffer is not emptied after a flush.
KeepBuffer(b) == UNCHANGED searchNodes

ResetBuffer(b) == searchNodes' = [searchNodes EXCEPT ![b] = <<>>]

Publish(b) ==
  /\ pc[b] = "publish"
  /\ allSearchNodes' = allSearchNodes \o searchNodes[b]
  /\ ResetBuffer(b)
  /\ pc' = [pc EXCEPT ![b] = "scan"]
  /\ inv' = [inv EXCEPT ![b] = [f \in Fields |-> NotStarted]]
  /\ UNCHANGED <<nodeIDX, block, nodeBoundingBox, osmData, docWordCount,
                 intermediateIndices, diskVars, mainVars, pos>>

-----------------------------------------------------------------------------
(* SpimiInvert, one goroutine per field of a flush.  The postings of a     *)
(* flush stay below maxDynamicPostingListSize (1e7 for at most 1e5         *)
(* documents), so each goroutine writes one segment.                       *)

Inverting(b, f, where) == inv[b][f].pc = where
Words(d, f) == Obj(osmData[d + 1].obj).words[f]

\* SpimiParseOSMNode counts the tokens of one document under the lock.
ParseNode(b, f) ==
  /\ Inverting(b, f, "parse")
  /\ inv[b][f].parsed < Len(searchNodes[b])
  /\ ~cancelled
  /\ LET d == searchNodes[b][inv[b][f].parsed + 1] IN
       docWordCount' = [docWordCount EXCEPT ![d] = @ + Words(d, f)]
  /\ inv' = [inv EXCEPT ![b][f].parsed = @ + 1]
  /\ UNCHANGED <<nodeIDX, block, nodeBoundingBox, osmData, allSearchNodes,
                 intermediateIndices, diskVars, mainVars, pc, pos, searchNodes>>

\* The documents whose tokens the goroutine holds.
Tokenized(b, f) ==
  {d \in {searchNodes[b][i] : i \in 1..inv[b][f].parsed} : Words(d, f) > 0}

\* A cancelled context ends the parse early, the tokens so far returned as if
\* they were all; the loop over the tokens then reports the cancellation, when
\* there is a token to loop over.
Parsed(b, f) == inv[b][f].parsed = Len(searchNodes[b]) \/ cancelled

InvertCancelled(b, f) ==
  /\ Inverting(b, f, "parse")
  /\ cancelled
  /\ Tokenized(b, f) # {}
  /\ inv' = [inv EXCEPT ![b][f].pc = "send", ![b][f].err = TRUE]
  /\ UNCHANGED <<lockVars, diskVars, mainVars, pc, pos, searchNodes>>

\* Mutant: *block += 1 outside the lock loses an increment.
TakeBlockUnlocked == block' \in {block, block + 1}

TakeBlock == block' = block + 1

AllocBlock(b, f) ==
  /\ Inverting(b, f, "parse")
  /\ Parsed(b, f)
  /\ ~(cancelled /\ Tokenized(b, f) # {})
  /\ inv' = [inv EXCEPT ![b][f].pc = "register", ![b][f].block = block]
  /\ TakeBlock
  /\ UNCHANGED <<nodeIDX, nodeBoundingBox, osmData, allSearchNodes, docWordCount,
                 intermediateIndices, diskVars, mainVars, pc, pos, searchNodes>>

InvertFails(b, f) ==
  /\ "invert" \in Faults
  /\ inv' = [inv EXCEPT ![b][f].pc = "send", ![b][f].err = TRUE]

\* Mutant: the segment is named after the kind of object.
SegmentOfKind(b, f) == [field |-> b.kind, block |-> inv[b][f].block]

Segment(b, f) == [field |-> f, block |-> inv[b][f].block]

\* OpenWriter, then the segment's name is added to the list.
RegisterSegment(b, f) ==
  /\ Inverting(b, f, "register")
  /\ \/ /\ inv' = [inv EXCEPT ![b][f].pc = "write"]
        /\ intermediateIndices' = Append(intermediateIndices, Segment(b, f))
     \/ InvertFails(b, f) /\ UNCHANGED intermediateIndices
  /\ UNCHANGED <<nodeIDX, block, nodeBoundingBox, osmData, allSearchNodes,
                 docWordCount, diskVars, mainVars, pc, pos, searchNodes>>

\* What is in the files when some postings of the documents of dropped are not.
SegmentWithout(b, f, dropped) ==
  [s \in DOMAIN files \cup {Segment(b, f)} |->
     IF s = Segment(b, f) THEN Tokenized(b, f) \ dropped ELSE files[s]]

\* The postings and the metadata of the segment go to disk.  An error of
\* AppendPostingList leaves a posting list, and its term, out and is dropped; one
\* of Close is returned.
WriteSegment(b, f) ==
  /\ Inverting(b, f, "write")
  /\ \/ /\ \E dropped \in SUBSET Tokenized(b, f) :
             /\ dropped # {} => "append" \in Faults
             /\ files' = SegmentWithout(b, f, dropped)
             /\ lost' = lost \cup ({f} \X dropped)
        /\ inv' = [inv EXCEPT ![b][f].pc = "send"]
     \/ InvertFails(b, f) /\ UNCHANGED <<files, lost>>
  /\ UNCHANGED <<lockVars, docStore, rtreeFile, merged, meta, mainVars, pc, pos,
                 searchNodes>>

-----------------------------------------------------------------------------
(* The collectors, SpimiBatchIndex after the batches, and main.go          *)

\* Mutant: wg.Add(1) once, before the loop over the batches.
FirstBatchOf(k) == {b \in Batches : b.kind = k /\ b.start = 1}

BatchesOf(k) == {b \in Batches : b.kind = k}

\* A send of an error on the unbuffered result channel and its receive.  The
\* collector returns at once: nobody receives on the channel any more.
CollectError(b) ==
  /\ pc[b] = "fail"
  /\ coll[b.kind] = "range"
  /\ pc' = [pc EXCEPT ![b] = "done"]
  /\ coll' = [coll EXCEPT ![b.kind] = "err"]
  /\ UNCHANGED <<lockVars, diskVars, main, docsCount, cancelled, pos, searchNodes, inv>>

\* wg.Wait returns and the channel is closed: the range over it ends.
CollectAll(k) ==
  /\ coll[k] = "range"
  /\ \A b \in BatchesOf(k) : pc[b] = "done"
  /\ coll' = [coll EXCEPT ![k] = "nil"]
  /\ UNCHANGED <<lockVars, diskVars, main, docsCount, cancelled, pc, pos, searchNodes, inv>>

ReturnError ==
  /\ main = "collect"
  /\ \E k \in Kinds : coll[k] = "err"
  /\ main' = "failed"
  /\ UNCHANGED <<lockVars, diskVars, coll, docsCount, cancelled, pc, pos, searchNodes, inv>>

MayFail(fault) == fault \in Faults /\ main' = "failed"

WriteRtree ==
  /\ main = "collect"
  /\ \A k \in Kinds : coll[k] = "nil"
  /\ \/ /\ rtreeFile' = osmData
        /\ docsCount' = nodeIDX
        /\ main' = "merge_name"
     \/ MayFail("rtree") /\ UNCHANGED <<rtreeFile, docsCount>>
  /\ UNCHANGED <<lockVars, files, lost, docStore, merged, meta, coll, cancelled,
                 pc, pos, searchNodes, inv>>

Listed == {intermediateIndices[i] : i \in DOMAIN intermediateIndices}

\* Mutant: the address index is merged from the segments of the name field.
NameSegments(f) == {s \in Listed : s.field = "name"}

Segments(f) == {s \in Listed : s.field = f}

\* A segment that was listed but never written has no metadata to read.
MergeField(f, at, next) ==
  /\ main = at
  /\ \/ /\ Segments(f) \subseteq DOMAIN files
        /\ merged' = [merged EXCEPT ![f] = UNION {files[s] : s \in Segments(f)}]
        /\ main' = next
     \/ /\ "merge" \in Faults \/ ~(Segments(f) \subseteq DOMAIN files)
        /\ main' = "failed"
        /\ UNCHANGED merged
  /\ UNCHANGED <<lockVars, files, lost, docStore, rtreeFile, meta, coll, docsCount,
                 cancelled, pc, pos, searchNodes, inv>>

MergeName    == MergeField("name", "merge_name", "merge_address")
MergeAddress == MergeField("address", "merge_address", "ok")

\* BuildSpellCorrectorAndNgram counts the documents again.
BuildNgram ==
  /\ main = "ok"
  /\ docsCount' = Len(allSearchNodes)
  /\ main' = "ngram"
  /\ UNCHANGED <<lockVars, diskVars, coll, cancelled, pc, pos, searchNodes, inv>>

SaveMeta ==
  /\ main = "ngram"
  /\ \/ meta' = docsCount /\ main' = "saved"
     \/ MayFail("meta") /\ UNCHANGED meta
  /\ UNCHANGED <<lockVars, files, lost, docStore, rtreeFile, merged, coll, docsCount,
                 cancelled, pc, pos, searchNodes, inv>>

Cancel ==
  /\ MayCancel
  /\ ~cancelled
  /\ main = "collect"
  /\ cancelled' = TRUE
  /\ UNCHANGED <<lockVars, diskVars, coll, main, docsCount, pc, pos, searchNodes, inv>>

\* The caller has its answer; goroutines that still run may go on.
Returned ==
  /\ main \in {"saved", "failed"}
  /\ UNCHANGED vars

-----------------------------------------------------------------------------

BatchStep(b) ==
  \/ SeeCancel(b) \/ Skip(b) \/ CheckDuplicate(b) \/ AddObject(b) \/ EndBatch(b)
  \/ (\E f \in Fields : ReceiveInverted(b, f))
  \/ SaveDocs(b) \/ Publish(b) \/ CollectError(b)

InvertStep(b, f) ==
  \/ ParseNode(b, f) \/ InvertCancelled(b, f) \/ AllocBlock(b, f)
  \/ RegisterSegment(b, f) \/ WriteSegment(b, f)

MainStep ==
  \/ ReturnError \/ WriteRtree \/ MergeName \/ MergeAddress
  \/ BuildNgram \/ SaveMeta

Next ==
  \/ \E b \in Batches : BatchStep(b)
  \/ \E b \in Batches, f \in Fields : InvertStep(b, f)
  \/ \E k \in Kinds : CollectAll(k)
  \/ MainStep
  \/ Cancel
  \/ Returned

\* The Go scheduler runs every goroutine that can run.
Fairness ==
  /\ \A b \in Batches : WF_vars(BatchStep(b))
  /\ \A b \in Batches, f \in Fields : WF_vars(InvertStep(b, f))
  /\ \A k \in Kinds : WF_vars(CollectAll(k))
  /\ WF_vars(MainStep)

Spec == Init /\ [][Next]_vars
FairSpec == Spec /\ Fairness

(* Properties                                                              *)

IDs == 0..(nodeIDX - 1)

\* The state stays within these values.
TypeOK ==
  /\ nodeIDX \in Nat /\ block \in Nat
  /\ \A n \in DOMAIN nodeBoundingBox : nodeBoundingBox[n] \in Box
  /\ osmData \in Seq([ID: Nat, obj: Objects])
  /\ allSearchNodes \in Seq(Nat)
  /\ docWordCount \in [DocIDs -> Nat]
  /\ intermediateIndices \in Seq([field: Fields, block: Nat])
  /\ DOMAIN files \subseteq [field: Fields, block: Nat]
  /\ \A s \in DOMAIN files : files[s] \subseteq Nat
  /\ lost \subseteq Fields \X Nat
  /\ docStore \subseteq Nat
  /\ rtreeFile \in Seq([ID: Nat, obj: Objects])
  /\ merged \in [Fields -> SUBSET Nat]
  /\ meta \in Nat \cup {-1}
  /\ pc \in [Batches -> {"scan", "add", "flush", "save", "publish", "fail", "done"}]
  /\ pos \in [Batches -> Nat]
  /\ searchNodes \in [Batches -> Seq(Nat)]
  /\ inv \in [Batches -> [Fields ->
       [pc: {"idle", "parse", "register", "write", "send", "done"},
        parsed: Nat, block: Nat, err: BOOLEAN]]]
  /\ coll \in [Kinds -> {"range", "nil", "err"}]
  /\ main \in {"collect", "merge_name", "merge_address", "ok", "ngram", "saved", "failed"}
  /\ docsCount \in Nat
  /\ cancelled \in BOOLEAN

\* The IDs given out by all the batch goroutines together are 0, 1, 2, ...
\* without a gap or a repetition, in the order of osmData, and no object gets
\* two.  LoadMeta sums docWordCount[0] .. docWordCount[docsCount-1] and the
\* R-tree leads back to the document store by these IDs.
DocIDsDense ==
  /\ nodeIDX = Len(osmData)
  /\ \A i \in DOMAIN osmData : osmData[i].ID = i - 1
  /\ \A i, j \in DOMAIN osmData : osmData[i].obj = osmData[j].obj => i = j

\* A document is at one place: in the buffer of one batch goroutine until the
\* flush is over, then once in allSearchNodes, and by then in the store.
DocsHeldOnce ==
  /\ \A d \in IDs :
       Cardinality({i \in DOMAIN allSearchNodes : allSearchNodes[i] = d})
       + Cardinality({x \in Batches \X (1..BatchSize) :
                        /\ x[2] \in DOMAIN searchNodes[x[1]]
                        /\ searchNodes[x[1]][x[2]] = d}) = 1
  /\ \A i \in DOMAIN allSearchNodes : allSearchNodes[i] \in docStore

HasBlock(b, f) == inv[b][f].pc \in {"register", "write"}

\* No two flushes of any batch write to the same segment file: a segment number
\* is taken by one goroutine, and no listed segment is listed twice.
SegmentsDistinct ==
  /\ \A i \in DOMAIN intermediateIndices : intermediateIndices[i].block < block
  /\ \A i, j \in DOMAIN intermediateIndices :
       intermediateIndices[i].block = intermediateIndices[j].block => i = j
  /\ \A b1, b2 \in Batches, f1, f2 \in Fields :
       /\ HasBlock(b1, f1) /\ HasBlock(b2, f2)
       /\ inv[b1][f1].block = inv[b2][f2].block
       => <<b1, f1>> = <<b2, f2>>

Succeeded == main \in {"ok", "ngram", "saved"}

\* When SpimiBatchIndex returns without an error (and was not cancelled), every
\* document that got an ID can be found in every way the server looks for it:
\* in the store, in the R-tree data and, for each field it has words in, in the
\* merged index of that field; its length is the length of its two fields.  The
\* exception are documents of posting lists whose write failed: SpimiInvert
\* drops that error (indexer.go:760), and they can be missing from the index of
\* the field although SpimiBatchIndex succeeds.
IndexComplete ==
  Succeeded /\ ~cancelled =>
    /\ docsCount = nodeIDX
    /\ rtreeFile = osmData
    /\ \A d \in IDs :
         /\ d \in docStore
         /\ \A f \in Fields :
              /\ d \in merged[f] => Words(d, f) > 0
              /\ Words(d, f) > 0 /\ <<f, d>> \notin lost => d \in merged[f]
         /\ docWordCount[d] = Words(d, "name") + Words(d, "address")

Indexed == {osmData[i].obj : i \in DOMAIN osmData}

SameRoad(w, o) == w.kind = "ways" /\ Obj(w).name = Obj(o).name

\* A way for which the second test of isWayDuplicateCheck can pass, against a
\* way of its name whose box does not have it.
Turned(o) ==
  o.kind = "ways" /\ \E w \in Objects \ {o} :
    SameRoad(w, o) /\ InverseContain(Obj(o).box, Obj(w).box)

\* An object dropped as a duplicate has the name of a way that was indexed, and
\* for one of two reasons, whatever the order in which the batches read, replace
\* and set the boxes: it lies in the box of another way of its name, or it is a
\* way that passed the second test.  The box it lies in is that of an indexed
\* way, unless that way itself was dropped by the second test: the check has
\* then left its box behind (indexer.go:598), and what is in that box may be in
\* no indexed way's.
DroppedIsDuplicate ==
  Succeeded =>
    \A o \in Objects \ Indexed :
      \/ IsSkipped(o)
      \/ /\ \E w \in Indexed : SameRoad(w, o)
         /\ \/ Turned(o)
            \/ \E w \in Objects :
                 /\ SameRoad(w, o) /\ PointsContains(Obj(w).box, Obj(o).box)
                 /\ w \in Indexed \/ Turned(w)

\* SpimiBatchIndex merges, and reads osmData and nodeIDX without the lock, only
\* when no goroutine it started is left running.
QuiescentMerge ==
  main \notin {"collect", "failed"} =>
    \A b \in Batches :
      pc[b] = "done" /\ \A f \in Fields : inv[b][f].pc \in {"idle", "done"}

\* Whatever fails, the indexer does not hang: it ends with an index or an error.
MainReturns == <>(main \in {"saved", "failed"})

-----------------------------------------------------------------------------
(* The abstract specification and the refinement mapping                   *)

\* What a query can find: a document in the store, the R-tree and every index
\* of a field it has words in.
Searchable ==
  {d \in docStore :
     /\ \E i \in DOMAIN rtreeFile : rtreeFile[i].ID = d
     /\ \A f \in Fields : Words(d, f) > 0 => d \in merged[f]}

Build == INSTANCE IndexBuild WITH
  assigned  <- [i \in DOMAIN osmData |-> osmData[i].obj],
  outcome   <- IF main \in {"collect", "merge_name", "merge_address"} THEN "running"
               ELSE IF main = "failed" THEN "failed" ELSE "ready",
  published <- IF Succeeded THEN Searchable ELSE {},
  damaged   <- {x[2] : x \in lost}

\* The pipeline of goroutines implements the one-step publication of IndexBuild.
ImplementsBuild == Build!Spec

=============================================================================
