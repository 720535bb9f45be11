# A TLA+ development of osm-search

This directory models the Go program in `src/`, a search engine for OpenStreetMap
data: an **indexer** (`cmd/indexing`) that builds inverted indexes, an R-tree file and
a document store from an OSM extract, and a **server** (`cmd/server`) that answers
free-text, autocomplete, spatial and geofence queries from them. The modules are
translated from the code; every definition that stands for code is listed with its
lines in `PROJECT.json` (`map`), and paths below are relative to `src/`.

## 1. Inventory

| Component | State | Operations | Interacts with | What is hard | Module |
|---|---|---|---|---|---|
| Indexing pipeline, `pkg/index/indexer.go` (`SpimiBatchIndex`) | next document ID, next segment number, box per name, R-tree data, returned documents, word counts, segment list; buffers of the batch goroutines | check for duplicates, number and add an object, flush a buffer, collect results, merge, save metadata | a goroutine per batch, two per flush, two collectors; document store, index files | one goroutine per batch under one lock that is released between dependent steps; unbuffered channels and early returns; cancellation; half-written segments | `SpimiBatch`, `IndexBuild` |
| Inverting and merging, `SpimiInvert`, `Merge`, `pkg/index/heap_merge.go` | dictionary, posting map, segments, priority queue | parse, flush at the size limit, final flush, k-way merge, length merge | dictionary shared by all goroutines | terms numbered in a race; limits; queue invariants | `SpimiInvert` |
| Index files, `pkg/index/inverted_index.go` | posting metadata, file offset, three files per index | open, append, read, iterate, close, remove | the searcher shares each open file between all requests | truncate-then-write; reruns over old files; kills | `IndexFiles` |
| Searcher, `pkg/searcher/searcher.go` | none of its own but the two open indexes | `FreeFormQuery`, `Autocomplete`, `ReverseGeocoding`, `NearestNeighboursRadiusWithFeatureFilter` | goroutines per matched query, channels, index files, store, dictionary, R-tree | concurrent reads of one offset, error paths of the goroutines, shutdown while serving | `PostingReads`, `SearchWords`, `RtreeQueries` |
| Spelling, n-grams, `spell_corrector.go`, `ngram_lm.go` | word, n-gram and edit counts, automaton of the vocabulary | train, count, find candidates, multiply them out, choose | dictionary | queries without a possible candidate, double counting, padding of several lengths | `NGramLM`, `SearchWords` |
| R-tree, `pkg/datastructure/rtree.go`, `pq_rtree.go` | tree of boxes, size, height; a heap per query | load, insert, split, delete, condense, box query, nearest neighbours | loaded by the server, owned by each geofence | ties, root changes, under- and overfull nodes, reinsertion | `Rtree`, `RtreeQueries` |
| Geofences, `pkg/geofence` | named fences, each an R-tree and a map; last position per query point in the store | add and delete a fence, add a point, update a query point, search | HTTP handlers call them concurrently, no lock | get-put-get of a position; overlapping additions; unlocked maps; the limits of the tree | `Geofence` |
| Store, `pkg/kvdb` | bbolt buckets | save and get documents, query points | indexer, searcher, geofence | errors dropped on a closed store | steps of the others |
| Dictionaries, `pkg/util.go` (`IDMap`) | string to ID and back, vocabulary | `GetID`, `GetStr`, `BuildVocabulary` | all of the above | IDs added while serving, reads without the lock | `SpimiInvert`, `SearchWords`, `Geofence` |
| HTTP controllers, use cases, `pkg/http` | none | validate, call, format | all of the above | panics are recovered per request; timeouts | `Geofence`, `PostingReads` |
| Rate limiter, worker pool, coding, boolean query, scoring, parsing, wiring | visitors; channels; none | | | | see "Not modelled" |

What makes each correct, in a sentence: the pipeline gives every kept object one ID and,
when it reports success, every such document is found in the store, the R-tree data and the
index of each field it has words in; the merge neither loses nor repeats a posting and
produces terms in order; a reader gets the posting list of the term it asked for; every
request ends, unless the process does; the reports of a fence add up to where a query point
is; the tree's boxes are tight around their entries, its leaves at one level, and no object
is lost; a query is answered as a search of all objects would; an unknown word is replaced
by an indexed one near it, if there is one; files survive a crash or are refused.

The hazards, each at its line and with the properties that would catch it, are in
`PROJECT.json`; those without a property say why.

## 2. What is modelled

### `IndexBuild` and `SpimiBatch`: the indexing pipeline

`IndexBuild` is the promise: objects get IDs one after the other, and then all
documents become searchable in one step, or the run fails and none does. Documents that
were not written in full (`damaged`) may be missing from that step, and no others.

`SpimiBatch` is the code. Batches are the slices that `batchingOSMWays` and
`batchingOSMNodes` cut; `pc[b]`, `pos[b]` and `searchNodes[b]` are a batch goroutine's
control, loop index and buffer, `inv[b][f]` the goroutine inverting the buffer for field
`f`, `coll` the two collectors, `main` `SpimiBatchIndex` and its caller. Each critical
section of `batchingLock` is one action, and so is each send and receive on an unbuffered
channel; code between two of them that touches only a goroutine's own variables is part
of the neighbouring action. In particular `CheckDuplicate` and `AddObject` are two
actions, because `isWayDuplicateCheck` releases the lock before the caller takes it
again. Objects carry what the duplicate check and the inversion tell apart: a name (lower
case), whether there is a highway tag, a bounding box, the number of words per field.
A segment file is the set of documents that have all their postings in it. `Faults` names
the calls that may return an error. All of them are passed on but that of
`AppendPostingList` (`"append"`), which `WriteSegment` drops as the code does
(indexer.go:760): the posting list and its term are then not in the segment, whatever its
other documents; `lost` is a history variable of the fields and documents this happened to.
`MayCancel` allows the caller's context to be cancelled (the shipped `main` never does before
the index is built).

The refinement `Build` maps the R-tree data to the assigned objects, `main` to the
outcome, the documents that are in the store, the R-tree file and the merged index
of every field they have words in to the published ones, and those of `lost` to the damaged
ones. The flush at the limit of the postings in memory, with its own unchecked calls
(indexer.go:729 and 733), is in `SpimiInvert` only.

### `SpimiInvert`: postings, segments and the merge

One field, several `SpimiInvert` goroutines. `ParseWord` numbers one word under the
dictionary's lock; `FlushFull` is the flush at `maxDynamicPostingListSize`, with the
code's loop over indices (`ByIndex`); `Finish` is the last flush (`ByTerm`). `Pop` is a
round of the k-way merge together with what `Merge` does with the list it yields, and any
entry of least term may be popped, which covers the heap's treatment of ties. A posting of
the segments is a place, <<segment, <<list, index>>>> (`SegmentHits`), so that "each is at
one place" is an equation between numbers of places at every point of the merge. Sorting is
written by ranks (`Rank`): the number at place i goes to the place of its rank.
Cancellation, errors and locks of the same functions are in `SpimiBatch`.

### `PostingReads`: queries over shared index files

`Seek` and `Read` of `GetPostingList` are two actions on the field's one offset.
`worker[r][i]` is the goroutine of the i-th matched query of an autocomplete request, or
the handler itself for a free-form query (i = 1). A posting list as read is the position
and number of its bytes. `Fail` is the send on the channel nobody made. `CloseFile` and
`CloseStore` are the clean-up goroutines, which do not wait for requests. `process` is the
server's: `Shutdown` is the signal, after which main cancels the context that the clean-up
goroutines and every request have, and `Exit` its return right after that, with which all
goroutines stop where they are.
`alone[r]` is a history variable: no other goroutine was reading when r arrived and none
came while it read.

The model's `Timeout` fires only when the request cannot move any more: the limit is
1000 s, and a request that answers in time is not distinguished from one that could. After
`Shutdown` it may fire at any time, since `http.TimeoutHandler` also watches the context of
the request.

### `IndexFiles`: the files of an index, run after run

Each program is the sequence of its steps on files (`IndexerSteps`, `ServerSteps`), one
system call each, in the order in which `main` of `cmd/indexing` and of `cmd/server` reach
them; `pc` is the step a program is at, and `Kill` ends it at any of them. A file holds the
number of the run that wrote it, a metadata file a record of the run and the positions of
its terms, a size file a number. `Truncate` and `Write` are two actions, since
`os.O_TRUNC` empties a file before anything is written. The index file of a field is
opened without `O_TRUNC` and only ever appended to (`AppendPostingList` seeks to its end),
so the lists of earlier runs stay in it.

The server's `Searcher.Close` writes the metadata and the size of both fields again. It
runs in a goroutine that the server's `main` does not wait for, so `Kill` covers both a
signal and the return of `main`. `Refuse` is an error from a read of an empty file,
`DeserializePanics` the read behind the end of a buffer that has the size of older
metadata. The operator starts a program when the other has ended; both open the same
bbolt file, which has a lock. The operator may start the indexer while no run is complete,
or again over the files of a complete one.

Not in the model: the average document length that `Close` accumulates, the values inside
the single-value files, partial writes of one call, and segment files (every run writes
them before it reads them).

### `Rtree` and `RtreeQueries`: the spatial index

A node is a name: the ID of the object a data node holds, or a number below -1. `tree.node`
maps names to fields, so that a node can sit in two parents as the code's pointers allow.
`InsertLeaf` (with `ChooseLeaf`, `SplitNode`, `AdjustTree`) and `Deleted` (with `FindLeaf`,
`CondenseTree`, `Reinsert`, `ShortenTree`) are operators from trees to trees, one per
function, since no lock or channel interrupts them; a transition is one whole `Insert` or
`Delete`, after the load of a saved order of objects. The code's loops are functions on
0..n (the state after each turn), with as many turns as nodes can need. A deletion searches
for a leaf that has the object, takes the entry out, climbs to the root cutting under-full
nodes off (`CondenseTree`), and puts their entries back at the level it counted for them
while it climbed. Names of nodes are never reused, and nodes that are cut off stay in
`tree.node`, as garbage does. An insertion or deletion in a tree whose root is a data node
(a tree that shrank to a single object) changes nothing, as in the code.

`RtreeQueries` adds what the server asks: box search, the heap and the incremental
nearest-neighbour stream, `k` nearest, pages within a radius with a feature, and
`ReverseGeocoding`. Their answers are compared with the set of objects inserted and not
deleted.

Four history fields record what breaks a tree for good, so that the properties can say
what holds otherwise: `twin` (one entry was the seed of both groups of a split and is now
in two nodes), `tied` (a split gave an entry to neither group), `lopped` (a deletion took
an entry of an inner node for the object), `skewed` (an entry of an eliminated node was
put back at a level that is no longer its own). Coordinates are integers and the distance is the
grid distance: of the distance on the sphere the code relies on its growing with the
difference on either axis. An object has a point inside its box, and a way the places of its
boundary, by which `ReverseGeocoding` measures (`DistanceToOsmWay`); where a point is
projected on a side of it is the parameter `Project`.

### `Geofence`: requests about fences

One action per access to shared state: the map of fences, a fence's tree, its map of
circles, the stored query points. `job[h]` is the request a handler is at and what it has
read; `ref` is the `RtreeFence` it looked up, which stays reachable when the name is
deleted. The tree of a fence is the list of its root's entries: it is made for 50
dimensions, so a split indexes outside a box and panics, and one level is all it ever has.
`full` and `dead` in `InsertEntry` are the two panics, which the middleware recovers, with
the tree changed and the map not. `LoseEntry` is the lost update of two concurrent appends
to one slice. `Racing` says that two handlers are at conflicting accesses to a Go map;
then the runtime may end the process (`Restart`): fences are gone, query points are not.

`torn` (additions to one fence that overlapped, or an overflow), `told` (what the ENTER and
EXIT reports added up to) and `missed` (moves that were not searches, one at a time, of
that fence) are history variables for the properties. The earth is a line: positions are
numbers and circles intervals.

### `NGramLM` and `SearchWords`: from words to indexed words

`NGramLM` has the operators of the language model: word counts, threshold, padding, n-gram
counts as functions of the prepared documents, estimates as fractions, and backoff.
`SearchWords` is the run of the program around them: `ReadErrors` trains the noisy channel
model a line at a time, `IndexDocument` fills the dictionary, `BuildNGram` counts and,
with the start of the server, fixes vocabulary and automaton, and `FreeFormQuery` and
`Autocomplete` go from the words of a query to one or three queries of indexed words.
Which of the possible candidates is the most probable is left open (a disjunct for each);
whether its probability is above zero is not.

### Ends

`SpimiBatch`, `SpimiInvert` and `PostingReads` have a stuttering step for their good end
(`Returned`, `Merged`, `Ended`) and `IndexFiles` has no end, so that TLC's deadlock
check stays on there and reports every other way to stop. In `Rtree`, `Geofence` and
`SearchWords` only the bounds on edits and requests stop a behaviour; the check is off.

## 3. Runs

| Run | Checks | Instance |
|---|---|---|
| `spimi_ok` | type invariant; IDs dense and unique; segment numbers distinct; the index complete on success; a dropped object is a duplicate by one of the two tests; a document is in one place; refinement of `IndexBuild` | four ways of one name in two batches, which race for the box of the name: each is contained in, contains or misses another; full buffers and tails are flushed; any posting list may fail to be written |
| `spimi_faults` | merges only when all goroutines ended; the indexer always returns | two nodes in two batches, the one with a full-buffer flush, and a way that is skipped; any call may fail at any time, cancellation at any time |
| `invert_ok` | type invariant; postings conserved by the merge; term order; exact posting lists and lengths | two goroutines, three and two words, all 243 choices of three words, limit 2 (flushes early) and 10 (never) |
| `reads_ok` | type invariant; a request alone reads exactly and is not failed; answers complete; requests end unless the process does | two concurrent requests of four shapes, two terms, shutdown and the end of the process at any time |
| `reads_mixed` | (violated) every read is exact | one autocomplete request with two queries |
| `reads_hang` | (violated) an autocomplete request is answered | the same, fair |
| `files_ok` | type invariant; metadata leads to its own posting lists; a server serves one complete run; it refuses or panics only for a reason | three runs over one directory, any number of server starts, a kill at any step |
| `rtree_ok` | type invariant; boxes tight; nodes not under-full unless a split dropped an entry, leaves at one level unless one was put back at a stale level; objects held once; box, nearest, page and reverse-geocoding queries exact; a deletion takes one object | ten objects in a street or a block, all or half of them with a boundary, six orders of loading, nodes of two or three entries, three edits |
| `rtree_once` | (violated) every object is in the tree once | up to six insertions of equal boxes, nodes of two to four entries |
| `geofence_ok` | type invariant; tree and map of a fence agree; reports add up; a search finds what contains the point | two handlers, six requests, two fences, three points of one fence, one query point, restarts |
| `geofence_all` | (violated) the answer has all that contains the point | one handler, one fence, the code's limits 3 and 25 |
| `words_ok` | a correction is indexed and near; completions differ; estimates sum to one; edits are counted as listed | four documents, six queries, eleven lines of errors with an edit of every kind, at both ends and inside of a word |

**Bounds.** Two goroutines on a shared location show every pairwise race of it; the
pipeline instances have two batches, each with two inverting goroutines, so up to four
goroutines compete for the lock. The boxes of `spimi_ok` contain, are contained in and miss
each other, and lie where latitudes and longitudes overlap, so that both tests for a duplicate
pass for some and not for others; it has 3.8 million states. A node that is dropped
for the box of a way is in the proofs only: a third batch is too many for TLC. A batch size of
3 (100000 in the code) makes a buffer fill in the loop or leaves a tail, by what is dropped;
batch size 1 makes every object a flush. A posting list size
limit of 2 lets a flush happen before, at and after the end of a stream. Two terms in a
file, one ending where the file ends, are enough for a read to return foreign bytes, too
few bytes, or none. Three runs of the indexer (`MaxRuns`), with one, two and one terms,
give metadata that is larger and smaller than the size file left by the run before, and
terms that stay, appear and disappear; a fourth run meets no kind of file the third did
not. Server starts and kills are not bounded.

Nodes of two to three entries and ten objects give trees of three levels, splits of the
root and of inner nodes, and deletions that eliminate leaves and inner nodes and shorten
the tree; three edits after every kind of load (`MaxEdits`) let an insertion meet a tree
that has been condensed and the reverse. Deletions stop once a split used one entry as both
seeds (`tree.twin`; the two parents then share an entry), dropped one (`tree.tied`; nodes may
then be empty, and choosing a subtree in one indexes past the end of a slice), or a deletion
left leaves at two levels (`tree.skewed`): what pointers do after that is not worth a model.
An object dropped by a split may not be inserted a second time, since its name is taken.

Two handlers show every overlap of two requests; six requests (`MaxRequests`) are a fence
made, three additions and two searches, or one of them in another fence. Two circles fill a
tree there (`MaxItems` 2, 25 in the code) and a search looks at one (`NearestK` 1, 3 in the
code), so that both limits are met, exceeded and not reached; `geofence_all` has the code's
own numbers. `MaxFences` fences are created in a behaviour, two of them possibly of one
name. Words have one to five letters: some within one and two edits of each other, one a
prefix of another, one near a marker, one near nothing. Two documents (`MaxDocs`) make a
word occur once or often; the second query (`MaxQueries`) meets the dictionary with the
words the first added.

**Fairness.** Weak fairness of each goroutine's steps: Go's scheduler runs every
goroutine that can run, and a channel operation whose partner is ready stays ready, as
each partner waits in that operation and nowhere else. In `PostingReads` this holds while
there is a process: after `Exit` nothing is left to run. Cancelling, arriving requests,
shutdown and the end of the process are not fair: they need not happen.

**What the violated runs show** is in `PROJECT.json` under `findings`, with the comment
or test each contradicts: reads that mix posting lists; the nil error channel; the split
that drops an entry; the fence that a repeated addition kills.

Other disagreements can be read off the models without a run of their own. After an error
the collectors receive no more, so other batch goroutines block for ever (`CollectError`;
`MainReturns` holds all the same). Two batches may both find a way new and index it twice,
because `CheckDuplicate` and `AddObject` are two critical sections.

The two tests for a duplicate way do less than their comments say. The one for a way whose box
contains the earlier one of its name (indexer.go:602, "cek sebaliknya") is given
`prevBB.GetMin()` and `prevBB.GetMax()`, two corners, where `PointsContains` takes a list of
latitudes and one of longitudes. In the region the program indexes, where every longitude is
greater than every latitude, it never passes, and a large way after a smaller one of its name
is indexed beside it; near the point 0, 0 it passes for some ways that contain the earlier one
and some that do not. And the first test leaves the new box in place of the old, where the
comment (indexer.go:597, "perbesar") has it enlarged: a way that is then dropped by the
second test leaves its own, and what lies in that is dropped though no indexed way has it.
`DroppedIsDuplicate` says what holds for all boxes, and names these ways (`Turned`).

Nor does the program promise that a request of a server that stops is answered. `main` returns
on the signal (cmd/server/main.go:56) without `srv.Shutdown`, so that the process may end
under it (`Exit`); a request that is running then gets no outcome, and `RequestsEnd`
says so.

Autocomplete can list a document twice. Its queries differ (`CompletionsDistinct`), but the
documents of each are appended to those of the others (searcher.go:376), and a query is scored
for every document with any of its words: one that has words of two of the queries comes
twice.

The edits of `spell-errors.txt` are recorded under other letters than the comment of
`EditCount` names (spell_corrector.go:36: "del[x_{i-1}, w_i], ins[x_{i-1}, w_i], sub[x_i,w_i],
trans[w_i, w_{i+1}]"). `getEdit` has the pair of an insertion and of a transposition in the
opposite order, the inserted letter before the one it follows and the second letter before the
first. A deletion it records under the letter that follows the deleted one and the letter
before it, or, at the end of a word, under the letter before twice; the deleted letter is not
in it. `SingleEdits`, by which `EditsAsListed` counts, has the letters of the code.

A reverse geocoding with no object around asks the store for the document of ID -1, and the
error of that is its answer. One whose nearest object has no boundary answers with the place
-1, -1 (searcher.go:442). A road is measured as if a last side led back to its start
(searcher.go:448).

The flush at the
posting list limit loops over the indices of the terms (`ByIndex`) and loses postings; the
limit of the shipped indexer is never reached. All but the first errors of a line of
`spell-errors.txt` are read with a space in front (`Piece`). Counting twice (`WordCount`)
makes the threshold of two one, which is what `CorrectionFound` rests on: with single
counting (its mutant) a query with a rare word panics. The estimates after start tokens
alone sum to two, so a marker can be the correction of a word like "s".

Two disagreements of `rtree.go` came up in the proofs, where `Balanced` had to be stated
with a condition. The split stops giving entries by cost when a group needs all that is
left (rtree.go:317), but does not count those it has dropped, so that a group can end with
fewer than `MinChildItems`: with nodes of two and three entries, four boxes of width 2 at
0, 20, 10 and 4 do it. And `condenseTree` puts an entry back at the level it counted on
the way up (rtree.go:813), although an earlier reinsertion of the same deletion may have
grown the tree. The comment there (rtree.go:790-796) says that leaves come to the level of
the other leaves; they do not in a tree of 36 boxes of width 4 at (27o mod 49, 41o mod 47), of
nodes of two and three entries, when object 30 is deleted. The tests delete from smaller trees.

## 4. What is proved

`PostingReads_proofs` proves, for all requests, terms, shapes, file contents and numbers
of queries, from `PostingReadsAssumption` only (posting lists lie inside their file,
shapes have at most `MaxQueries` non-empty queries, a free-form one exactly one):

* `TypeCorrect`: `Spec => []TypeOK`;
* `ReadsExactWhenAlone`: `Spec => []ExactWhenAlone`;
* `AloneIsServed`: `Spec => []AloneSucceeds`;
* `AnswersAreComplete`: `Spec => []AnswerComplete`.

`ExactWhenAlone` is not inductive: it says nothing about a goroutine between its `Seek`
and its `Read`. `IInv` adds `Placed` (a reading goroutine is at a term of its request, and
reads only terms with metadata), `Sole` (while a request that is alone reads, no other
goroutine does) and `Sought` (its offset is where it sought, or the file was closed and
the read will fail). A step of another goroutine cannot disturb `Sought`, by `Sole`; an
arriving request makes nobody alone that is reading. One lemma per kind of step
(`AdvanceKeeps`, `MoveKeeps`, `ArriveKeeps`, `OutcomeKeeps`) shows that it keeps `IInv`.

The other two need `Progress` on top of it: nothing of a request that is alone, the files
open, has failed (`Unfailed`: by `Sought` its `Read` starts where its posting list does, so
there are bytes left, and by `ExactWhenAlone` its documents exist), a goroutine has a list
of every term and field it is past (`Collected`), and an answered request's goroutines are
all done (`Awaited`).

`SpimiBatch_proofs` proves, for every input, batch size, set of faults and cancellation,
from `SpimiBatchAssumption` only (batches are not empty, objects have names and boxes, those of
nodes a point):

* `TypeCorrect`: `Spec => []TypeOK`;
* `IDsAreDense`: `Spec => []DocIDsDense`;
* `SegmentsAreDistinct`: `Spec => []SegmentsDistinct`;
* `MergeIsQuiescent`: `Spec => []QuiescentMerge`.

Its invariant is `TypeOK /\ Numbering /\ Segmenting /\ Flushing`.

* `Numbering`: that no object gets two IDs does not follow from the lock, which only makes
  the numbers dense. It needs that batches are disjoint (`BatchesDisjoint`, from
  arithmetic on the batch starts) and that a goroutine has gone past every object of its
  batch that has an ID (`Passed`).
* `Segmenting`: a goroutine that has taken a segment number and has not registered it
  holds a number below `block` that no one else holds and no list has (`Unlisted`).
* `Flushing`: a flush runs only while its batch goroutine waits, unless that failed; a
  collector that saw no error saw all its batches end. So nothing runs when the merge
  starts.

There is one lemma for each action (`AddObjectKeeps`, `AllocBlockKeeps`, ...), and lemmas
that say which variables each part depends on, so that an action that leaves them alone
keeps the part at once. TLC checks the same properties in `spimi_ok` and `spimi_faults`.

It proves on top of that invariant:

* `DroppedAreDuplicates`: `Spec => []DroppedIsDuplicate`;
* `DocsAreHeldOnce`: `Spec => []DocsHeldOnce`.

Where a name has a box, a way of that name is indexed, and the box is that of a way that has
been or will be indexed or that the second test dropped (`Boxed`); so an object that a batch
has passed is indexed or was dropped for one of these reasons (`Seen`); when main goes past
the collectors no object waits to be added (`Ended`). Nothing is assumed of the boxes but
that those of nodes are points. For `DocsHeldOnce`, `Holding` says that each ID is held, at
one place, that what is published was saved, and that a buffer never exceeds `BatchSize`.

And it proves, for every input, batch size and set of faults:

* `IndexIsComplete`: `Spec => []IndexComplete`;
* `ImplementsIndexBuild`: `Spec /\ [](~ cancelled) => ImplementsBuild`, the refinement.

Its invariant follows a document's words from the buffer to the merged index.

* `Whole`: a goroutine that has stopped parsing has parsed the whole buffer, unless it was
  cancelled, and a batch goes on to save only when both of its goroutines ended well.
* `Writing`: a segment number that is held is not that of a written segment, so
  `WriteSegment` overwrites nothing, and what is written is listed.
* `Sound` and `Flushed`: a segment holds only documents with words in its field, and a
  flush that ended well has all of its documents' words in listed segments, but for those of
  `lost`.
* `Counted`: a document has had the words counted that the two goroutines are past, and
  one not yet numbered none. This needs that IDs stay below the number of objects
  (`IDsFit`, by counting) and that no document is at two places (`Holding`).
* `Done`: what main has written so far is of the final state.

That all documents are published follows by counting again (`AllPublished`). In the
refinement, `AddObject` is `Assign`, a `WriteSegment` that leaves postings out is `Damage`,
the merge of the second field is `Publish`, a failure of main is `Fail`, and all else
stutters. The hypothesis is necessary: a cancelled parse returns the tokens so far without
an error, and the indexer can then succeed with an index that misses documents.

`IndexFiles_proofs` proves first, for any number of runs, any vocabularies and kills at any
step, from `IndexFilesAssumption` only (each run has a sequence of terms):

* `TypeCorrect`: `Spec => []TypeOK`;
* `MetadataLeadsHome`: `Spec => []PostingsInPlace`.

`PostingsInPlace` is about metadata on disk, and is not inductive, because what a program
writes is what it has in memory. `IInv` adds that metadata in the server's memory is in
place (`HeldInPlace`), that the indexer's is of the current run and in place, and
`AppendPostingList` extends it by the list it has just written (`OfThisRun`), and that a
server past a read holds what it read (`MetadataLoaded`), so that `Searcher.Close` writes
real metadata back. Appending to an index file moves no list, whatever run it is of; that is the
lemma all steps of the merge rest on.

It goes on to prove, with that invariant, from `IndexFilesAssumption` and `EmptyAssumption`
(the mark of an empty file is no content of a written one):

* `OneRunIsServed`: `Spec => []ServesOneRun`;
* `RefusalsHaveReason`: `Spec => []RefusesWithReason`;
* `BuffersAreLargeEnough`: `Spec => []OpensInBuffer`.

What a server finds depends on how far the indexer came and on what earlier servers were
doing when they were killed, so `RunInv` follows both programs by their positions. What the
indexer has behind it is on disk and of its run (`Written`); the file a server reads first
is the last one the indexer writes, so that no server comes up before a first run is
complete (`NotYet`). Once a run is complete every file is of that run or empty (`OfLastRun`), a size
file fits the metadata beside it (`SizesMatch`), and so does what a server has read
(`Loaded`, `SizeLoaded`, `LoadedMatches`). After a complete run a file is empty only while a
server is between its truncation and its write, or was killed there (`Rewriting`), which is
the reason a refusal has. What a server finds after a rerun was killed over the files of an
earlier run is excluded in the properties (`Intact`): there it may serve files of two runs.

`SpimiInvert_proofs` proves, for all inputs, words and limits of the postings in memory and
every interleaving, from `SpimiInvertAssumption` only (a document is in one buffer, limits
are positive):

* `TypeCorrect`: `Spec => []TypeOK`;
* `MergeIsAscending`: `Spec => []MergeAscends`;
* `MergeIsConserving`: `Spec => []MergeConserves`;
* `MergedIsExact`: `Spec => []MergedExact`;
* `LengthsAreExact`: `Spec => []LengthsExact`.

The last two speak of the end only, and the first two rely on what was written before the
merge; `IInv` says it.

* `Streaming`: a stream is its buffer read through the dictionary, in which a word has one
  ID; so a term and a document are in a stream where the word and the document are in the
  buffer, whatever the race gave as IDs.
* `Segmenting`: every flush, with its loop over indices or not, writes a segment in
  ascending term order, with the lengths of one whole buffer.
* `Queueing`: the queue has at most one entry of a segment, at a list it has. Then popping
  an entry moves exactly the places of its list from the unread ones to Merge
  (`UnreadSplit`), and `ReceiveCounts` and `AppendedCounts` follow them into the merged index.
* `Merging`: what the queue, the last list and the merged index are in each phase, and that
  the lists of the merged index are sorted.
* `FieldLengths`: a merged length is the length in the buffer times the number of segments
  of that buffer.
* `OneSegmentEach`: without an early flush segments and finished goroutines correspond one
  to one, and a segment is the inverted stream of its goroutine. So the number of segments
  above is one, and the segments' postings are those of the documents (`SegmentsHaveAll`).

Most lemmas count: sorting, grouping by term, concatenating, appending and popping are each
shown to be one-to-one on places, and the library's theorems on finite sets give the
numbers. That a list sorted by ranks has the same numbers is such a correspondence
(`RankOneToOne`, `RankOnto`). The sum over the segments is a recursive fold, about which
induction is out of reach; `SumCounts` instead shows that a function which is the sum
satisfies the fold's equation, and that two such functions differ in no smallest set.

`Geofence_proofs` proves, for every set of handlers, requests, fences and points and every
size of a tree, from `GeofenceAssumption` only (there is a request, positions are known,
`NoCircle` is no circle, the limits are positive):

* `TypeCorrect`: `Spec => []TypeOK`;
* `TreesMatchMaps`: `Spec => []TreeMatchesMap`;
* `ReportsFollowed`: `Spec => []FollowedReports`;
* `ContainingReached`: `Spec => ContainingFound`, an action property.

All three speak of a fence no request is changing; `IInv` says what holds meanwhile.

* `Referred`: a handler at a tree or a map has looked up an `RtreeFence` that exists.
* `Aligned`, for a working fence: at most one request is changing it; tree and map agree in
  every point but the one it is at, whose old entry is gone before the insertion and whose
  new one is there after it. A second request would make the fence `torn`.
* `Fresh`: the old position a search has read is the stored one, or another request moved
  the point meanwhile and the move is `missed`.
* `Follows`, for a point and a fence none of whose moves is `missed`: either the fence is
  being changed, or the one search that has stored its position has not reported yet and
  the reports add up to the old position, or they add up to the stored one. That the search
  then reports every difference needs `Aligned`: it reports what the tree led it to, and
  the reports are counted by the map.

Each part has a lemma for a step (`AlignedStep`, `FreshStep`, `FollowsStep`), which splits
it by kind: a request that only goes on, one that changes a tree, one that moves a point,
a restart. `ContainingFound` follows
from `Aligned` and the definition of the nearest entries when there are no more of them
than are asked for.

`SearchWords_proofs` proves, for any documents, queries and training lines, from
`SearchWordsAssumption` only (words are sequences of letters; the tokenizer, which
lower-cases and keeps letters only, leaves no `U`, `N` or `K` in a query and no start or end
token in a document; and, as in the 7841 lines of `spell-errors.txt`, no word or error is
empty and no line is without errors):

* `CorrectionIsFound`: `Spec => []CorrectionFound`;
* `CompletionsAreDistinct`: `Spec => []CompletionsDistinct`;
* `EditsAreListed`: `Spec => []EditsAsListed`;
* `EstimatesSum`: `Spec => []EstimatesSumToOne`.

The invariant of the first two is short. While documents are indexed the dictionary has
their words and no others and nothing has been answered (`NothingAnswered`); the server
starts with that dictionary and the markers as vocabulary and with the documents' prepared
text as data (`Prepared`). The work is in what the operators return, which are folds and
recursive functions. The library defines them by `CHOOSE` of a solution of their equation,
so `RecursionExists` shows first that there is one: the values come in the order of a
measure.

* `ProductsHave`: `Products` lists queries of one candidate for each word, without
  repetition if no list of candidates repeats a word, and as many as the product of the
  lengths; `WaysChain` gives the same product for the property.
* `ListedHas`, `WithoutSeenHas`, `AutocompleteHas`: the prefix matches and the two rounds of
  corrections are the words admitted, none listed twice. `FreeFormHas` says which words
  `FreeFormQuery` tries, where repetitions do no harm.
* `UnknownIsFar`: no word without `U`, `N` and `K` is within two edits of `<UNK>`, so no query is
  corrected to the one word that occurs in no document.
* `NothingIsReplaced`: every word of the documents is counted twice and stays in the
  prepared data; then `WordsAreCounted` has each word, and the start and the end token,
  counted at least once, and `CountedIsPossible` concludes that the backoff comes to an
  estimate above zero for every query of such words. That is why `FreeFormQuery` panics only
  when there is no candidate at all.

`EditsAreListed` has an invariant of its own, `Trained`: the counts add up to the errors of
the lines read, and each edit is counted at least as often as it is the edit of a first
error. That the counts add up needs a sum that does not depend on the order in which the
library adds: `SumIsTallied` equates it with the number of pairs of an edit and a number up
to its count, and one error more is one pair more (`AddToHas`, `LineHas`). That a first
error is counted as the edit it is rests on `SingleEditIs`: `getEdit`, which looks at the
first letter that differs, at the lengths and at the letters of both words, finds every
insertion, deletion, substitution and transposition of a single step, where the property
asks whether removing, replacing or swapping letters makes one word of the other.

`EstimatesSum` follows from the invariant of the first two, which says what the data is. An
n-gram of one word more is the words before (`Before`) and the word its begin tells whatever
the length (`GramSplits`, `NextWord`), so the estimates after a context sum to the places
where it is followed (`NumSumHas`). The words before are, but at the first word of a document,
the n-gram that begins a word earlier (`BeforeIs`), though the two are padded differently:
moving a place by one word takes the places where a context occurs to those where it is
followed (`LaterIs`), except at the end of a document, and only a context of start tokens is
followed at the first word too (`FirstIs`), which counts it twice.

`RtreeQueries_proofs`, with the lemmas of `Rtree_proofs`, proves, for all map data, saved
orders, sizes of nodes and sequences of insertions and deletions, from `RtreeAssumption`
(the sizes of nodes fit each other, IDs are natural numbers, a box has an extent and the
point of its object inside, a saved order lists objects of the map once)
and `QueryAssumption` (queries are about boxes, points and numbers, and projecting a point on a
side of a boundary gives a place):

* `TypeCorrect`: `Spec => []TypeOK`;
* `BoundsAreTight`: `Spec => []BoundsTight`;
* `TreeIsBalanced`: `Spec => []Balanced`;
* `PresentIsHeld`: `Spec => []HoldsPresent`;
* `OneIsDeleted`: `Spec => DeletesOne`, an action property;
* `SearchIsExact`: `Spec => []SearchExact`;
* `NearestIsExact`: `Spec => []NearestExact`;
* `PagesAreExact`: `Spec => []PagesExact`.

The inductive invariant is `RInv`: the tree is a single object (`Lone`), or there are a set
of nodes, a level for each and the number of levels such that the tree is `Settled` and has
the objects present as its data nodes (`Holds`). None of the eight is inductive: that boxes
are tight or leaves level says nothing of the nodes a split makes, nor of garbage. `Settled`
says that links go one level down and back (`Shape`, `Linked`, `Owned`), that sizes are in
bounds (`Fits`, `Full`) and boxes the smallest (`Snug`), each under the history fields it
depends on.

* A transition is a whole insertion or deletion, so that most of the proof is about loops
  inside one. `LoopExists` and `LoopStays` turn a function on 0..n into an invariant of a
  loop; every loop of the code then has a predicate of its own.
* `Climbing` is that of `adjustTree`: on the path from the leaf to the root boxes are out of
  date, at most one node waits for a parent, and the rest is at rest. A split (`SplitNode`)
  gives every entry to one group, unless costs tie, and both groups enough, unless it
  dropped one.
* `Condensing` is that of `condenseTree` on its way up: what is cut off is in the queue, at
  the level counted for it, each part apart from the tree and from the other parts.
  `Refilled` is that of the reinsertion: each part is grafted as it was, below a node of its
  level as long as the tree has not grown. `Rested` is the end of it.
* `FindLeaf` is recursive, as is `Search`; both are functions whose value after k turns is
  right for the nodes at most k levels above the leaves (`Hunted`, `Seen`). `Desc` is the set
  of nodes below one, defined as the least closed set, so that no induction over trees is
  needed: subtrees of different entries are disjoint since parents are unique (`Owned`).
  `Hunted` also says that the level `FindLeaf` returns is that of the leaf.
* `Erased` and `Remaining` say what a deletion leaves: the tree without the nodes below the
  entry taken out. If that entry is an object, it is that object alone.
* `SiftUp` and `SiftDown` restore the order of the heap (`Heaped`), which is broken at one
  place only while an element moves (`Rising`, `Sinking`); in both cases the element's
  parent is no larger than its children.
* `Streams` is the invariant of `incrementalNearestNeighbor`: the objects not yet handed out
  are below the entries of the heap, each below one; an entry's rank is at most the distance
  of every object below it (`MinDistWithin`, `PlaceInBox`: the point of an object is in its
  box); and no rank is below the distance of an object handed out. An object may pass through
  the heap twice, at the rank of its box and at its own distance, so that the loop ends after
  twice as many turns as there are nodes: what is `Left`, pairs of a node and 1 or 2, gets
  smaller at every turn. `NeighboursAre` follows: the stream is all objects, nearest first.
* A page is a piece of what lies within the radius, and the pieces joined are all of it
  (`PagesAre`); `PageCount` is the arithmetic of how many there are.

Only model-checked: liveness (`MainReturns`, `RequestsEnd`), which under fairness is outside
what the prover supports.

## 5. Not modelled

* Scoring (TF-IDF, BM25), probabilities, trigonometry and distances on the sphere are
  floating-point formulas. What the code decides by them is left open or abstracted as
  said above.
* Parsing the OSM extract, decoding and formatting HTTP, configuration and logging are
  input and output of single calls.
* The boolean query, the worker pool and the fan-in utilities have no caller. The posting
  list coding is a pure function with a test of its round trip; the run-length coding has
  no caller.
* The rate limiter is a map under one lock around a library; what it decides depends on
  seconds.
* In `IndexFiles`: the average document length that `Close` accumulates over repeated
  loads, partial writes of one call, and the segment files of a killed run.
* The number of candidate queries is the product of the candidates of the words
  (`Products`), without a limit in the code; memory and time are not in the model.

## 6. Plan

The safety properties of every module are theorems; liveness is left to TLC. What may be
added is in section 5.
