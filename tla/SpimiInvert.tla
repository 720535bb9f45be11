---------------------------- MODULE SpimiInvert -----------------------------
(***************************************************************************)
(* The postings of one field, from the tokens of the documents to the      *)
(* merged index: SpimiInvert, Merge and MergeFieldLengths of               *)
(* pkg/index/indexer.go and the k-way merge of pkg/index/heap_merge.go.    *)
(*                                                                         *)
(* Several SpimiInvert goroutines number the words they meet in one shared *)
(* dictionary, group the documents by term and write segments; when all of *)
(* them are over the segments are merged through a priority queue.         *)
(*                                                                         *)
(* Locks, errors and cancellation are the business of SpimiBatch.  An      *)
(* index file is what its readers get from it: posting lists in the order  *)
(* they were appended (the varint coding is undone on reading) and the     *)
(* field lengths of its metadata.                                          *)
(***************************************************************************)
EXTENDS Integers, Sequences, FiniteSets, SequencesExt

CONSTANTS
  Words,
  Inputs,    \* the inputs: one token sequence per SpimiInvert goroutine
  MaxSizes   \* values of maxDynamicPostingListSize

\* A document without a word in the field has no token (SpimiParseOSMNode
\* returns before it counts it); a document is in one buffer.
Token == [doc: Nat, word: Words]

ASSUME SpimiInvertAssumption ==
  /\ \A in \in Inputs :
       /\ in \in Seq(Seq(Token))
       /\ \A b, c \in DOMAIN in : \A i \in DOMAIN in[b], j \in DOMAIN in[c] :
            in[b][i].doc = in[c][j].doc => b = c
  /\ MaxSizes \subseteq Nat \ {0}

VARIABLES
  buffers,        \* the input: goroutine -> tokens of its documents
  maxSize,        \* maxDynamicPostingListSize
  vocab,          \* TermIDMap: the word of ID i is vocab[i + 1]
  stream,         \* goroutine -> the (term, document) pairs parsed so far
  from,           \* goroutine -> the pairs already written to a segment
  finished,       \* the goroutines that are over
  segments,       \* the segments: [list, lenDF]
  phase,          \* of SpimiBatchIndex: "invert", "merge" or "done"
  queue,          \* the priority queue of the merge
  last,           \* lastTerm and lastPosting of Merge
  out,            \* the posting lists appended to the merged index
  lenFieldInDoc   \* the field lengths of the merged index

inputVars  == <<buffers, maxSize>>
invertVars == <<vocab, stream, from, finished, segments>>
mergeVars  == <<queue, last, out, lenFieldInDoc>>
vars == <<inputVars, invertVars, mergeVars, phase>>

NoTerm == [term |-> -1, postings |-> <<>>]
NoLengths == [d \in {} |-> 0]

Init ==
  /\ buffers \in Inputs
  /\ maxSize \in MaxSizes
  /\ vocab = <<>>
  /\ stream = [b \in DOMAIN buffers |-> <<>>]
  /\ from = [b \in DOMAIN buffers |-> 0]
  /\ finished = {}
  /\ segments = <<>>
  /\ phase = "invert"
  /\ queue = {}
  /\ last = NoTerm
  /\ out = <<>>
  /\ lenFieldInDoc = NoLengths

-----------------------------------------------------------------------------
(* SpimiInvert                                                             *)

\* sort.Ints, of a sequence and of the keys of a map.  Sorting puts what is at
\* place i at the place of its rank; equal numbers keep their order.
Rank(s, i) == Cardinality({j \in DOMAIN s : s[j] < s[i] \/ (s[j] = s[i] /\ j <= i)})
Ascending(s) == [k \in DOMAIN s |-> s[CHOOSE i \in DOMAIN s : Rank(s, i) = k]]
Sorted(S) ==
  [k \in 1..Cardinality(S) |-> CHOOSE x \in S : Cardinality({y \in S : y <= x}) = k]

Parsed(b) == Len(stream[b]) = Len(buffers[b])

\* Mutant of NextID: IDs counted from 1.
NextIDFromOne == Len(vocab) + 1

NextID == Len(vocab)

GetID(w) ==
  IF w \in ToSet(vocab) THEN (CHOOSE i \in DOMAIN vocab : vocab[i] = w) - 1 ELSE NextID

\* One word of SpimiParseOSMNode: the dictionary is locked per word, so the
\* goroutines number their words interleaved.
ParseWord(b) ==
  /\ phase = "invert"
  /\ ~Parsed(b)
  /\ LET token == buffers[b][Len(stream[b]) + 1] IN
     /\ stream' = [stream EXCEPT ![b] =
                     Append(@, [term |-> GetID(token.word), doc |-> token.doc])]
     /\ vocab' = IF token.word \in ToSet(vocab) THEN vocab ELSE Append(vocab, token.word)
  /\ UNCHANGED <<inputVars, from, finished, segments, phase, mergeVars>>

\* termToPostingMap after the pairs s: term -> its documents, in stream order.
PostingMap(s) ==
  [t \in {s[i].term : i \in DOMAIN s} |->
     LET places == Sorted({i \in DOMAIN s : s[i].term = t})
     IN [k \in DOMAIN places |-> s[places[k]].doc]]

\* Number of words of each document of the buffer, filled by the parse.
LenDF(b) ==
  [d \in {buffers[b][i].doc : i \in DOMAIN buffers[b]} |->
     Cardinality({i \in DOMAIN buffers[b] : buffers[b][i].doc = d})]

\* The posting lists a flush appends when the postings reach maxSize.  Its loop,
\* "for term := range terms", runs over the indices of the sorted terms, and a
\* term that is not in the map gets an empty list.
ByIndex(map) ==
  [i \in 1..Cardinality(DOMAIN map) |->
     [term |-> i - 1,
      postings |-> IF i - 1 \in DOMAIN map THEN Ascending(map[i - 1]) ELSE <<>>]]

\* Mutant of ByTerm: the terms are not sorted (largest first, say).
Unsorted(map) ==
  LET terms == Reverse(Sorted(DOMAIN map))
  IN [i \in DOMAIN terms |-> [term |-> terms[i], postings |-> Ascending(map[terms[i]])]]

\* The posting lists appended at the end of the stream: "for _, term := range terms".
ByTerm(map) ==
  LET terms == Sorted(DOMAIN map)
  IN [i \in DOMAIN terms |-> [term |-> terms[i], postings |-> Ascending(map[terms[i]])]]

\* The pairs of goroutine b not yet written, and how many there are.
Rest(b)     == SubSeq(stream[b], from[b] + 1, Len(stream[b]))
RestSize(b) == Len(stream[b]) - from[b]

\* The postings in memory reach maxDynamicPostingListSize.
FlushFull(b) ==
  /\ phase = "invert"
  /\ Parsed(b)
  /\ RestSize(b) >= maxSize
  /\ segments' = Append(segments,
       [list |-> ByIndex(PostingMap(SubSeq(Rest(b), 1, maxSize))), lenDF |-> LenDF(b)])
  /\ from' = [from EXCEPT ![b] = @ + maxSize]
  /\ UNCHANGED <<inputVars, vocab, stream, finished, phase, mergeVars>>

\* The end of the stream: the last segment is written even when it is empty.
Finish(b) ==
  /\ phase = "invert"
  /\ b \notin finished
  /\ Parsed(b)
  /\ RestSize(b) < maxSize
  /\ segments' = Append(segments, [list |-> ByTerm(PostingMap(Rest(b))), lenDF |-> LenDF(b)])
  /\ from' = [from EXCEPT ![b] = Len(stream[b])]
  /\ finished' = finished \cup {b}
  /\ UNCHANGED <<inputVars, vocab, stream, phase, mergeVars>>

-----------------------------------------------------------------------------
(* Merge                                                                   *)

\* The queue entry for the list at place i of segment s.
Entry(s, i) == [term |-> segments[s].list[i].term, arrIndex |-> s, insideIndex |-> i]

\* mergeKSortedArray pushes the first posting list of every segment.
StartMerge ==
  /\ phase = "invert"
  /\ finished = DOMAIN buffers
  /\ phase' = "merge"
  /\ queue' = {Entry(s, 1) : s \in {s \in DOMAIN segments : segments[s].list # <<>>}}
  /\ UNCHANGED <<inputVars, invertVars, last, out, lenFieldInDoc>>

\* Mutant of HasNext: the last posting list of a segment is left out.
HasNextButOne(e) == e.insideIndex + 1 < Len(segments[e.arrIndex].list)

\* (insideIndex + 1) < termSize, of the code's zero-based insideIndex.
HasNext(e) == e.insideIndex < Len(segments[e.arrIndex].list)

\* Merge receives a term and its postings: the list of the term before, if it is
\* another one, is complete and goes to the merged index.
Receive(list) ==
  IF list.term = last.term
  THEN last' = [last EXCEPT !.postings = @ \o list.postings] /\ UNCHANGED out
  ELSE /\ last' = list
       /\ out' = IF last.term = -1 THEN out
                 ELSE Append(out, [last EXCEPT !.postings = Ascending(@)])

\* One round of the merge: an entry with the least term (any of them) is popped
\* and yielded to Merge, and the next posting list of its segment is pushed.
Pop(e) ==
  /\ phase = "merge"
  /\ \A other \in queue : e.term <= other.term
  /\ Receive(segments[e.arrIndex].list[e.insideIndex])
  /\ queue' = (queue \ {e}) \cup
                (IF HasNext(e) THEN {Entry(e.arrIndex, e.insideIndex + 1)} ELSE {})
  /\ UNCHANGED <<inputVars, invertVars, phase, lenFieldInDoc>>

LengthIn(s, d) == IF d \in DOMAIN segments[s].lenDF THEN segments[s].lenDF[d] ELSE 0
Docs == UNION {DOMAIN segments[s].lenDF : s \in DOMAIN segments}

\* Mutant of MergeFieldLengths: only the documents of the first segment.
FirstFieldLengths == IF segments = <<>> THEN NoLengths ELSE segments[1].lenDF

\* The lengths a document has in the segments are added up.
MergeFieldLengths ==
  [d \in Docs |-> MapThenSumSet(LAMBDA s : LengthIn(s, d), DOMAIN segments)]

\* The queue is empty: the last term's list is appended, then the lengths are set.
EndMerge ==
  /\ phase = "merge"
  /\ queue = {}
  /\ out' = IF last.term = -1 THEN out
            ELSE Append(out, [last EXCEPT !.postings = Ascending(@)])
  /\ last' = NoTerm
  /\ lenFieldInDoc' = MergeFieldLengths
  /\ phase' = "done"
  /\ UNCHANGED <<inputVars, invertVars, queue>>

Merged == phase = "done" /\ UNCHANGED vars

Next ==
  \/ \E b \in DOMAIN buffers : ParseWord(b) \/ FlushFull(b) \/ Finish(b)
  \/ StartMerge
  \/ \E e \in queue : Pop(e)
  \/ EndMerge
  \/ Merged

Spec == Init /\ [][Next]_vars

-----------------------------------------------------------------------------
(* Properties                                                              *)

TermIDs == 0..(Len(vocab) - 1)
PostingList == [term: TermIDs, postings: Seq(Nat)]

\* The state stays within these values.
TypeOK ==
  /\ buffers \in Inputs /\ maxSize \in MaxSizes
  /\ vocab \in Seq(Words)
  /\ \A b \in DOMAIN buffers :
       /\ stream[b] \in Seq([term: TermIDs, doc: Nat])
       /\ from[b] \in 0..Len(stream[b])
  /\ finished \subseteq DOMAIN buffers
  /\ \A s \in DOMAIN segments : segments[s].list \in Seq(PostingList)
  /\ phase \in {"invert", "merge", "done"}
  /\ \A e \in queue : e = Entry(e.arrIndex, e.insideIndex)
  /\ last \in PostingList \cup {NoTerm}
  /\ out \in Seq(PostingList)
  /\ \A d \in DOMAIN lenFieldInDoc : lenFieldInDoc[d] \in Nat

\* How often a document is in the posting lists of a term.
Hits(term, doc, lists) ==
  {p \in UNION {{i} \X DOMAIN lists[i].postings : i \in DOMAIN lists} :
     lists[p[1]].term = term /\ lists[p[1]].postings[p[2]] = doc}
CountOf(term, doc, lists) == Cardinality(Hits(term, doc, lists))

\* The same for all segments, of which p[1] is the number, ...
SegmentHits(term, doc) ==
  UNION {{s} \X Hits(term, doc, segments[s].list) : s \in DOMAIN segments}

\* ... and those a segment still has to give: from its queue entry on.
Unread(e, p) == p[1] = e.arrIndex /\ p[2][1] >= e.insideIndex
UnreadHits(term, doc) == {p \in SegmentHits(term, doc) : \E e \in queue : Unread(e, p)}

\* At every point of the merge each posting of the segments is at one place: in
\* the merged index, in Merge's last posting list or in the unread part of a
\* segment, of which the queue holds the head.  No list is skipped or taken twice.
MergeConserves ==
  phase # "invert" =>
    \A term \in TermIDs, doc \in Docs :
      Cardinality(SegmentHits(term, doc)) =
        CountOf(term, doc, out) + CountOf(term, doc, <<last>>)
        + Cardinality(UnreadHits(term, doc))

\* The merged index is in strictly ascending term order and nothing still to come
\* is smaller: a term's posting list is complete when it is appended.
MergeAscends ==
  /\ \A i, j \in DOMAIN out : i < j => out[i].term < out[j].term
  /\ last.term # -1 => \A i \in DOMAIN out : out[i].term < last.term
  /\ \A e \in queue : last.term <= e.term

\* How often a document has the word of a term.
Occurrences(term, doc) ==
  Cardinality({p \in UNION {{b} \X DOMAIN buffers[b] : b \in DOMAIN buffers} :
                 buffers[p[1]][p[2]] = [doc |-> doc, word |-> vocab[term + 1]]})

\* No stream reached maxSize: one segment per goroutine.
NoEarlyFlush == \A b \in DOMAIN buffers : Len(buffers[b]) < maxSize

\* When no stream reaches maxSize, the merged index has exactly the posting lists
\* of the documents, whatever IDs the race for the dictionary gave the words: a
\* document as often as it has the word, in ascending order.
MergedExact ==
  phase = "done" /\ NoEarlyFlush =>
    /\ \A term \in TermIDs, doc \in Docs :
         CountOf(term, doc, out) = Occurrences(term, doc)
    /\ \A i \in DOMAIN out : out[i].postings = Ascending(out[i].postings)

\* Likewise, the length of a document is its number of tokens.
LengthsExact ==
  phase = "done" /\ NoEarlyFlush =>
    \A b \in DOMAIN buffers : \A i \in DOMAIN buffers[b] :
      LET d == buffers[b][i].doc IN
        /\ d \in DOMAIN lenFieldInDoc
        /\ lenFieldInDoc[d] = Cardinality({j \in DOMAIN buffers[b] : buffers[b][j].doc = d})

=============================================================================
