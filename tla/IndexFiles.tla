---------------------------- MODULE IndexFiles -----------------------------
(***************************************************************************)
(* The files of an index and the two programs that use them: the indexer   *)
(* (cmd/indexing), run after run over the same directory, and the server   *)
(* (cmd/server), which loads them and on shutdown rewrites the metadata of *)
(* both fields.  Either program may be killed between any two writes.      *)
(*                                                                         *)
(* The index file of a field is appended to and never truncated; its       *)
(* metadata says where the posting list of each term starts.  Metadata,    *)
(* the size of the metadata, and the files that hold one value each are    *)
(* truncated and then written.  A program is the sequence of its steps on  *)
(* files; one step is one system call.  A file holds the run that wrote it,*)
(* a metadata file a record, a size file a number.                         *)
(*                                                                         *)
(* The operator starts a program when the other one has ended: both hold   *)
(* the lock of the document store while they work.  Left out: the average  *)
(* field length, and the files of the segments, which every run writes     *)
(* before it reads them.                                                   *)
(***************************************************************************)
EXTENDS Integers, Sequences, FiniteSets

CONSTANTS
  MaxRuns,    \* bound on the runs of the indexer
  Vocabulary, \* Vocabulary[r]: the terms of run r, in the order of the merge
  Empty       \* the content of an empty or absent file

Terms == UNION {{Vocabulary[r][i] : i \in DOMAIN Vocabulary[r]} : r \in 1..MaxRuns}

ASSUME IndexFilesAssumption ==
  /\ MaxRuns \in Nat \ {0}
  /\ DOMAIN Vocabulary = 1..MaxRuns
  /\ \A r \in 1..MaxRuns : Vocabulary[r] \in Seq(Terms)

\* What the programs write is never the content of an empty file: every encoding
\* has at least one byte.
ASSUME EmptyAssumption ==
  Empty \notin Nat \cup [run: 1..MaxRuns, pos: UNION {[T -> Nat] : T \in SUBSET Terms}]

Fields == {"name", "address"}
Shared == {"noisy_model", "docs_store", "rtree", "ngram", "meta"}
Files  == (Shared \X {"all"}) \cup ({"metadata", "size"} \X Fields)
Procs  == {"indexer", "server"}

VARIABLES
  disk,     \* disk[x]: the content of file x
  index,    \* index[f]: the posting lists in the index file of field f, as [run, term]
  run,      \* number of runs of the indexer so far
  pc,       \* pc[p]: the step of its program p is at; 0 when p is not running
  held,     \* held[p][x]: what p has in memory for file x
  appended, \* number of posting lists AppendPostingList wrote to the current field
  outcome,  \* of the last start of the server: "none", "up", "refused", "panicked"
  complete, \* the last run of the indexer came to its end
  cut       \* the server was killed in Searcher.Close after that run

vars == <<disk, index, run, pc, held, appended, outcome, complete, cut>>

-----------------------------------------------------------------------------
(* Programs                                                                *)

Do(what, kind, f) == [do |-> what, file |-> <<kind, f>>]

Replace(kind, f) == <<Do("truncate", kind, f), Do("write", kind, f)>>

\* Mutant: Close returns before it has written the size.
CloseWithoutSize(f) == Replace("metadata", f) \o <<Do("truncate", "size", f)>>

\* InvertedIndex.Close
CloseSteps(f) == Replace("metadata", f) \o Replace("size", f)

\* InvertedIndex.OpenReader
OpenSteps(f) == <<Do("read", "size", f), Do("read", "metadata", f)>>

\* Mutant: the last flush does not save its documents.
StepsWithoutDocs ==
  Replace("noisy_model", "all") \o <<Do("write", "rtree", "all")>>
    \o <<Do("append", "metadata", "name")>> \o CloseSteps("name")
    \o <<Do("append", "metadata", "address")>> \o CloseSteps("address")
    \o Replace("ngram", "all") \o Replace("meta", "all")

\* SaveNoisyChannelModelData, SaveDocs, SerializeRtreeData, the merge of each
\* field, SaveNGramData and, deferred to the end of main, SaveMeta.
IndexerSteps ==
  Replace("noisy_model", "all")
    \o <<Do("write", "docs_store", "all"), Do("write", "rtree", "all")>>
    \o <<Do("append", "metadata", "name")>> \o CloseSteps("name")
    \o <<Do("append", "metadata", "address")>> \o CloseSteps("address")
    \o Replace("ngram", "all") \o Replace("meta", "all")

\* LoadMeta, LoadNGramData, LoadMainIndex, LoadNoisyChannelData; then requests
\* until the shutdown; then Searcher.Close.
ServerSteps ==
  <<Do("read", "meta", "all"), Do("read", "ngram", "all")>>
    \o OpenSteps("name") \o OpenSteps("address")
    \o <<Do("read", "rtree", "all"), Do("read", "noisy_model", "all"),
         Do("serve", "docs_store", "all")>>
    \o CloseSteps("name") \o CloseSteps("address")

Program(p) == IF p = "indexer" THEN IndexerSteps ELSE ServerSteps

At(p, what) == pc[p] # 0 /\ Program(p)[pc[p]].do = what
File(p)     == Program(p)[pc[p]].file

\* Mutant: a program that does not end.
NextPcForEver(p) == pc[p] + 1

\* To the next step of p; after the last one p ends.
NextPc(p) == IF pc[p] = Len(Program(p)) THEN 0 ELSE pc[p] + 1

\* SerializeMetadata makes a buffer in proportion to the terms.
MetadataSize(md) == 1 + Cardinality(DOMAIN md.pos)

\* Mutant: the size is taken before the last term is added.
OutputShort(p, x) ==
  IF x[1] = "size" THEN Cardinality(DOMAIN held[p][<<"metadata", x[2]>>].pos)
                   ELSE held[p][x]

\* What p writes to file x.
Output(p, x) ==
  IF x[1] = "size" THEN MetadataSize(held[p][<<"metadata", x[2]>>]) ELSE held[p][x]

Init ==
  /\ disk = [x \in Files |-> Empty]
  /\ index = [f \in Fields |-> <<>>]
  /\ run = 0
  /\ pc = [p \in Procs |-> 0]
  /\ held = [p \in Procs |-> [x \in Files |-> Empty]]
  /\ appended = 0
  /\ outcome = "none"
  /\ complete = FALSE /\ cut = FALSE

-----------------------------------------------------------------------------
(* Steps on files                                                          *)

Truncate(p) ==
  /\ At(p, "truncate")
  /\ disk' = [disk EXCEPT ![File(p)] = Empty]
  /\ pc' = [pc EXCEPT ![p] = NextPc(p)]
  /\ UNCHANGED <<index, run, held, appended, outcome, complete, cut>>

\* The end of SaveMeta, the last write of a run, completes it.
Write(p) ==
  /\ At(p, "write")
  /\ disk' = [disk EXCEPT ![File(p)] = Output(p, File(p))]
  /\ pc' = [pc EXCEPT ![p] = NextPc(p)]
  /\ complete' = (complete \/ (p = "indexer" /\ NextPc(p) = 0))
  /\ UNCHANGED <<index, run, held, appended, outcome, cut>>

\* Mutant: the position counts the posting lists of this run only.
StartInRun(f) == appended + 1

\* Seek(0, 2): the end of the file, whatever is in it.
StartPosition(f) == Len(index[f]) + 1

\* AppendPostingList: the position goes to postingMetadata.
AppendPostingList(f) ==
  LET md == held["indexer"][<<"metadata", f>>]
      t  == Vocabulary[run][appended + 1]
  IN  /\ At("indexer", "append") /\ File("indexer")[2] = f
      /\ appended < Len(Vocabulary[run])
      /\ index' = [index EXCEPT ![f] = Append(@, [run |-> run, term |-> t])]
      /\ held' = [held EXCEPT !["indexer"][<<"metadata", f>>] =
                    [md EXCEPT !.pos = [u \in DOMAIN md.pos \cup {t} |->
                       IF u = t THEN StartPosition(f) ELSE md.pos[u]]]]
      /\ appended' = appended + 1
      /\ UNCHANGED <<disk, run, pc, outcome, complete, cut>>

\* The merge of a field is at its end.
EndMerge ==
  /\ At("indexer", "append") /\ appended = Len(Vocabulary[run])
  /\ appended' = 0
  /\ pc' = [pc EXCEPT !["indexer"] = NextPc("indexer")]
  /\ UNCHANGED <<disk, index, run, held, outcome, complete, cut>>

-----------------------------------------------------------------------------
(* The server                                                              *)

Stop(o) ==
  /\ outcome' = o
  /\ pc' = [pc EXCEPT !["server"] = 0]
  /\ held' = [held EXCEPT !["server"] = [x \in Files |-> Empty]]

\* Reading or decoding an empty file is an error that New returns and main
\* panics with.
Refuse ==
  /\ At("server", "read") /\ disk[File("server")] = Empty
  /\ Stop("refused")
  /\ UNCHANGED <<disk, index, run, appended, complete, cut>>

\* DeserializeMetadata reads behind a buffer that is too short for the metadata.
ShortBuffer ==
  LET x == File("server")
  IN  /\ x[1] = "metadata"
      /\ held["server"][<<"size", x[2]>>] < MetadataSize(disk[x])

DeserializePanics ==
  /\ At("server", "read") /\ disk[File("server")] # Empty /\ ShortBuffer
  /\ Stop("panicked")
  /\ UNCHANGED <<disk, index, run, appended, complete, cut>>

\* The server starts to serve after the last read.
Load ==
  LET x == File("server")
  IN  /\ At("server", "read") /\ disk[x] # Empty /\ ~ShortBuffer
      /\ held' = [held EXCEPT !["server"][x] = disk[x]]
      /\ pc' = [pc EXCEPT !["server"] = @ + 1]
      /\ outcome' = IF ServerSteps[pc["server"] + 1].do = "serve" THEN "up" ELSE outcome
      /\ UNCHANGED <<disk, index, run, appended, complete, cut>>

\* A signal cancels the context: Searcher.Close starts.
Shutdown ==
  /\ At("server", "serve")
  /\ pc' = [pc EXCEPT !["server"] = @ + 1]
  /\ outcome' = "none"
  /\ UNCHANGED <<disk, index, run, held, appended, complete, cut>>

-----------------------------------------------------------------------------
(* Starts and ends of the programs                                         *)

StartIndexer ==
  /\ \A p \in Procs : pc[p] = 0
  /\ run < MaxRuns
  /\ run' = run + 1
  /\ held' = [held EXCEPT !["indexer"] = [x \in Files |->
                CASE x[1] = "metadata" -> [run |-> run + 1, pos |-> <<>>]
                  [] x[1] = "size"     -> Empty
                  [] OTHER             -> run + 1]]
  /\ pc' = [pc EXCEPT !["indexer"] = 1]
  /\ complete' = FALSE /\ cut' = FALSE
  /\ outcome' = "none"
  /\ appended' = 0
  /\ UNCHANGED <<disk, index>>

StartServer ==
  /\ \A p \in Procs : pc[p] = 0
  /\ pc' = [pc EXCEPT !["server"] = 1]
  /\ held' = [held EXCEPT !["server"] = [x \in Files |-> Empty]]
  /\ outcome' = "none"
  /\ UNCHANGED <<disk, index, run, appended, complete, cut>>

\* A process is killed, or main returns while the goroutine that runs
\* Searcher.Close is still at work.
Kill(p) ==
  /\ pc[p] # 0
  /\ pc' = [pc EXCEPT ![p] = 0]
  /\ cut' = (cut \/ (p = "server" /\ (At(p, "truncate") \/ At(p, "write"))))
  /\ outcome' = "none"
  /\ UNCHANGED <<disk, index, run, held, appended, complete>>

Next ==
  \/ \E p \in Procs : Truncate(p) \/ Write(p) \/ Kill(p)
  \/ \E f \in Fields : AppendPostingList(f)
  \/ EndMerge
  \/ Refuse \/ DeserializePanics \/ Load \/ Shutdown
  \/ StartIndexer \/ StartServer

Spec == Init /\ [][Next]_vars

-----------------------------------------------------------------------------
(* Properties                                                              *)

Runs     == 1..MaxRuns
IsMetadata(c) ==
  /\ c = [run |-> c.run, pos |-> c.pos]
  /\ c.run \in Runs
  /\ DOMAIN c.pos \subseteq Terms /\ IsFiniteSet(DOMAIN c.pos)
  /\ c.pos \in [DOMAIN c.pos -> Nat \ {0}]

\* c is a content that file x can have.
Fits(x, c) ==
  \/ c = Empty
  \/ x[1] = "metadata" /\ IsMetadata(c)
  \/ x[1] = "size" /\ c \in Nat \ {0}
  \/ x[2] = "all" /\ c \in Runs

DiskType == disk = [x \in Files |-> disk[x]] /\ \A x \in Files : Fits(x, disk[x])
HeldType ==
  /\ held = [p \in Procs |-> [x \in Files |-> held[p][x]]]
  /\ \A p \in Procs, x \in Files : Fits(x, held[p][x])
PcType == pc \in [Procs -> Nat] /\ \A p \in Procs : pc[p] <= Len(Program(p))

\* Every file and every memory holds what its kind can hold; every program
\* counter is in its program.
TypeOK ==
  /\ DiskType /\ HeldType /\ PcType
  /\ index \in [Fields -> Seq([run: Runs, term: Terms])]
  /\ run \in 0..MaxRuns /\ appended \in Nat
  /\ outcome \in {"none", "up", "refused", "panicked"}
  /\ complete \in BOOLEAN /\ cut \in BOOLEAN

InPlace(f, md) ==
  \A t \in DOMAIN md.pos :
    /\ md.pos[t] \in DOMAIN index[f]
    /\ index[f][md.pos[t]] = [run |-> md.run, term |-> t]

\* Metadata on disk leads to the posting lists of the run that wrote it, after
\* every kill and while a later run appends to the same index file: that file
\* is never truncated.
PostingsInPlace ==
  \A f \in Fields :
    LET md == disk[<<"metadata", f>>] IN md # Empty => InPlace(f, md)

RunOf(x, c) == IF x[1] = "metadata" THEN c.run ELSE c

\* No run is left half done over the files of an earlier one.
Intact == complete \/ run = 1

\* A server that comes up serves a completed run, and everything it has loaded,
\* and the documents, are of that run, however often the indexer or a server
\* was killed before, unless a rerun of the indexer was killed.
ServesOneRun ==
  outcome = "up" /\ Intact =>
    /\ complete
    /\ \A x \in Files :
         \/ x[1] = "size"
         \/ x[1] = "docs_store" /\ disk[x] = run
         \/ held["server"][x] # Empty /\ RunOf(x, held["server"][x]) = run

\* A server fails to start only when the last run was not completed or a server
\* was killed while it rewrote the metadata: shutdowns that come to their end
\* leave files that open again.
RefusesWithReason == outcome = "refused" => ~complete \/ cut

\* The size file is never too small for the metadata, unless a rerun of the
\* indexer was killed between them: DeserializeMetadata stays in its buffer.
OpensInBuffer == outcome = "panicked" => ~Intact

=============================================================================
