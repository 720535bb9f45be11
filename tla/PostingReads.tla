---------------------------- MODULE PostingReads ----------------------------
(***************************************************************************)
(* Queries reading posting lists: Searcher.FreeFormQuery and               *)
(* Searcher.Autocomplete (pkg/searcher/searcher.go), from the terms they   *)
(* settled on to their answer, over InvertedIndex.GetPostingList           *)
(* (pkg/index/inverted_index.go).                                          *)
(*                                                                         *)
(* Each field has one index file, opened once and shared by all requests.  *)
(* GetPostingList seeks in it and then reads from wherever the file's      *)
(* offset is by then.  The HTTP server runs requests concurrently, and one *)
(* autocomplete request runs a goroutine per matched query.                *)
(*                                                                         *)
(* The bytes of a file are told apart by their positions only: a posting   *)
(* list as read is the position and the number of the bytes it came from.  *)
(***************************************************************************)
EXTENDS Integers, Sequences, FiniteSets

CONSTANTS
  Requests,     \* the HTTP requests of a behaviour
  MaxQueries,   \* kAutoComplete, pkg/searcher/spell_corrector.go (3 in the code)
  Shapes,       \* what a request may turn into: [kind, queries]
  Terms,
  Meta,         \* field -> (term -> [start, len]): postingMetadata
  FileLen,      \* field -> number of bytes of the index file
  MayShutdown   \* whether the process may be told to stop

Fields == {"name", "address"}
Kinds  == {"freeform", "autocomplete"}
Query  == Seq(Terms)

ASSUME PostingReadsAssumption ==
  /\ MaxQueries \in Nat \ {0}
  /\ Shapes \subseteq [kind: Kinds, queries: Seq(Query)]
  /\ \A s \in Shapes :
       /\ Len(s.queries) <= MaxQueries
       /\ s.kind = "freeform" => Len(s.queries) = 1
       /\ \A i \in DOMAIN s.queries : s.queries[i] # <<>>
  /\ FileLen \in [Fields -> Nat]
  /\ DOMAIN Meta = Fields
  /\ \A f \in Fields :
       /\ DOMAIN Meta[f] \subseteq Terms
       /\ \A t \in DOMAIN Meta[f] :
            /\ Meta[f][t] \in [start: Nat, len: Nat \ {0}]
            /\ Meta[f][t].start + Meta[f][t].len <= FileLen[f]
  /\ MayShutdown \in BOOLEAN

VARIABLES
  process,  \* the server: "up", told to stop ("stopping"), or "gone"
  offset,   \* field -> the offset of the shared *os.File
  closed,   \* the fields whose file Searcher.Close has closed
  dbClosed, \* the document store is closed
  shape,    \* request -> what it is
  status,   \* request -> "idle", "running" or its outcome
  worker,   \* request -> the goroutines reading its queries' postings
  alone     \* request -> no other goroutine has read while this one did

vars == <<process, offset, closed, dbClosed, shape, status, worker, alone>>

Outcomes == {"answered", "blank", "error", "timeout"}

NoShape == [kind |-> "freeform", queries |-> <<>>]
Unused  == [pc |-> "none", at |-> 1, field |-> "name", got |-> {}]
Fresh   == [Unused EXCEPT !.pc = "seek"]

Init ==
  /\ process = "up"
  /\ offset = [f \in Fields |-> 0]
  /\ closed = {}
  /\ dbClosed = FALSE
  /\ shape = [r \in Requests |-> NoShape]
  /\ status = [r \in Requests |-> "idle"]
  /\ worker = [r \in Requests |-> [i \in 1..MaxQueries |-> Unused]]
  /\ alone = [r \in Requests |-> FALSE]

-----------------------------------------------------------------------------

Active(r, i) == worker[r][i].pc \in {"seek", "read"}
Reading(r)   == \E i \in 1..MaxQueries : Active(r, i)

\* The request's terms are known (spelling corrected, prefixes completed): one
\* query for a free-form request, whose handler reads the postings itself, a
\* goroutine for each matched query of an autocomplete request.
Arrive(r, s) ==
  /\ process # "gone"
  /\ status[r] = "idle"
  /\ status' = [status EXCEPT ![r] = "running"]
  /\ shape' = [shape EXCEPT ![r] = s]
  /\ worker' = [worker EXCEPT ![r] =
                  [i \in 1..MaxQueries |-> IF i <= Len(s.queries) THEN Fresh ELSE Unused]]
  /\ alone' = [q \in Requests |->
                 IF q = r
                 THEN Len(s.queries) <= 1 /\ \A p \in Requests : ~Reading(p)
                 ELSE alone[q] /\ ~Reading(q)]
  /\ UNCHANGED <<process, offset, closed, dbClosed>>

\* The query, the term and the field a goroutine is at.
QueryOf(r, i) == shape[r].queries[i]
TermOf(r, i)  == QueryOf(r, i)[worker[r][i].at]
FieldOf(r, i) == worker[r][i].field
Known(r, i)   == TermOf(r, i) \in DOMAIN Meta[FieldOf(r, i)]
MetaOf(r, i)  == Meta[FieldOf(r, i)][TermOf(r, i)]

\* One posting list more: the name field, then the address field, term by term.
Step(r, i, list) ==
  LET w == worker[r][i]
      got == w.got \cup
               {[term |-> TermOf(r, i), field |-> w.field, start |-> list.start, len |-> list.len]}
  IN worker' = [worker EXCEPT ![r][i] =
       IF w.field = "name" THEN [w EXCEPT !.field = "address", !.pc = "seek", !.got = got]
       ELSE IF w.at < Len(QueryOf(r, i))
       THEN [w EXCEPT !.field = "name", !.at = w.at + 1, !.pc = "seek", !.got = got]
       ELSE [w EXCEPT !.pc = "done", !.got = got]]

\* An error of GetPostingList: FreeFormQuery returns it; a goroutine of
\* Autocomplete sends it to errChan, which is nil there, and blocks for ever.
Fail(r, i) ==
  worker' = [worker EXCEPT ![r][i].pc =
               IF shape[r].kind = "freeform" THEN "failed" ELSE "blocked"]

\* A term without metadata has an empty posting list.
Unknown(r, i) ==
  /\ worker[r][i].pc = "seek"
  /\ ~Known(r, i)
  /\ Step(r, i, [start |-> 0, len |-> 0])
  /\ UNCHANGED <<process, offset, closed, dbClosed, shape, status, alone>>

\* Where GetPostingList seeks to.  NoSeek and StartBack are mutants of StartOf:
\* reading on from the offset, and taking the start for the end of the list.
NoSeek(r, i)    == offset[FieldOf(r, i)]
StartBack(r, i) == MetaOf(r, i).start - MetaOf(r, i).len
StartOf(r, i)   == MetaOf(r, i).start

\* The error of Seek is not looked at.
Seek(r, i) ==
  /\ worker[r][i].pc = "seek"
  /\ Known(r, i)
  /\ offset' = IF FieldOf(r, i) \in closed THEN offset
               ELSE [offset EXCEPT ![FieldOf(r, i)] = StartOf(r, i)]
  /\ worker' = [worker EXCEPT ![r][i].pc = "read"]
  /\ UNCHANGED <<process, closed, dbClosed, shape, status, alone>>

Rest(f) == FileLen[f] - offset[f]

\* Read fills what it can of the buffer, from the shared offset.
Read(r, i) ==
  LET f == FieldOf(r, i)
      n == IF MetaOf(r, i).len <= Rest(f) THEN MetaOf(r, i).len ELSE Rest(f)
  IN
  /\ worker[r][i].pc = "read"
  /\ f \notin closed
  /\ n > 0
  /\ Step(r, i, [start |-> offset[f], len |-> n])
  /\ offset' = [offset EXCEPT ![f] = @ + n]
  /\ UNCHANGED <<process, closed, dbClosed, shape, status, alone>>

\* The file is closed, or its end is reached: io.EOF.
ReadFails(r, i) ==
  /\ worker[r][i].pc = "read"
  /\ FieldOf(r, i) \in closed \/ Rest(FieldOf(r, i)) = 0
  /\ Fail(r, i)
  /\ UNCHANGED <<process, offset, closed, dbClosed, shape, status, alone>>

-----------------------------------------------------------------------------

\* A posting list is the term's own (or empty, for a term without one).
Exact(g) ==
  IF g.term \in DOMAIN Meta[g.field]
  THEN g.start = Meta[g.field][g.term].start /\ g.len = Meta[g.field][g.term].len
  ELSE g.len = 0

Queries(r) == 1..Len(shape[r].queries)

\* Mutant of Finished: the channel is closed by the first goroutine that is done.
AnyFinished(r) == Queries(r) = {} \/ \E i \in Queries(r) : worker[r][i].pc = "done"

Finished(r) == \A i \in Queries(r) : worker[r][i].pc = "done"

\* Every goroutine has sent its scores (the channel has room for all of them)
\* and the documents are loaded.  Document IDs decoded from the bytes of other
\* posting lists may not be in the store: GetDoc fails.  On a closed store it
\* returns documents without content and no error.
Respond(r) ==
  /\ status[r] = "running"
  /\ Finished(r)
  /\ status' \in {[status EXCEPT ![r] = o] : o \in
       IF dbClosed THEN {"answered", "blank"}
       ELSE IF \A i \in Queries(r) : \A g \in worker[r][i].got : Exact(g)
       THEN {"answered"}
       ELSE {"answered", "error"}}
  /\ UNCHANGED <<process, offset, closed, dbClosed, shape, worker, alone>>

\* FreeFormQuery returns the error of its read.
RespondError(r) ==
  /\ status[r] = "running"
  /\ \E i \in Queries(r) : worker[r][i].pc = "failed"
  /\ status' = [status EXCEPT ![r] = "error"]
  /\ UNCHANGED <<process, offset, closed, dbClosed, shape, worker, alone>>

\* Mutant of Stuck: a request with a goroutine that is done is not stuck.
AllStuck(r) == \A i \in Queries(r) : worker[r][i].pc = "blocked"

Stuck(r) == ~Reading(r) /\ \E i \in Queries(r) : worker[r][i].pc = "blocked"

\* http.TimeoutHandler answers 503 after API_TIMEOUT (1000 s): here, when the
\* request cannot make a step of its own any more.  It does so too when the
\* context of the server, which every request's is made from, is cancelled.  The
\* goroutines of the request stay.
Timeout(r) ==
  /\ status[r] = "running"
  /\ Stuck(r) \/ process = "stopping"
  /\ status' = [status EXCEPT ![r] = "timeout"]
  /\ UNCHANGED <<process, offset, closed, dbClosed, shape, worker, alone>>

\* A signal: GracefulShutdown returns in main, which cancels the context.
Shutdown ==
  /\ MayShutdown
  /\ process = "up"
  /\ process' = "stopping"
  /\ UNCHANGED <<offset, closed, dbClosed, shape, status, worker, alone>>

\* main returns right after that: the process ends with all its goroutines, the
\* requests that are running and the closing of the files among them.
Exit ==
  /\ process = "stopping"
  /\ process' = "gone"
  /\ UNCHANGED <<offset, closed, dbClosed, shape, status, worker, alone>>

\* Searcher.Close, in a goroutine of its own once the context is cancelled: it
\* does not wait for the requests.
CloseFile(f) ==
  /\ process = "stopping"
  /\ f \notin closed
  /\ f = "address" => "name" \in closed
  /\ closed' = closed \cup {f}
  /\ UNCHANGED <<process, offset, dbClosed, shape, status, worker, alone>>

CloseStore ==
  /\ process = "stopping"
  /\ ~dbClosed
  /\ dbClosed' = TRUE
  /\ UNCHANGED <<process, offset, closed, shape, status, worker, alone>>

WorkerStep(r, i) ==
  process # "gone" /\ (Unknown(r, i) \/ Seek(r, i) \/ Read(r, i) \/ ReadFails(r, i))
RequestStep(r) ==
  process # "gone" /\ (Respond(r) \/ RespondError(r) \/ Timeout(r))

\* Every request of the behaviour is over, or the process is.
Ended ==
  /\ process = "gone" \/ \A r \in Requests : status[r] \in Outcomes
  /\ UNCHANGED vars

Next ==
  \/ \E r \in Requests, s \in Shapes : Arrive(r, s)
  \/ \E r \in Requests, i \in 1..MaxQueries : WorkerStep(r, i)
  \/ \E r \in Requests : RequestStep(r)
  \/ Shutdown
  \/ Exit
  \/ \E f \in Fields : CloseFile(f)
  \/ CloseStore
  \/ Ended

\* The Go scheduler runs every goroutine that can run as long as there is a
\* process; requests need not come, and the process need not be stopped.
Fairness ==
  /\ \A r \in Requests, i \in 1..MaxQueries : WF_vars(WorkerStep(r, i))
  /\ \A r \in Requests : WF_vars(RequestStep(r))

Spec == Init /\ [][Next]_vars
FairSpec == Spec /\ Fairness

-----------------------------------------------------------------------------
(* Properties                                                              *)

List == [term: Terms, field: Fields, start: Nat, len: Nat]

\* The state stays within these values.
TypeOK ==
  /\ process \in {"up", "stopping", "gone"}
  /\ offset \in [Fields -> Nat]
  /\ closed \subseteq Fields
  /\ dbClosed \in BOOLEAN
  /\ shape \in [Requests -> Shapes \cup {NoShape}]
  /\ status \in [Requests -> {"idle", "running"} \cup Outcomes]
  /\ worker \in [Requests -> [1..MaxQueries ->
       [pc: {"none", "seek", "read", "done", "failed", "blocked"},
        at: Nat \ {0}, field: Fields, got: SUBSET List]]]
  /\ alone \in [Requests -> BOOLEAN]

\* A request that had the index files to itself scored the posting lists of its
\* own terms: the Seek of each GetPostingList was still good at its Read.
ExactWhenAlone ==
  \A r \in Requests : alone[r] =>
    \A i \in 1..MaxQueries : \A g \in worker[r][i].got : Exact(g)

\* A request that had the index files to itself, the files open, does not fail:
\* no Read of its own finds the end of the file.  Nor does it run into the
\* timeout, unless the server was told to stop.
AloneSucceeds ==
  \A r \in Requests : alone[r] /\ closed = {} =>
    /\ status[r] # "error"
    /\ status[r] = "timeout" => process # "up"

\* An answer comes after both fields of every term of every query were read, the
\* goroutines of Autocomplete included, and none of them is still reading.
AnswerComplete ==
  \A r \in Requests : status[r] \in {"answered", "blank"} =>
    \A i \in Queries(r) : \A j \in DOMAIN QueryOf(r, i) : \A f \in Fields :
      \E g \in worker[r][i].got : g.term = QueryOf(r, i)[j] /\ g.field = f

\* A request that came gets an outcome, if only the timeout, unless the process
\* ends under it: main does not wait for the requests that are running.
RequestsEnd ==
  \A r \in Requests :
    status[r] = "running" ~> status[r] \in Outcomes \/ process = "gone"

\* "assert.Equal(t, []int{1, 2, 3, 4, 5}, postings)": GetPostingList returns the
\* posting list of the term.
ExactReads ==
  \A r \in Requests : \A i \in 1..MaxQueries : \A g \in worker[r][i].got : Exact(g)

\* "check(res, { 200: (r) => r.status === 200 })": with the files open, an
\* autocomplete request is answered.
AutocompleteAnswered ==
  \A r \in Requests :
    status[r] = "running" /\ shape[r].kind = "autocomplete"
      ~> status[r] = "answered"

=============================================================================
