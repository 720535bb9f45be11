------------------------ MODULE PostingReads_proofs -------------------------
(***************************************************************************)
(* Theorems about PostingReads, for every set of requests, every content   *)
(* of the index files and every number of queries of a request.            *)
(*                                                                         *)
(* The argument for ExactWhenAlone: while a request that has the files to  *)
(* itself is reading, nobody else has a GetPostingList under way (Sole),   *)
(* so the offset its Seek set is still there at its Read (Sought).  For    *)
(* the same reason that Read finds all of its bytes (Unfailed).            *)
(***************************************************************************)
EXTENDS PostingReads, TLAPS

Worker == [pc: {"none", "seek", "read", "done", "failed", "blocked"},
           at: Nat \ {0}, field: Fields, got: SUBSET List]

\* A goroutine that is reading is at a term of a query of its request, and it
\* reads only what has metadata.
Placed ==
  \A r \in Requests, i \in 1..MaxQueries : Active(r, i) =>
    /\ i \in Queries(r)
    /\ worker[r][i].at \in 1..Len(QueryOf(r, i))
    /\ worker[r][i].pc = "read" => Known(r, i)

\* A goroutine reading for a request that is alone is the only one.
Sole ==
  \A r \in Requests, i \in 1..MaxQueries : alone[r] /\ Active(r, i) =>
    \A q \in Requests, j \in 1..MaxQueries : Active(q, j) => q = r /\ j = i

\* Its offset is where it sought, unless the file was closed meanwhile.
Sought ==
  \A r \in Requests, i \in 1..MaxQueries :
    alone[r] /\ worker[r][i].pc = "read" =>
      FieldOf(r, i) \in closed \/ offset[FieldOf(r, i)] = MetaOf(r, i).start

IInv == TypeOK /\ Placed /\ Sole /\ Sought /\ ExactWhenAlone

\* Nothing of a request that is alone has failed.
Unfailed ==
  \A r \in Requests : alone[r] /\ closed = {} =>
    /\ status[r] # "error"
    /\ status[r] = "timeout" => process # "up"
    /\ \A i \in 1..MaxQueries : worker[r][i].pc \notin {"failed", "blocked"}

\* A goroutine that is at term j has a list of each term before it, and the name's
\* list of term j when it is at the address.
Has(w, t, f) == \E g \in w.got : g.term = t /\ g.field = f

Past(w, j, f) ==
  w.pc = "done" \/ j < w.at \/ (j = w.at /\ f = "name" /\ w.field = "address")

Collected ==
  \A r \in Requests, i \in 1..MaxQueries :
    worker[r][i].pc \in {"seek", "read", "done"} =>
      \A j \in DOMAIN QueryOf(r, i), f \in Fields :
        Past(worker[r][i], j, f) => Has(worker[r][i], QueryOf(r, i)[j], f)

\* An answer waits for every goroutine.
Awaited ==
  \A r \in Requests : status[r] \in {"answered", "blank"} => Finished(r)

Progress == Unfailed /\ Collected /\ Awaited

\* A query of a shape is a non-empty sequence of terms.
LEMMA QueryTerms ==
  ASSUME NEW s \in Shapes, NEW i \in 1..Len(s.queries)
  PROVE  /\ i \in 1..MaxQueries
         /\ s.queries[i] \in Seq(Terms)
         /\ Len(s.queries[i]) > 0
<1>1. /\ s \in [kind: Kinds, queries: Seq(Query)]
      /\ Len(s.queries) <= MaxQueries
      /\ \A k \in DOMAIN s.queries : s.queries[k] # <<>>
  BY PostingReadsAssumption
<1>2. s.queries \in Seq(Seq(Terms))
  BY <1>1 DEF Query
<1>3. s.queries[i] \in Seq(Terms) /\ s.queries[i] # <<>>
  BY <1>1, <1>2
<1>4. Len(s.queries) \in Nat /\ MaxQueries \in Nat
  BY <1>2, PostingReadsAssumption
<1>. QED  BY <1>1, <1>3, <1>4

\* The metadata of a posting list: where it starts and a positive length.
LEMMA MetaType ==
  ASSUME NEW f \in Fields, NEW t \in DOMAIN Meta[f]
  PROVE  t \in Terms /\ Meta[f][t].start \in Nat /\ Meta[f][t].len \in Nat \ {0}
BY PostingReadsAssumption

LEMMA WorkerType ==
  ASSUME TypeOK
  PROVE  worker \in [Requests -> [1..MaxQueries -> Worker]]
BY DEF TypeOK, Worker

\* Replacing the state of one goroutine leaves the others as they are.
LEMMA WorkerUpdate ==
  ASSUME TypeOK, NEW r \in Requests, NEW i \in 1..MaxQueries, NEW w \in Worker,
         worker' = [worker EXCEPT ![r][i] = w]
  PROVE  /\ worker' \in [Requests -> [1..MaxQueries -> Worker]]
         /\ worker'[r][i] = w
         /\ \A q \in Requests, j \in 1..MaxQueries :
              ~(q = r /\ j = i) => worker'[q][j] = worker[q][j]
<1>1. worker \in [Requests -> [1..MaxQueries -> Worker]]
  BY WorkerType
<1>2. [worker[r] EXCEPT ![i] = w] \in [1..MaxQueries -> Worker]
  BY <1>1
<1>3. worker' = [worker EXCEPT ![r] = [worker[r] EXCEPT ![i] = w]]
  OBVIOUS
<1>. QED  BY <1>1, <1>2, <1>3

\* What a goroutine becomes when it has one posting list more.
Advanced(r, i, list) ==
  LET w == worker[r][i]
      got == w.got \cup
               {[term |-> TermOf(r, i), field |-> w.field, start |-> list.start, len |-> list.len]}
  IN IF w.field = "name" THEN [w EXCEPT !.field = "address", !.pc = "seek", !.got = got]
     ELSE IF w.at < Len(QueryOf(r, i))
     THEN [w EXCEPT !.field = "name", !.at = w.at + 1, !.pc = "seek", !.got = got]
     ELSE [w EXCEPT !.pc = "done", !.got = got]

\* The term a reading goroutine is at is a term.
LEMMA ActiveTerm ==
  ASSUME TypeOK, Placed, NEW r \in Requests, NEW i \in 1..MaxQueries, Active(r, i)
  PROVE  /\ worker[r][i] \in Worker
         /\ TermOf(r, i) \in Terms
         /\ Len(QueryOf(r, i)) \in Nat
<1>1. worker[r][i] \in Worker
  BY WorkerType
<1>2. i \in 1..Len(shape[r].queries) /\ worker[r][i].at \in 1..Len(QueryOf(r, i))
  BY DEF Placed, Queries
<1>3. shape[r] \in Shapes
  <2>1. CASE shape[r] = NoShape
    <3>1. Len(shape[r].queries) = 0
      BY <2>1 DEF NoShape
    <3>. QED  BY <3>1, <1>2
  <2>. QED  BY <2>1 DEF TypeOK
<1>4. QueryOf(r, i) \in Seq(Terms)
  BY <1>2, <1>3, QueryTerms DEF QueryOf
<1>. QED  BY <1>1, <1>2, <1>4 DEF TermOf


LEMMA StepAdvances ==
  ASSUME NEW r \in Requests, NEW i \in 1..MaxQueries, NEW list, Step(r, i, list)
  PROVE  worker' = [worker EXCEPT ![r][i] = Advanced(r, i, list)]
BY DEF Step, Advanced

LEMMA AdvancedType ==
  ASSUME IInv, NEW r \in Requests, NEW i \in 1..MaxQueries, Active(r, i),
         NEW list, list.start \in Nat, list.len \in Nat
  PROVE  Advanced(r, i, list) \in Worker
<1>1. /\ worker[r][i] \in Worker
      /\ TermOf(r, i) \in Terms
      /\ Len(QueryOf(r, i)) \in Nat
  BY ActiveTerm DEF IInv
<1>2. [term |-> TermOf(r, i), field |-> worker[r][i].field,
       start |-> list.start, len |-> list.len] \in List
  BY <1>1 DEF List, Worker
<1>. DEFINE w == worker[r][i]
            got == w.got \cup {[term |-> TermOf(r, i), field |-> w.field,
                                start |-> list.start, len |-> list.len]}
<1>3. got \in SUBSET List
  BY <1>1, <1>2 DEF Worker
<1>4. w.at + 1 \in Nat \ {0} /\ "address" \in Fields /\ "name" \in Fields
  BY <1>1 DEF Worker, Fields
<1>. HIDE DEF got
<1>5. /\ [w EXCEPT !.field = "address", !.pc = "seek", !.got = got] \in Worker
      /\ [w EXCEPT !.field = "name", !.at = w.at + 1, !.pc = "seek", !.got = got] \in Worker
      /\ [w EXCEPT !.pc = "done", !.got = got] \in Worker
  BY <1>1, <1>3, <1>4 DEF Worker
<1>. QED  BY <1>5 DEF Advanced, got

\* A goroutine that reads one posting list more, exactly its term's if it is alone,
\* keeps the invariant: no other goroutine of a request that is alone is reading.
LEMMA AdvanceKeeps ==
  ASSUME IInv, NEW r \in Requests, NEW i \in 1..MaxQueries, Active(r, i),
         NEW list, list.start \in Nat, list.len \in Nat,
         Step(r, i, list),
         offset' \in [Fields -> Nat],
         UNCHANGED <<process, closed, dbClosed, shape, status, alone>>,
         alone[r] => Exact([term |-> TermOf(r, i), field |-> FieldOf(r, i),
                            start |-> list.start, len |-> list.len])
  PROVE  IInv'
<1>. DEFINE w == Advanced(r, i, list)
            g == [term |-> TermOf(r, i), field |-> FieldOf(r, i),
                  start |-> list.start, len |-> list.len]
<1>. USE DEF IInv
<1>1. w \in Worker /\ worker' = [worker EXCEPT ![r][i] = w]
  BY AdvancedType, StepAdvances
<1>2. /\ worker' \in [Requests -> [1..MaxQueries -> Worker]]
      /\ worker'[r][i] = w
      /\ \A q \in Requests, j \in 1..MaxQueries :
           ~(q = r /\ j = i) => worker'[q][j] = worker[q][j]
  BY <1>1, WorkerUpdate, ZenonT(60)
<1>3. /\ worker[r][i] \in Worker /\ Len(QueryOf(r, i)) \in Nat
      /\ worker[r][i].at \in 1..Len(QueryOf(r, i))
  BY ActiveTerm DEF Placed
<1>4. /\ w.pc \in {"seek", "done"}
      /\ w.got = worker[r][i].got \cup {g}
      /\ w.pc = "seek" => w.at \in 1..Len(QueryOf(r, i))
  BY <1>3 DEF Advanced, Worker, FieldOf, Fields
<1>5. \A q \in Requests, j \in 1..MaxQueries : Active(q, j)' => Active(q, j)
  BY <1>2 DEF Active
<1>6. \A q \in Requests, j \in 1..MaxQueries :
        ~(q = r /\ j = i) /\ alone[q] => ~Active(q, j)
  BY DEF Sole
<1>7. TypeOK'
  BY <1>2 DEF TypeOK, Worker
<1>8. Placed'
  <2>. SUFFICES ASSUME NEW q \in Requests, NEW j \in 1..MaxQueries, Active(q, j)'
                PROVE  /\ j \in Queries(q)'
                       /\ worker'[q][j].at \in 1..Len(QueryOf(q, j)')
                       /\ worker'[q][j].pc = "read" => Known(q, j)'
    BY DEF Placed
  <2>1. Active(q, j) /\ j \in Queries(q) /\ Queries(q)' = Queries(q) /\ QueryOf(q, j)' = QueryOf(q, j)
    BY <1>5 DEF Placed, Queries, QueryOf
  <2>2. CASE q = r /\ j = i
    BY <1>2, <1>4, <2>1, <2>2 DEF Active
  <2>3. CASE ~(q = r /\ j = i)
    <3>1. worker'[q][j] = worker[q][j]
      BY <1>2, <2>3
    <3>. QED  BY <2>1, <3>1 DEF Placed, Known, TermOf, FieldOf
  <2>. QED  BY <2>2, <2>3
<1>9. Sole'
  BY <1>5 DEF Sole
<1>10. Sought'
  <2>. SUFFICES ASSUME NEW q \in Requests, NEW j \in 1..MaxQueries,
                       alone[q], worker'[q][j].pc = "read"
                PROVE  FALSE
    BY DEF Sought
  <2>1. Active(q, j)'
    BY DEF Active
  <2>2. q = r /\ j = i
    BY <1>5, <1>6, <2>1
  <2>. QED  BY <1>2, <1>4, <2>2
<1>11. ExactWhenAlone'
  <2>. SUFFICES ASSUME NEW q \in Requests, alone[q], NEW j \in 1..MaxQueries,
                       NEW h \in worker'[q][j].got
                PROVE  Exact(h)
    BY DEF ExactWhenAlone, Exact
  <2>1. CASE q = r /\ j = i
    BY <1>2, <1>4, <2>1 DEF ExactWhenAlone
  <2>2. CASE ~(q = r /\ j = i)
    BY <1>2, <2>2 DEF ExactWhenAlone
  <2>. QED  BY <2>1, <2>2
<1>. QED  BY <1>7, <1>8, <1>9, <1>10, <1>11

\* Steps that leave the goroutines, their requests' shapes and the offsets alone.
LEMMA OutcomeKeeps ==
  ASSUME IInv, UNCHANGED <<offset, shape, worker, alone>>,
         closed \subseteq closed', closed' \subseteq Fields, dbClosed' \in BOOLEAN,
         process' \in {"up", "stopping", "gone"},
         status' \in [Requests -> {"idle", "running"} \cup Outcomes]
  PROVE  IInv'
<1>1. TypeOK'
  BY DEF IInv, TypeOK
<1>2. Placed'
  BY DEF IInv, Placed, Active, Queries, QueryOf, Known, TermOf, FieldOf
<1>3. Sole'
  BY DEF IInv, Sole, Active
<1>4. Sought'
  BY DEF IInv, Sought, FieldOf, MetaOf, TermOf, QueryOf
<1>5. ExactWhenAlone'
  BY DEF IInv, ExactWhenAlone, Exact
<1>. QED  BY <1>1, <1>2, <1>3, <1>4, <1>5 DEF IInv

\* A request arrives: it is alone if nobody is reading, and whoever is reading no
\* longer is.
LEMMA ArriveKeeps ==
  ASSUME IInv, NEW r \in Requests, NEW s \in Shapes, Arrive(r, s)
  PROVE  IInv'
<1>. USE DEF IInv
<1>. DEFINE ws == [i \in 1..MaxQueries |-> IF i <= Len(s.queries) THEN Fresh ELSE Unused]
<1>1. Unused \in Worker /\ Fresh \in Worker /\ Fresh.pc = "seek" /\ Fresh.at = 1
      /\ Unused.pc = "none" /\ Unused.got = {} /\ Fresh.got = {}
  BY DEF Unused, Fresh, Worker, Fields
<1>2. /\ worker' = [worker EXCEPT ![r] = ws]
      /\ shape' = [shape EXCEPT ![r] = s]
      /\ UNCHANGED <<process, offset, closed, dbClosed>>
  BY DEF Arrive
<1>3. /\ worker'[r] = ws
      /\ shape'[r] = s
      /\ \A q \in Requests \ {r} : worker'[q] = worker[q] /\ shape'[q] = shape[q]
  BY <1>2, WorkerType DEF TypeOK
<1>4. /\ alone' \in [Requests -> BOOLEAN]
      /\ alone'[r] => Len(s.queries) <= 1 /\ \A p \in Requests : ~Reading(p)
      /\ \A q \in Requests \ {r} : alone'[q] => alone[q] /\ ~Reading(q)
  BY DEF Arrive, TypeOK, Reading
<1>5. \A i \in 1..MaxQueries : Active(r, i)' =>
        /\ i <= Len(s.queries)
        /\ worker'[r][i] = Fresh
  BY <1>1, <1>3 DEF Active
<1>6. \A q \in Requests \ {r}, j \in 1..MaxQueries :
        /\ Active(q, j)' => Active(q, j)
        /\ alone'[q] => ~Active(q, j)
  BY <1>3, <1>4 DEF Active, Reading
<1>7. TypeOK'
  <2>1. worker' \in [Requests -> [1..MaxQueries -> Worker]]
    BY <1>1, <1>2, WorkerType
  <2>2. status' \in [Requests -> {"idle", "running"} \cup Outcomes]
    BY DEF Arrive, TypeOK
  <2>3. shape' \in [Requests -> Shapes \cup {NoShape}]
    BY <1>2 DEF TypeOK
  <2>. QED  BY <1>2, <1>4, <2>1, <2>2, <2>3 DEF TypeOK, Worker
<1>8. Placed'
  <2>. SUFFICES ASSUME NEW q \in Requests, NEW j \in 1..MaxQueries, Active(q, j)'
                PROVE  /\ j \in Queries(q)'
                       /\ worker'[q][j].at \in 1..Len(QueryOf(q, j)')
                       /\ worker'[q][j].pc = "read" => Known(q, j)'
    BY DEF Placed
  <2>1. CASE q = r
    <3>1. j <= Len(s.queries) /\ worker'[r][j] = Fresh
      BY <1>5, <2>1
    <3>2. s.queries \in Seq(Query) /\ Len(s.queries) \in Nat
      BY PostingReadsAssumption
    <3>3. j \in 1..Len(s.queries)
      BY <3>1, <3>2, PostingReadsAssumption
    <3>4. s.queries[j] \in Seq(Terms) /\ Len(s.queries[j]) > 0
      BY <3>3, QueryTerms
    <3>5. 1 \in 1..Len(s.queries[j])
      BY <3>4
    <3>6. QueryOf(q, j)' = s.queries[j] /\ Queries(q)' = 1..Len(s.queries)
      BY <1>3, <2>1 DEF QueryOf, Queries
    <3>. QED  BY <1>1, <2>1, <3>1, <3>3, <3>5, <3>6
  <2>2. CASE q # r
    <3>1. Active(q, j) /\ worker'[q][j] = worker[q][j] /\ shape'[q] = shape[q]
      BY <1>3, <1>6, <2>2
    <3>. QED  BY <3>1 DEF Placed, Queries, QueryOf, Known, TermOf, FieldOf
  <2>. QED  BY <2>1, <2>2
<1>9. Sole'
  <2>. SUFFICES ASSUME NEW q \in Requests, NEW j \in 1..MaxQueries, alone'[q], Active(q, j)',
                       NEW p \in Requests, NEW k \in 1..MaxQueries, Active(p, k)'
                PROVE  p = q /\ k = j
    BY DEF Sole
  <2>1. q = r
    BY <1>6
  <2>2. p = r
    BY <1>4, <1>6, <2>1 DEF Reading
  <2>3. Len(s.queries) \in Nat
    BY PostingReadsAssumption
  <2>4. j <= 1 /\ k <= 1
    BY <1>4, <1>5, <2>1, <2>2, <2>3, PostingReadsAssumption
  <2>. QED  BY <2>1, <2>2, <2>4, PostingReadsAssumption
<1>10. Sought'
  <2>. SUFFICES ASSUME NEW q \in Requests, NEW j \in 1..MaxQueries,
                       alone'[q], worker'[q][j].pc = "read"
                PROVE  FALSE
    BY DEF Sought
  <2>1. Active(q, j)'
    BY DEF Active
  <2>2. q = r
    BY <1>6, <2>1
  <2>. QED  BY <1>1, <1>5, <2>1, <2>2
<1>11. ExactWhenAlone'
  <2>. SUFFICES ASSUME NEW q \in Requests, alone'[q], NEW j \in 1..MaxQueries,
                       NEW h \in worker'[q][j].got
                PROVE  Exact(h)
    BY DEF ExactWhenAlone, Exact
  <2>1. CASE q = r
    BY <1>1, <1>3, <2>1
  <2>2. CASE q # r
    BY <1>3, <1>4, <2>2 DEF ExactWhenAlone
  <2>. QED  BY <2>1, <2>2
<1>. QED  BY <1>7, <1>8, <1>9, <1>10, <1>11

\* Steps in which one goroutine only moves, keeping its place and its lists.
LEMMA MoveKeeps ==
  ASSUME IInv, NEW r \in Requests, NEW i \in 1..MaxQueries, Active(r, i),
         NEW c \in {"read", "failed", "blocked"},
         c = "read" => Known(r, i),
         worker' = [worker EXCEPT ![r][i].pc = c],
         offset' \in [Fields -> Nat],
         UNCHANGED <<process, closed, dbClosed, shape, status, alone>>,
         c = "read" /\ alone[r] =>
           FieldOf(r, i) \in closed \/ offset'[FieldOf(r, i)] = MetaOf(r, i).start
  PROVE  IInv'
<1>. USE DEF IInv
<1>. DEFINE w == [worker[r][i] EXCEPT !.pc = c]
<1>1. worker[r][i] \in Worker
  BY WorkerType
<1>2. w \in Worker
  BY <1>1 DEF Worker
<1>3. /\ w.pc = c
      /\ w.at = worker[r][i].at
      /\ w.field = worker[r][i].field
      /\ w.got = worker[r][i].got
  BY <1>1 DEF Worker
<1>4. /\ worker' \in [Requests -> [1..MaxQueries -> Worker]]
      /\ worker'[r][i] = w
      /\ \A q \in Requests, j \in 1..MaxQueries :
           ~(q = r /\ j = i) => worker'[q][j] = worker[q][j]
  <2>1. PICK v \in Worker : v = w
    BY <1>2
  <2>2. worker' = [worker EXCEPT ![r][i] = v]
    BY <2>1
  <2>3. TypeOK
    OBVIOUS
  <2>4. /\ worker' \in [Requests -> [1..MaxQueries -> Worker]]
        /\ worker'[r][i] = v
        /\ \A q \in Requests, j \in 1..MaxQueries :
             ~(q = r /\ j = i) => worker'[q][j] = worker[q][j]
    BY ONLY <2>2, <2>3, WorkerUpdate, r \in Requests, i \in 1..MaxQueries, v \in Worker, ZenonT(60)
  <2>. QED  BY <2>1, <2>4
<1>5. \A q \in Requests, j \in 1..MaxQueries :
        /\ worker'[q][j].at = worker[q][j].at
        /\ worker'[q][j].field = worker[q][j].field
        /\ worker'[q][j].got = worker[q][j].got
        /\ Active(q, j)' => Active(q, j)
  BY <1>4, <1>3 DEF Active
<1>6. \A q \in Requests, j \in 1..MaxQueries :
        /\ QueryOf(q, j)' = QueryOf(q, j)
        /\ Queries(q)' = Queries(q)
        /\ TermOf(q, j)' = TermOf(q, j)
        /\ FieldOf(q, j)' = FieldOf(q, j)
        /\ MetaOf(q, j)' = MetaOf(q, j)
        /\ Known(q, j)' <=> Known(q, j)
  BY <1>5 DEF QueryOf, Queries, TermOf, FieldOf, MetaOf, Known
<1>7. TypeOK'
  BY <1>4 DEF TypeOK, Worker
<1>8. Placed'
  <2>. SUFFICES ASSUME NEW q \in Requests, NEW j \in 1..MaxQueries, Active(q, j)'
                PROVE  /\ j \in Queries(q)'
                       /\ worker'[q][j].at \in 1..Len(QueryOf(q, j)')
                       /\ worker'[q][j].pc = "read" => Known(q, j)'
    BY DEF Placed
  <2>1. CASE q = r /\ j = i
    BY <1>4, <1>3, <1>5, <1>6, <2>1 DEF Placed
  <2>2. CASE ~(q = r /\ j = i)
    BY <1>4, <1>5, <1>6, <2>2 DEF Placed
  <2>. QED  BY <2>1, <2>2
<1>9. Sole'
  BY <1>5 DEF Sole
<1>10. Sought'
  <2>. SUFFICES ASSUME NEW q \in Requests, NEW j \in 1..MaxQueries,
                       alone[q], worker'[q][j].pc = "read"
                PROVE  FieldOf(q, j) \in closed \/ offset'[FieldOf(q, j)] = MetaOf(q, j).start
    BY <1>6 DEF Sought
  <2>1. Active(q, j)
    BY <1>5 DEF Active
  <2>2. q = r /\ j = i
    BY <2>1 DEF Sole
  <2>. QED  BY <1>4, <1>3, <2>2
<1>11. ExactWhenAlone'
  BY <1>5 DEF ExactWhenAlone, Exact
<1>. QED  BY <1>7, <1>8, <1>9, <1>10, <1>11

LEMMA SeekKeeps ==
  ASSUME IInv, NEW r \in Requests, NEW i \in 1..MaxQueries, Seek(r, i)
  PROVE  IInv'
<1>1. Active(r, i) /\ Known(r, i)
  BY DEF Seek, Active
<1>2. FieldOf(r, i) \in Fields
  BY WorkerType DEF IInv, FieldOf, Worker
<1>3. StartOf(r, i) \in Nat
  BY <1>1, <1>2, MetaType DEF StartOf, MetaOf, Known
<1>4. offset' \in [Fields -> Nat]
  BY <1>2, <1>3 DEF Seek, IInv, TypeOK
<1>5. FieldOf(r, i) \in closed \/ offset'[FieldOf(r, i)] = MetaOf(r, i).start
  BY <1>2 DEF Seek, StartOf, IInv, TypeOK
<1>. QED  BY <1>1, <1>4, <1>5, MoveKeeps DEF Seek

LEMMA ReadFailsKeeps ==
  ASSUME IInv, NEW r \in Requests, NEW i \in 1..MaxQueries, ReadFails(r, i)
  PROVE  IInv'
<1>1. Active(r, i)
  BY DEF ReadFails, Active
<1>2. PICK c \in {"failed", "blocked"} : worker' = [worker EXCEPT ![r][i].pc = c]
  BY DEF ReadFails, Fail
<1>3. /\ offset' \in [Fields -> Nat]
      /\ UNCHANGED <<process, closed, dbClosed, shape, status, alone>>
  BY DEF ReadFails, IInv, TypeOK
<1>4. c \in {"read", "failed", "blocked"} /\ c # "read"
  OBVIOUS
<1>. QED  BY <1>1, <1>2, <1>3, <1>4, MoveKeeps

LEMMA UnknownKeeps ==
  ASSUME IInv, NEW r \in Requests, NEW i \in 1..MaxQueries, Unknown(r, i)
  PROVE  IInv'
<1>. DEFINE list == [start |-> 0, len |-> 0]
<1>1. Active(r, i) /\ Step(r, i, list)
  BY DEF Unknown, Active
<1>2. list.start \in Nat /\ list.len \in Nat
  OBVIOUS
<1>3. /\ offset' \in [Fields -> Nat]
      /\ UNCHANGED <<process, closed, dbClosed, shape, status, alone>>
  BY DEF Unknown, IInv, TypeOK
<1>4. Exact([term |-> TermOf(r, i), field |-> FieldOf(r, i),
             start |-> list.start, len |-> list.len])
  BY DEF Unknown, Known, Exact
<1>. HIDE DEF list
<1>. QED  BY <1>1, <1>2, <1>3, <1>4, AdvanceKeeps

\* The heart of the matter: the Read of a request that is alone starts where its
\* Seek went, and there are as many bytes as the posting list has.
LEMMA ReadKeeps ==
  ASSUME IInv, NEW r \in Requests, NEW i \in 1..MaxQueries, Read(r, i)
  PROVE  IInv'
<1>. DEFINE f == FieldOf(r, i)
            n == IF MetaOf(r, i).len <= Rest(f) THEN MetaOf(r, i).len ELSE Rest(f)
            list == [start |-> offset[f], len |-> n]
<1>1. Active(r, i) /\ Step(r, i, list) /\ worker[r][i].pc = "read"
  BY DEF Read, Active
<1>2. Known(r, i)
  BY <1>1 DEF IInv, Placed
<1>3. f \in Fields /\ offset[f] \in Nat /\ FileLen[f] \in Nat
  BY WorkerType, PostingReadsAssumption DEF IInv, TypeOK, FieldOf, Worker
<1>4. /\ MetaOf(r, i) = Meta[f][TermOf(r, i)]
      /\ TermOf(r, i) \in DOMAIN Meta[f]
      /\ MetaOf(r, i).start \in Nat /\ MetaOf(r, i).len \in Nat
      /\ MetaOf(r, i).start + MetaOf(r, i).len <= FileLen[f]
  BY <1>2, <1>3, PostingReadsAssumption DEF MetaOf, Known
<1>5. n \in Nat
  BY <1>3, <1>4 DEF Read, Rest
<1>6. /\ offset' \in [Fields -> Nat]
      /\ UNCHANGED <<process, closed, dbClosed, shape, status, alone>>
  BY <1>3, <1>5 DEF Read, IInv, TypeOK
<1>7. list.start \in Nat /\ list.len \in Nat
  BY <1>3, <1>5
<1>8. alone[r] => Exact([term |-> TermOf(r, i), field |-> FieldOf(r, i),
                         start |-> list.start, len |-> list.len])
  <2>. SUFFICES ASSUME alone[r]
                PROVE  offset[f] = MetaOf(r, i).start /\ n = MetaOf(r, i).len
    BY <1>4 DEF Exact
  <2>1. offset[f] = MetaOf(r, i).start
    BY <1>1 DEF Read, IInv, Sought
  <2>. QED  BY <1>3, <1>4, <2>1 DEF Rest
<1>. HIDE DEF list, n
<1>. QED  BY <1>1, <1>6, <1>7, <1>8, AdvanceKeeps

-----------------------------------------------------------------------------

LEMMA InitIInv == Init => IInv
<1>. SUFFICES ASSUME Init PROVE IInv
  OBVIOUS
<1>1. Unused \in Worker /\ Unused.pc = "none" /\ Unused.got = {}
  BY DEF Unused, Worker, Fields
<1>2. \A r \in Requests, i \in 1..MaxQueries : worker[r][i] = Unused
  BY DEF Init
<1>3. TypeOK
  BY <1>1 DEF Init, TypeOK, Worker
<1>. QED  BY <1>1, <1>2, <1>3 DEF Init, IInv, Placed, Sole, Sought, ExactWhenAlone, Active

LEMMA NextIInv == IInv /\ [Next]_vars => IInv'
<1>. SUFFICES ASSUME IInv, [Next]_vars PROVE IInv'
  OBVIOUS
<1>1. ASSUME NEW r \in Requests, NEW s \in Shapes, Arrive(r, s) PROVE IInv'
  BY <1>1, ArriveKeeps
<1>2. ASSUME NEW r \in Requests, NEW i \in 1..MaxQueries, WorkerStep(r, i) PROVE IInv'
  BY <1>2, UnknownKeeps, SeekKeeps, ReadKeeps, ReadFailsKeeps DEF WorkerStep
<1>3. ASSUME NEW r \in Requests, RequestStep(r) PROVE IInv'
  <2>1. /\ UNCHANGED <<process, offset, closed, dbClosed, shape, worker, alone>>
        /\ \E o \in Outcomes : status' = [status EXCEPT ![r] = o]
    BY <1>3 DEF RequestStep, Respond, RespondError, Timeout, Outcomes
  <2>2. /\ status' \in [Requests -> {"idle", "running"} \cup Outcomes]
        /\ closed' \subseteq Fields /\ dbClosed' \in BOOLEAN
        /\ process' \in {"up", "stopping", "gone"}
    BY <2>1 DEF IInv, TypeOK
  <2>. QED  BY <2>1, <2>2, OutcomeKeeps
<1>4. ASSUME NEW f \in Fields, CloseFile(f) PROVE IInv'
  BY <1>4, OutcomeKeeps DEF CloseFile, IInv, TypeOK
<1>5. CASE CloseStore \/ Shutdown \/ Exit
  BY <1>5, OutcomeKeeps DEF CloseStore, Shutdown, Exit, IInv, TypeOK
<1>6. CASE Ended \/ UNCHANGED vars
  BY <1>6, OutcomeKeeps DEF Ended, vars, IInv, TypeOK
<1>. QED  BY <1>1, <1>2, <1>3, <1>4, <1>5, <1>6 DEF Next

-----------------------------------------------------------------------------
(* What a request that is alone and an answer rest on                        *)

\* A request has no more queries than there are goroutines for it.
LEMMA QueriesType ==
  ASSUME TypeOK, NEW r \in Requests
  PROVE  Queries(r) \subseteq 1..MaxQueries
<1>1. CASE shape[r] = NoShape
  <2>1. Len(shape[r].queries) = 0
    BY <1>1 DEF NoShape
  <2>. QED  BY <2>1 DEF Queries
<1>2. CASE shape[r] \in Shapes
  <2>1. Len(shape[r].queries) <= MaxQueries /\ shape[r].queries \in Seq(Query)
    BY <1>2, PostingReadsAssumption
  <2>2. Len(shape[r].queries) \in Nat /\ MaxQueries \in Nat
    BY <2>1, PostingReadsAssumption
  <2>. QED  BY <2>1, <2>2 DEF Queries
<1>. QED  BY <1>1, <1>2 DEF TypeOK

\* A goroutine that gets a list has, when it goes on, one of each term it is past.
LEMMA AdvanceCollects ==
  ASSUME IInv, Progress, NEW r \in Requests, NEW i \in 1..MaxQueries, Active(r, i),
         NEW list, list.start \in Nat, list.len \in Nat, Step(r, i, list),
         UNCHANGED <<process, closed, dbClosed, shape, status, alone>>
  PROVE  Progress'
<1>. DEFINE w == Advanced(r, i, list)
            v == worker[r][i]
            g == [term |-> TermOf(r, i), field |-> FieldOf(r, i),
                  start |-> list.start, len |-> list.len]
<1>. USE DEF IInv, Progress
<1>1. w \in Worker /\ worker' = [worker EXCEPT ![r][i] = w]
  BY AdvancedType, StepAdvances
<1>2. /\ worker'[r][i] = w
      /\ \A q \in Requests, j \in 1..MaxQueries :
           ~(q = r /\ j = i) => worker'[q][j] = worker[q][j]
  BY <1>1, WorkerUpdate, ZenonT(60)
<1>3. /\ v \in Worker /\ Len(QueryOf(r, i)) \in Nat
      /\ v.at \in 1..Len(QueryOf(r, i))
  BY ActiveTerm DEF Placed
<1>4. /\ w.pc \in {"seek", "done"}
      /\ w.got = v.got \cup {g}
      /\ v.pc \in {"seek", "read"}
  BY <1>3 DEF Advanced, Worker, FieldOf, Active
<1>5. Unfailed'
  BY <1>2, <1>4 DEF Unfailed
<1>6. ASSUME NEW j \in 1..Len(QueryOf(r, i)), NEW f \in Fields, Past(w, j, f)
      PROVE  Past(v, j, f) \/ (j = v.at /\ f = v.field)
  <2>1. v.field \in {"name", "address"} /\ f \in {"name", "address"} /\ v.at \in Nat
    BY <1>3 DEF Worker, Fields
  <2>2. CASE v.field = "name"
    <3>1. w.pc = "seek" /\ w.field = "address" /\ w.at = v.at
      BY <1>3, <2>2 DEF Advanced, Worker
    <3>. QED  BY <1>6, <2>2, <3>1 DEF Past
  <2>3. CASE v.field = "address" /\ v.at < Len(QueryOf(r, i))
    <3>1. w.pc = "seek" /\ w.field = "name" /\ w.at = v.at + 1
      BY <1>3, <2>3 DEF Advanced, Worker
    <3>2. j < v.at + 1
      BY <1>6, <3>1 DEF Past
    <3>3. j < v.at \/ j = v.at
      BY <2>1, <3>2
    <3>. QED  BY <2>1, <2>3, <3>3 DEF Past
  <2>4. CASE v.field = "address" /\ ~(v.at < Len(QueryOf(r, i)))
    <3>1. j < v.at \/ j = v.at
      BY <1>3, <2>4
    <3>. QED  BY <2>1, <2>4, <3>1 DEF Past
  <2>. QED  BY <2>1, <2>2, <2>3, <2>4
<1>7. Collected'
  <2>. SUFFICES ASSUME NEW q \in Requests, NEW k \in 1..MaxQueries,
                       worker'[q][k].pc \in {"seek", "read", "done"},
                       NEW j \in DOMAIN QueryOf(q, k)', NEW f \in Fields,
                       Past(worker'[q][k], j, f)
                PROVE  Has(worker'[q][k], QueryOf(q, k)'[j], f)
    BY DEF Collected, Past, Has
  <2>1. QueryOf(q, k)' = QueryOf(q, k)
    BY DEF QueryOf
  <2>2. CASE ~(q = r /\ k = i)
    BY <1>2, <2>1, <2>2 DEF Collected
  <2>3. CASE q = r /\ k = i
    <3>1. QueryOf(r, i) \in Seq(Terms)
      <4>1. i \in 1..Len(shape[r].queries)
        BY DEF Placed, Queries
      <4>2. shape[r] # NoShape
        <5>1. Len(NoShape.queries) = 0
          BY DEF NoShape
        <5>. QED  BY <4>1, <5>1
      <4>. QED  BY <4>1, <4>2, QueryTerms DEF TypeOK, QueryOf
    <3>2. j \in 1..Len(QueryOf(r, i)) /\ Past(w, j, f)
      BY <1>2, <2>1, <2>3, <3>1
    <3>3. CASE Past(v, j, f)
      <4>1. Has(v, QueryOf(r, i)[j], f)
        BY <1>4, <2>1, <2>3, <3>3 DEF Collected
      <4>. QED  BY <1>2, <1>4, <2>1, <2>3, <4>1 DEF Has
    <3>4. CASE j = v.at /\ f = v.field
      <4>1. g.term = QueryOf(r, i)[j] /\ g.field = f
        BY <3>4 DEF TermOf, FieldOf
      <4>2. g \in w.got
        BY <1>4
      <4>. QED  BY <1>2, <2>1, <2>3, <4>1, <4>2 DEF Has
    <3>. QED  BY <1>6, <3>2, <3>3, <3>4
  <2>. QED  BY <2>2, <2>3
<1>8. Awaited'
  <2>. SUFFICES ASSUME NEW q \in Requests, status[q] \in {"answered", "blank"},
                       NEW k \in Queries(q)
                PROVE  worker'[q][k].pc = "done"
    BY DEF Awaited, Finished, Queries
  <2>1. k \in 1..MaxQueries /\ worker[q][k].pc = "done"
    BY QueriesType DEF Awaited, Finished
  <2>. QED  BY <1>2, <1>4, <2>1
<1>. QED  BY <1>5, <1>7, <1>8

\* So does one that only moves, or fails when it is not alone.
LEMMA MoveCollects ==
  ASSUME IInv, Progress, NEW r \in Requests, NEW i \in 1..MaxQueries, Active(r, i),
         NEW c \in {"read", "failed", "blocked"},
         worker' = [worker EXCEPT ![r][i].pc = c],
         c # "read" => ~(alone[r] /\ closed = {}),
         UNCHANGED <<process, closed, dbClosed, shape, status, alone>>
  PROVE  Progress'
<1>. USE DEF IInv, Progress
<1>. DEFINE w == [worker[r][i] EXCEPT !.pc = c]
<1>1. worker[r][i] \in Worker
  BY WorkerType
<1>2. /\ w.pc = c /\ w.at = worker[r][i].at
      /\ w.field = worker[r][i].field /\ w.got = worker[r][i].got
  BY <1>1 DEF Worker
<1>3. /\ worker'[r][i] = w
      /\ \A q \in Requests, j \in 1..MaxQueries :
           ~(q = r /\ j = i) => worker'[q][j] = worker[q][j]
  BY WorkerType
<1>4. worker[r][i].pc \in {"seek", "read"}
  BY DEF Active
<1>5. Unfailed'
  BY <1>2, <1>3 DEF Unfailed
<1>6. Collected'
  <2>. SUFFICES ASSUME NEW q \in Requests, NEW k \in 1..MaxQueries,
                       worker'[q][k].pc \in {"seek", "read", "done"},
                       NEW j \in DOMAIN QueryOf(q, k)', NEW f \in Fields,
                       Past(worker'[q][k], j, f)
                PROVE  Has(worker'[q][k], QueryOf(q, k)'[j], f)
    BY DEF Collected, Past, Has
  <2>1. QueryOf(q, k)' = QueryOf(q, k)
    BY DEF QueryOf
  <2>2. CASE ~(q = r /\ k = i)
    BY <1>3, <2>1, <2>2 DEF Collected
  <2>3. CASE q = r /\ k = i
    <3>1. Past(worker[r][i], j, f)
      BY <1>2, <1>3, <2>3 DEF Past
    <3>. QED  BY <1>2, <1>3, <1>4, <2>1, <2>3, <3>1 DEF Collected, Has
  <2>. QED  BY <2>2, <2>3
<1>7. Awaited'
  <2>. SUFFICES ASSUME NEW q \in Requests, status[q] \in {"answered", "blank"},
                       NEW k \in Queries(q)
                PROVE  worker'[q][k].pc = "done"
    BY DEF Awaited, Finished, Queries
  <2>1. k \in 1..MaxQueries /\ worker[q][k].pc = "done"
    BY QueriesType DEF Awaited, Finished
  <2>. QED  BY <1>3, <1>4, <2>1
<1>. QED  BY <1>5, <1>6, <1>7

\* The Read of a request that is alone, the files open, does not meet the end.
LEMMA AloneReads ==
  ASSUME IInv, NEW r \in Requests, NEW i \in 1..MaxQueries, ReadFails(r, i)
  PROVE  ~(alone[r] /\ closed = {})
<1>. SUFFICES ASSUME alone[r], closed = {} PROVE FALSE
  OBVIOUS
<1>. DEFINE f == FieldOf(r, i)
<1>1. worker[r][i].pc = "read" /\ Active(r, i) /\ Rest(f) = 0
  BY DEF ReadFails, Active
<1>2. Known(r, i) /\ offset[f] = MetaOf(r, i).start
  BY <1>1 DEF IInv, Placed, Sought
<1>3. f \in Fields /\ offset[f] \in Nat /\ FileLen[f] \in Nat
  BY WorkerType, PostingReadsAssumption, ZenonT(60) DEF IInv, TypeOK, FieldOf, Worker
<1>4. /\ MetaOf(r, i).start \in Nat /\ MetaOf(r, i).len \in Nat \ {0}
      /\ MetaOf(r, i).start + MetaOf(r, i).len <= FileLen[f]
  BY <1>2, <1>3, PostingReadsAssumption DEF MetaOf, Known
<1>. QED  BY <1>1, <1>2, <1>3, <1>4 DEF Rest

LEMMA WorkerProgress ==
  ASSUME IInv, Progress, NEW r \in Requests, NEW i \in 1..MaxQueries, WorkerStep(r, i)
  PROVE  Progress'
<1>1. Active(r, i) /\ UNCHANGED <<process, closed, dbClosed, shape, status, alone>>
  BY DEF WorkerStep, Unknown, Seek, Read, ReadFails, Active
<1>2. CASE Unknown(r, i)
  <2>. DEFINE list == [start |-> 0, len |-> 0]
  <2>1. Step(r, i, list) /\ list.start \in Nat /\ list.len \in Nat
    BY <1>2 DEF Unknown
  <2>. HIDE DEF list
  <2>. QED  BY <1>1, <2>1, AdvanceCollects
<1>3. CASE Read(r, i)
  <2>. DEFINE f == FieldOf(r, i)
              n == IF MetaOf(r, i).len <= Rest(f) THEN MetaOf(r, i).len ELSE Rest(f)
              list == [start |-> offset[f], len |-> n]
  <2>1. Step(r, i, list) /\ Known(r, i)
    BY <1>1, <1>3 DEF Read, IInv, Placed
  <2>2. f \in Fields /\ offset[f] \in Nat /\ FileLen[f] \in Nat
    BY WorkerType, PostingReadsAssumption DEF IInv, TypeOK, FieldOf, Worker
  <2>3. MetaOf(r, i).len \in Nat
    BY <2>1, <2>2, MetaType DEF MetaOf, Known
  <2>4. list.start \in Nat /\ list.len \in Nat
    BY <1>3, <2>2, <2>3 DEF Read, Rest
  <2>. HIDE DEF list
  <2>. QED  BY <1>1, <2>1, <2>4, AdvanceCollects
<1>4. CASE Seek(r, i)
  BY <1>1, <1>4, MoveCollects DEF Seek
<1>5. CASE ReadFails(r, i)
  <2>1. PICK c \in {"failed", "blocked"} : worker' = [worker EXCEPT ![r][i].pc = c]
    BY <1>5 DEF ReadFails, Fail
  <2>2. c \in {"read", "failed", "blocked"}
    OBVIOUS
  <2>. QED  BY <1>1, <1>5, <2>1, <2>2, AloneReads, MoveCollects
<1>. QED  BY <1>2, <1>3, <1>4, <1>5 DEF WorkerStep

LEMMA ArriveProgress ==
  ASSUME IInv, Progress, NEW r \in Requests, NEW s \in Shapes, Arrive(r, s)
  PROVE  Progress'
<1>. USE DEF IInv, Progress
<1>. DEFINE ws == [i \in 1..MaxQueries |-> IF i <= Len(s.queries) THEN Fresh ELSE Unused]
<1>1. /\ worker'[r] = ws /\ shape'[r] = s /\ status'[r] = "running"
      /\ closed' = closed /\ process' = process
      /\ \A q \in Requests \ {r} :
           worker'[q] = worker[q] /\ shape'[q] = shape[q] /\ status'[q] = status[q]
      /\ \A q \in Requests \ {r} : alone'[q] => alone[q]
  BY WorkerType DEF Arrive, TypeOK, Reading
<1>2. \A i \in 1..MaxQueries : ws[i] = Fresh \/ ws[i] = Unused
  OBVIOUS
<1>3. Fresh.pc = "seek" /\ Fresh.at = 1 /\ Fresh.field = "name" /\ Unused.pc = "none"
  BY DEF Fresh, Unused
<1>4. Unfailed'
  <2>. SUFFICES ASSUME NEW q \in Requests, alone'[q], closed' = {}
                PROVE  /\ status'[q] # "error"
                       /\ status'[q] = "timeout" => process' # "up"
                       /\ \A i \in 1..MaxQueries :
                            worker'[q][i].pc \notin {"failed", "blocked"}
    BY DEF Unfailed
  <2>1. CASE q = r
    <3>1. \A i \in 1..MaxQueries : worker'[q][i].pc \in {"seek", "none"}
      BY <1>1, <1>2, <1>3, <2>1
    <3>. QED  BY <1>1, <2>1, <3>1
  <2>2. CASE q # r
    BY <1>1, <2>2 DEF Unfailed
  <2>. QED  BY <2>1, <2>2
<1>5. Collected'
  <2>. SUFFICES ASSUME NEW q \in Requests, NEW k \in 1..MaxQueries,
                       worker'[q][k].pc \in {"seek", "read", "done"},
                       NEW j \in DOMAIN QueryOf(q, k)', NEW f \in Fields,
                       Past(worker'[q][k], j, f)
                PROVE  Has(worker'[q][k], QueryOf(q, k)'[j], f)
    BY DEF Collected, Past, Has
  <2>1. CASE q # r
    <3>1. worker'[q] = worker[q] /\ QueryOf(q, k)' = QueryOf(q, k)
      BY <1>1, <2>1 DEF QueryOf
    <3>. QED  BY <3>1 DEF Collected
  <2>2. CASE q = r
    <3>1. worker'[r][k] = Fresh /\ j < 1
      BY <1>1, <1>2, <1>3, <2>2 DEF Past
    <3>2. k <= Len(s.queries)
      BY <1>1, <1>3, <2>2, <3>1
    <3>3. s.queries \in Seq(Query) /\ Len(s.queries) \in Nat
      BY PostingReadsAssumption
    <3>4. k \in 1..Len(s.queries)
      BY <3>2, <3>3, PostingReadsAssumption
    <3>5. s.queries[k] \in Seq(Terms) /\ QueryOf(q, k)' = s.queries[k]
      BY <1>1, <2>2, <3>4, QueryTerms DEF QueryOf
    <3>6. j \in 1..Len(s.queries[k])
      BY <3>5
    <3>. QED  BY <3>1, <3>6
  <2>. QED  BY <2>1, <2>2
<1>6. Awaited'
  BY <1>1 DEF Awaited, Finished, Queries
<1>. QED  BY <1>4, <1>5, <1>6

\* Outcomes: a request that is alone has read only what is exact, so its documents
\* are found.
LEMMA OutcomeProgress ==
  ASSUME IInv, Progress, NEW r \in Requests, RequestStep(r)
  PROVE  Progress'
<1>. USE DEF IInv, Progress
<1>1. /\ UNCHANGED <<process, offset, closed, shape, worker, alone>>
      /\ \A q \in Requests \ {r} : status'[q] = status[q]
  BY DEF RequestStep, Respond, RespondError, Timeout, TypeOK
<1>2. Queries(r) \subseteq 1..MaxQueries
  BY QueriesType
<1>3. ASSUME alone[r], closed = {}
      PROVE  status'[r] # "error" /\ (status'[r] = "timeout" => process # "up")
  <2>1. \A i \in Queries(r) : worker[r][i].pc \notin {"failed", "blocked"}
    BY <1>2, <1>3 DEF Unfailed
  <2>2. ~ RespondError(r) /\ ~ Stuck(r)
    BY <2>1 DEF RespondError, Stuck
  <2>3. CASE Timeout(r)
    BY <2>2, <2>3 DEF Timeout, TypeOK
  <2>4. CASE Respond(r)
    <3>1. \A i \in Queries(r) : \A g \in worker[r][i].got : Exact(g)
      BY <1>2, <1>3 DEF ExactWhenAlone
    <3>2. \E o \in {"answered", "blank"} : status' = [status EXCEPT ![r] = o]
      BY <2>4, <3>1 DEF Respond
    <3>. QED  BY <3>2 DEF TypeOK
  <2>. QED  BY <2>2, <2>3, <2>4 DEF RequestStep
<1>4. status'[r] \in {"answered", "blank"} => Finished(r)
  BY DEF RequestStep, Respond, RespondError, Timeout, TypeOK
<1>5. Unfailed'
  BY <1>1, <1>3 DEF Unfailed
<1>6. Collected'
  BY <1>1 DEF Collected, QueryOf
<1>7. Awaited'
  BY <1>1, <1>4 DEF Awaited, Finished, Queries
<1>. QED  BY <1>5, <1>6, <1>7

LEMMA InitProgress == Init => Progress
<1>. SUFFICES ASSUME Init PROVE Progress
  OBVIOUS
<1>1. Unused.pc = "none"
  BY DEF Unused
<1>2. \A r \in Requests, i \in 1..MaxQueries : worker[r][i] = Unused
  BY DEF Init
<1>3. \A r \in Requests : status[r] = "idle"
  BY DEF Init
<1>. QED  BY <1>1, <1>2, <1>3 DEF Progress, Unfailed, Collected, Awaited

LEMMA NextProgress == IInv /\ Progress /\ [Next]_vars => Progress'
<1>. SUFFICES ASSUME IInv, Progress, [Next]_vars PROVE Progress'
  OBVIOUS
<1>1. ASSUME NEW f \in Fields, CloseFile(f) PROVE Progress'
  BY <1>1 DEF CloseFile, Progress, Unfailed, Collected, Awaited, Finished, Queries, QueryOf
<1>2. CASE CloseStore \/ Shutdown \/ Exit \/ Ended \/ UNCHANGED vars
  BY <1>2 DEF CloseStore, Shutdown, Exit, Ended, vars, Progress, Unfailed, Collected, Awaited,
              Finished, Queries, QueryOf
<1>. QED  BY <1>1, <1>2, ArriveProgress, WorkerProgress, OutcomeProgress DEF Next

-----------------------------------------------------------------------------

\* The values of the state: for all constants, the invariant TypeOK of the runs.
THEOREM TypeCorrect == Spec => []TypeOK
BY InitIInv, NextIInv, PTL DEF Spec, IInv

\* GetPostingList returns the posting list of its term to every request that has the
\* index files to itself, whatever the requests before it left as offset and
\* whenever the server shuts down.
THEOREM ReadsExactWhenAlone == Spec => []ExactWhenAlone
BY InitIInv, NextIInv, PTL DEF Spec, IInv

\* A request that has the index files to itself is not failed by its reads, as long as
\* the files are open: neither the end of a file nor a missing document
\* (GetPostingList, FreeFormQuery, Autocomplete).  It runs into the timeout only
\* when the server has been told to stop.
THEOREM AloneIsServed == Spec => []AloneSucceeds
<1>1. Progress => AloneSucceeds
  BY DEF Progress, Unfailed, AloneSucceeds
<1>. QED  BY <1>1, InitIInv, NextIInv, InitProgress, NextProgress, PTL DEF Spec

\* An answer has used a posting list of both fields for every term of every query,
\* whatever the goroutines of the other requests do to the shared files.
THEOREM AnswersAreComplete == Spec => []AnswerComplete
<1>1. IInv /\ Progress => AnswerComplete
  <2>. SUFFICES ASSUME IInv, Progress, NEW r \in Requests,
                       status[r] \in {"answered", "blank"}, NEW i \in Queries(r),
                       NEW j \in DOMAIN QueryOf(r, i), NEW f \in Fields
                PROVE  Has(worker[r][i], QueryOf(r, i)[j], f)
    BY DEF AnswerComplete, Has
  <2>1. i \in 1..MaxQueries /\ worker[r][i].pc = "done"
    BY QueriesType DEF IInv, Progress, Awaited, Finished
  <2>. QED  BY <2>1 DEF Progress, Collected, Past
<1>. QED  BY <1>1, InitIInv, NextIInv, InitProgress, NextProgress, PTL DEF Spec

=============================================================================
