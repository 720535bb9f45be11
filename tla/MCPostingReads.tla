--------------------------- MODULE MCPostingReads ---------------------------
(***************************************************************************)
(* Instances of PostingReads for TLC: two terms, of which one has no       *)
(* address posting, in files where each list ends where the next begins.   *)
(***************************************************************************)
EXTENDS PostingReads

CONSTANTS t1, t2, r1, r2

At(start, len) == [start |-> start, len |-> len]

MCMeta ==
  [f \in Fields |->
     IF f = "name" THEN [t \in {t1, t2} |-> IF t = t1 THEN At(0, 2) ELSE At(2, 1)]
     ELSE [t \in {t1} |-> At(0, 1)]]
MCFileLen == [f \in Fields |-> IF f = "name" THEN 3 ELSE 1]

FreeForm(q)      == [kind |-> "freeform", queries |-> <<q>>]
Autocomplete(qs) == [kind |-> "autocomplete", queries |-> qs]

\* A free-form request of two terms, autocomplete requests of two matched queries,
\* of one, and of none.
MCShapes ==
  {FreeForm(<<t1, t2>>), Autocomplete(<<<<t1>>, <<t2>>>>), Autocomplete(<<<<t2>>>>),
   Autocomplete(<<>>)}

\* One autocomplete request is enough to have two readers.
TwoQueries == {Autocomplete(<<<<t1>>, <<t2>>>>)}

=============================================================================
