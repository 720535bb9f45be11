-------------------------------- MODULE NGramLM --------------------------------
(***************************************************************************)
(* The n-gram language model (pkg/searcher/ngram_lm.go): how the indexer   *)
(* prepares and counts the documents and how the server estimates a query. *)
(*                                                                         *)
(* A count map stands as the counts of the prepared documents it was made  *)
(* of; an estimate is its numerator and denominator.  Its logarithm and    *)
(* the weight of a backoff are left out: they are finite unless the        *)
(* numerator is zero.                                                      *)
(***************************************************************************)
EXTENDS Integers, Sequences, FiniteSets, SequencesExt, FiniteSetsExt

UNKNOWN_TOKEN == <<"<", "U", "N", "K", ">">>
START_TOKEN   == <<"<", "s", ">">>
END_TOKEN     == <<"<", "/", "s", ">">>
Markers       == {UNKNOWN_TOKEN, START_TOKEN, END_TOKEN}

COUNT_THRESOLD_NGRAM == 2

\* The positions of the documents, as <<document, index>>.
Positions(docs) == UNION {{d} \X DOMAIN docs[d] : d \in DOMAIN docs}
At(docs, p)     == docs[p[1]][p[2]]

-----------------------------------------------------------------------------
(* Preparing the documents *)

\* PreProcessData counts all words, and then getWordsWithNPlusFreq counts them again.
\* WordCountOnce is a mutant of WordCount: they are counted once.
WordCountOnce(docs, w) == Cardinality({p \in Positions(docs) : At(docs, p) = w})
WordCount(docs, w)     == 2 * Cardinality({p \in Positions(docs) : At(docs, p) = w})

ClosedWords(docs) ==
  {w \in {At(docs, p) : p \in Positions(docs)} : WordCount(docs, w) >= COUNT_THRESOLD_NGRAM}

\* replaceOOVWordsWithUNK.
PreProcessData(docs) ==
  [d \in DOMAIN docs |->
     [i \in DOMAIN docs[d] |-> IF docs[d][i] \in ClosedWords(docs) THEN docs[d][i]
                                                                  ELSE UNKNOWN_TOKEN]]

-----------------------------------------------------------------------------
(* Counting *)

AddStartEndToken(doc, n) == [i \in 1..n |-> START_TOKEN] \o doc \o <<END_TOKEN>>

\* Where the n-grams of a document that was given n start tokens begin.
\* BeginsButLast is a mutant of Begins: the one with the end token is missing.
BeginsButLast(doc) == 1..(Len(doc) + 1)
Begins(doc)        == 1..(Len(doc) + 2)

\* Uni-, Bi-, Tri- and QuadGramCount: how often the n-gram g occurs in the data.
Count(data, g) ==
  LET n == Len(g)
  IN  Cardinality(UNION {{<<d, i>> : i \in {b \in Begins(data[d]) :
                            SubSeq(AddStartEndToken(data[d], n), b, b + n - 1) = g}}
                         : d \in DOMAIN data})

TotalWordFreq(data) == FoldLeft(LAMBDA s, doc : s + Cardinality(Begins(doc)), 0, data)

-----------------------------------------------------------------------------
(* Estimating *)

Zero == [num |-> 0, den |-> 1]

\* The estimate of w after the words prev, of which there are at most three.
EstimateProbability(data, w, prev) ==
  IF prev = <<>> THEN [num |-> Count(data, <<w>>), den |-> TotalWordFreq(data)]
  ELSE IF Count(data, prev) = 0 THEN Zero
  ELSE [num |-> Count(data, Append(prev, w)), den |-> Count(data, prev)]

\* stupidBackoff: forget the earliest word until the estimate is not zero.
StupidBackoff(data, w, prev) ==
  LET tries == {n \in 0..Len(prev) :
                  EstimateProbability(data, w, SubSeq(prev, n + 1, Len(prev))).num # 0}
  IN  IF tries = {} THEN Zero
      ELSE EstimateProbability(data, w, SubSeq(prev, Min(tries) + 1, Len(prev)))

\* estimateQueryProbability is minus infinity if one factor is zero.
Possible(data, query) ==
  LET q == AddStartEndToken(query, 4)
  IN  \A i \in 5..Len(q) : StupidBackoff(data, q[i], SubSeq(q, i - 3, i - 1)).num # 0
=============================================================================
