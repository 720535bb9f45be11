------------------------------ MODULE SearchWords ------------------------------
(***************************************************************************)
(* From the words of a query to the indexed words that are looked up: the  *)
(* indexer prepares the language model and the noisy channel model, the    *)
(* server loads the dictionary, and FreeFormQuery and Autocomplete         *)
(* (pkg/searcher/searcher.go) replace unknown words by candidates of the   *)
(* SpellCorrector (pkg/searcher/spell_corrector.go).                       *)
(*                                                                         *)
(* A word is a sequence of letters; a word and its ID are not told apart.  *)
(* Which of the possible candidate queries is the most probable is left    *)
(* open: the probabilities are floating point.                             *)
(***************************************************************************)
EXTENDS NGramLM

CONSTANTS
  Documents,    \* the tokenized documents there may be
  Queries,      \* the tokenized queries there may be
  SpellErrors,  \* the lines of spell-errors.txt
  MaxDocs, MaxQueries  \* bounds on a behaviour

\* A word is a sequence of letters.  Tokenize brings queries into lower case: no word
\* of a query has a capital of the unknown token; and it leaves letters only: no word of
\* a document is the start or the end token.  No word of spell-errors.txt is empty, and
\* none is without errors.
ASSUME SearchWordsAssumption ==
  /\ LET Words == Seq(STRING) \ {<<>>}
     IN  SpellErrors \in Seq([word : Words, errors : Seq(Words) \ {<<>>}])
  /\ Documents \subseteq Seq(Seq(STRING))
  /\ \A d \in Documents : ToSet(d) \cap {START_TOKEN, END_TOKEN} = {}
  /\ Queries \subseteq Seq(Seq(STRING))
  /\ \A q \in Queries : \A w \in ToSet(q) : ToSet(w) \cap {"U", "N", "K"} = {}

StartChar == "-"
Space     == " "

VARIABLES
  phase,       \* "edits", "index" or "serve"
  read,        \* number of lines of SpellErrors read
  editCount,   \* NoisyChannelModel.EditCount
  docs,        \* the indexed documents
  data,        \* the documents the n-grams are counted in
  terms,       \* IDMap.StrToID
  vocabulary,  \* IDMap.Vocabulary, and the words of CorpusTermsFST
  asked,       \* the queries so far
  answer       \* the last request and the queries it goes on with

vars == <<phase, read, editCount, docs, data, terms, vocabulary, asked, answer>>

-----------------------------------------------------------------------------
(* BuildEditProb *)

Edit(kind, c1, c2) == [kind |-> kind, c1 |-> c1, c2 |-> c2]

SameLetters(u, v) ==
  \A c \in ToSet(u) : Cardinality({i \in DOMAIN u : u[i] = c}) = Cardinality({i \in DOMAIN v : v[i] = c})

\* Mutant of GetEdit: the lengths and the last letters decide.
GetEditByLength(u, v) ==
  Edit(IF Len(u) > Len(v) THEN "Insertion" ELSE IF Len(u) < Len(v) THEN "Deletion" ELSE "Substitution",
       Last(u), Last(v))

\* How the word u came from v, by the first letter in which they differ.
GetEdit(u, v) ==
  LET differ == {i \in 1..Min({Len(u), Len(v)}) : u[i] # v[i]}
      first  == Min(differ)
      before == IF first > 1 THEN v[first - 1] ELSE StartChar
  IN  IF u = v THEN Edit("none", u[1], v[1])
      ELSE IF Len(u) = Len(v)
        THEN Edit(IF SameLetters(u, v) THEN "Transposition" ELSE "Substitution", u[first], v[first])
      ELSE IF differ # {}
        THEN Edit(IF Len(u) > Len(v) THEN "Insertion" ELSE "Deletion", u[first], before)
      ELSE IF Len(u) > Len(v) THEN Edit("Insertion", Last(u), Last(v))
      ELSE Edit("Deletion", Last(u), IF Len(v) > 1 THEN v[Len(v) - 1] ELSE StartChar)

\* The errors of a line are cut at commas and only the whole list is trimmed: all
\* but the first begin with a space.
Piece(line, i) == IF i = 1 THEN line.errors[i] ELSE <<Space>> \o line.errors[i]

AddTo(count, e) == [x \in DOMAIN count \cup {e} |->
                      (IF x \in DOMAIN count THEN count[x] ELSE 0) + (IF x = e THEN 1 ELSE 0)]

ReadErrors ==
  LET line == SpellErrors[read + 1]
  IN  /\ phase = "edits"
      /\ read < Len(SpellErrors)
      /\ read' = read + 1
      /\ editCount' = FoldLeft(LAMBDA c, i : AddTo(c, GetEdit(Piece(line, i), line.word)),
                               editCount, [i \in DOMAIN line.errors |-> i])
      /\ UNCHANGED <<phase, docs, data, terms, vocabulary, asked, answer>>

BuildEditProb ==
  /\ phase = "edits"
  /\ read = Len(SpellErrors)
  /\ phase' = "index"
  /\ UNCHANGED <<read, editCount, docs, data, terms, vocabulary, asked, answer>>

-----------------------------------------------------------------------------
(* Indexing, and the server's start *)

IndexDocument ==
  /\ phase = "index"
  /\ Len(docs) < MaxDocs
  /\ \E d \in Documents :
       /\ docs' = Append(docs, d)
       /\ terms' = terms \cup ToSet(d)
  /\ UNCHANGED <<phase, read, editCount, data, vocabulary, asked, answer>>

\* BuildSpellCorrectorAndNgram; the markers get IDs of the same dictionary.  The
\* server builds vocabulary and automaton from the dictionary it loads.
BuildNGram ==
  /\ phase = "index"
  /\ docs # <<>>
  /\ phase' = "serve"
  /\ data' = PreProcessData(docs)
  /\ terms' = terms \cup Markers
  /\ vocabulary' = terms'
  /\ UNCHANGED <<read, editCount, docs, asked, answer>>

-----------------------------------------------------------------------------
(* Candidates *)

\* The vellum automaton: insertions, deletions and substitutions count one each.
Levenshtein(u, v) ==
  LET d[p \in (0..Len(u)) \X (0..Len(v))] ==
        LET i == p[1]
            j == p[2]
        IN  IF i = 0 THEN j ELSE IF j = 0 THEN i
            ELSE Min({d[<<i - 1, j>>] + 1, d[<<i, j - 1>>] + 1,
                      d[<<i - 1, j - 1>>] + (IF u[i] = v[j] THEN 0 ELSE 1)})
  IN  d[<<Len(u), Len(v)>>]

\* The elements of a set, in some order.
Listed(S) == FoldSet(LAMBDA x, l : Append(l, x), <<>>, S)

GetWordCandidates(w, distance) ==
  Listed({v \in vocabulary : Levenshtein(w, v) <= distance})

GetMatchedWordBasedOnPrefix(w) == Listed({v \in vocabulary : IsPrefix(w, v)})

IsInVocabulary(w) == w \in vocabulary

\* FreeFormQuery: the words at distance one come a second time with distance two.
FreeFormCandidates(w) ==
  IF IsInVocabulary(w) THEN <<w>>
  ELSE GetWordCandidates(w, 1) \o GetWordCandidates(w, 2)

\* AllWithin is a mutant of WithoutSeen: a word found twice is taken twice.
AllWithin(s, more)   == s \o more
WithoutSeen(s, more) ==
  FoldLeft(LAMBDA t, w : IF w \in ToSet(t) THEN t ELSE Append(t, w), s, more)

AutocompleteCandidates(w) ==
  IF IsInVocabulary(w) THEN <<w>>
  ELSE WithoutSeen(WithoutSeen(GetMatchedWordBasedOnPrefix(w), GetWordCandidates(w, 1)),
                   GetWordCandidates(w, 2))

\* GetCorrectQueryCandidates: one candidate for each word, in all ways.
Products(lists) ==
  FoldLeft(LAMBDA ps, list : FlattenSeq([i \in DOMAIN ps |-> [j \in DOMAIN list |-> Append(ps[i], list[j])]]),
           << <<>> >>, lists)

-----------------------------------------------------------------------------
(* Serving *)

KAutoComplete == 3

Ask(op, q, matched) ==
  /\ asked' = asked + 1
  /\ answer' = [op |-> op, query |-> q, matched |-> matched]
  /\ UNCHANGED <<phase, read, editCount, docs, data, vocabulary>>

\* GetCorrectSpellingSuggestion takes the most probable query; without one of a
\* probability above zero it indexes with -1 and panics.
FreeFormQuery ==
  /\ phase = "serve" /\ asked < MaxQueries
  /\ \E q \in Queries :
       LET all == Products([i \in DOMAIN q |-> FreeFormCandidates(q[i])])
           possible == {i \in DOMAIN all : Possible(data, all[i])}
       IN  \/ possible = {} /\ Ask("panic", q, <<>>)
           \/ \E i \in possible : Ask("freeform", q, <<all[i]>>)
  /\ UNCHANGED terms

\* GetMatchedWordsAutocomplete takes the most probable three.  Every word of the
\* query, known or not, gets an ID first.
Autocomplete ==
  /\ phase = "serve" /\ asked < MaxQueries
  /\ \E q \in Queries :
       LET all == Products([i \in DOMAIN q |-> AutocompleteCandidates(q[i])])
           possible == {i \in DOMAIN all : Possible(data, all[i])}
       IN  /\ terms' = terms \cup ToSet(q)
           /\ \E best \in kSubset(Min({KAutoComplete, Len(all)}), DOMAIN all) :
                /\ best \subseteq possible \/ possible \subseteq best
                /\ Ask("autocomplete", q, [i \in 1..Cardinality(best) |-> all[Listed(best)[i]]])

-----------------------------------------------------------------------------
NoAnswer == [op |-> "none", query |-> <<>>, matched |-> <<>>]

Init ==
  /\ phase = "edits" /\ read = 0 /\ editCount = <<>>
  /\ docs = <<>> /\ data = <<>>
  /\ terms = {} /\ vocabulary = {}
  /\ asked = 0 /\ answer = NoAnswer

Next ==
  \/ ReadErrors \/ BuildEditProb
  \/ IndexDocument \/ BuildNGram
  \/ FreeFormQuery \/ Autocomplete

Spec == Init /\ [][Next]_vars

-----------------------------------------------------------------------------
(* Properties *)

\* The words that were indexed, and the markers that share their dictionary.
Known      == Markers \cup UNION {ToSet(docs[d]) : d \in DOMAIN docs}
Near(w)    == {v \in Known : Levenshtein(w, v) <= 2}
Admitted(w, more) == IF w \in Known THEN {w} ELSE Near(w) \cup more

\* A free form query goes on with one indexed word for each of its words, itself
\* or, for an unknown one, a word at most two edits away, and panics only if there
\* is none: the language model knows every word of the dictionary, however rare
\* (PreProcessData), and words only asked about stay unknown (GetID while serving).
CorrectionFound ==
  LET q == answer.query
  IN  /\ answer.op = "panic" => \E w \in ToSet(q) : Admitted(w, {}) = {}
      /\ answer.op = "freeform" =>
           /\ Len(answer.matched[1]) = Len(q)
           /\ \A i \in DOMAIN q : answer.matched[1][i] \in Admitted(q[i], {})

\* Autocomplete goes on with as many different queries as there are, three at most,
\* each made of indexed words that complete or correct the words asked for.  This
\* is about the queries only: each is scored on its own and its documents are
\* appended to the others', so a document that has a word of two of the queries is
\* listed once for each.
CompletionsDistinct ==
  answer.op = "autocomplete" =>
    LET q == answer.query
        m == answer.matched
        of(i) == Admitted(q[i], {v \in Known : IsPrefix(q[i], v)})
        ways == FoldLeft(LAMBDA n, i : n * Cardinality(of(i)), 1, [i \in DOMAIN q |-> i])
    IN  /\ IsInjective(m) /\ Len(m) = Min({KAutoComplete, ways})
        /\ \A k \in DOMAIN m : Len(m[k]) = Len(q) /\ \A i \in DOMAIN q : m[k][i] \in of(i)

Contexts ==
  UNION {LET doc == AddStartEndToken(data[d], 3)
         IN  {SubSeq(doc, i, j) : i \in DOMAIN doc, j \in DOMAIN doc} : d \in DOMAIN data}

\* The estimates of the words that can follow a context that was counted sum to
\* one, whatever its length, though each count map pads the documents with start
\* tokens of its own number; to nothing after the end of a document; and to two
\* after start tokens only, where the start token is counted as a word that follows.
EstimatesSumToOne ==
  phase = "serve" /\ asked = 0 =>
    LET sum(c) == MapThenSumSet(LAMBDA w : EstimateProbability(data, w, c).num, Known)
    IN  /\ sum(<<>>) = TotalWordFreq(data)
        /\ \A c \in {x \in Contexts : Len(x) \in 1..3 /\ Count(data, x) > 0} :
             sum(c) = IF ToSet(c) = {START_TOKEN} THEN 2 * Count(data, c)
                      ELSE IF Last(c) = END_TOKEN THEN 0 ELSE Count(data, c)

\* The one edit that makes u of v, with the two letters it is recorded under; no
\* edit if it takes more than one.  The letters are those getEdit returns.  The
\* comment of EditCount names others: ins[x_{i-1}, w_i], trans[w_i, w_{i+1}] and
\* del[x_{i-1}, w_i].  The code has the pairs of insertions and transpositions in
\* the opposite order, and a deletion under the letters after and before the
\* deleted one (twice the letter before, at the end), not under that letter.
SingleEdits(u, v) ==
  LET inserted == {i \in DOMAIN u : RemoveAt(u, i) = v}
      deleted  == {i \in DOMAIN v : RemoveAt(v, i) = u}
      i == Max(inserted)
      k == Max(deleted)
      differ == {j \in DOMAIN u : u[j] # v[j]}
  IN  IF inserted # {} THEN {Edit("Insertion", u[i], IF i = 1 THEN StartChar ELSE u[i - 1])}
      ELSE IF deleted # {}
        THEN {Edit("Deletion", v[IF k < Len(v) THEN k + 1 ELSE k - 1],
                   IF k = 1 THEN StartChar ELSE v[k - 1])}
      ELSE IF Len(u) # Len(v) THEN {}
      ELSE {Edit("Substitution", u[j], v[j]) : j \in {x \in differ : differ = {x}}} \cup
           {Edit("Transposition", u[j], v[j]) :
              j \in {x \in differ : /\ differ = {x, x + 1}
                                     /\ u[x] = v[x + 1] /\ u[x + 1] = v[x]}}

\* Training counts every listed error once, and counts each insertion, deletion,
\* substitution and transposition of letters that comes first on its line as that
\* edit, never as another kind or under other letters.
EditsAsListed ==
  LET firsts(e) == {l \in 1..read : e \in SingleEdits(SpellErrors[l].errors[1], SpellErrors[l].word)}
      listed == FoldLeft(LAMBDA n, l : n + Len(l.errors), 0, SubSeq(SpellErrors, 1, read))
      counted == MapThenSumSet(LAMBDA e : editCount[e], DOMAIN editCount)
  IN  /\ counted = listed
      /\ \A l \in 1..read : \A e \in SingleEdits(SpellErrors[l].errors[1], SpellErrors[l].word) :
           e \in DOMAIN editCount /\ editCount[e] >= Cardinality(firsts(e))
=============================================================================
